------------------------------ MODULE TftpProofs ------------------------------
(***************************************************************************)
(* Proofs about Tftp, for files, attempts, sessions and faults of any      *)
(* number, as long as the block numbers do not wrap.                       *)
(***************************************************************************)
EXTENDS Tftp, TLAPS, SequenceTheorems, FiniteSetTheorems

PeerStates == {"idle", "asking", "wait", "ok", "failed", "aborted"}

\* Types; a session that goes on has attempts left.
Typed ==
    /\ role \in Roles /\ size \in 1..MaxBlocks /\ exists \in BOOLEAN /\ faults \in 0..MaxFaults
    /\ us \in [Sessions -> [st : SessionStates, block : Nat, got : Seq(Nat), tries : 0..Retries]]
    /\ \A s \in Sessions : us[s].st \in {"none", "asked", "wait", "bye"} => us[s].tries < Retries
    /\ peer \in [st : PeerStates, block : Nat, got : Seq(Nat), tries : Nat, sid : 0..MaxSessions]
    /\ net \subseteq Datagrams

Prefix(n) == [i \in 1..n |-> i]

\* A receiver has the blocks before the one it expects, and is done with all;
\* a sender is at a block of the file.
Held ==
    /\ PeerReceiving =>
         /\ peer.block \in 1..size + 1 /\ peer.got = Prefix(peer.block - 1)
         /\ peer.st = "ok" <=> peer.block = size + 1
         /\ \A s \in Sessions : /\ us[s].block \in 1..size /\ us[s].got = <<>>
                                /\ us[s].st \notin {"put", "unsaved"}
    /\ ~PeerReceiving =>
         /\ peer.block \in 1..size /\ peer.got = <<>>
         /\ \A s \in Sessions :
              /\ us[s].block \in 1..size + 1 /\ us[s].got = Prefix(us[s].block - 1)
              /\ us[s].st \in {"put", "ok", "unsaved"} <=> us[s].block = size + 1
              /\ us[s].st \in {"put", "unsaved"} => role = "wrq"

\* A client has one socket, and the peer has chosen one once it has an answer.
Chose ==
    /\ ~Serving => peer.sid \in {0, 1} /\ \A s \in Sessions \ {1} : us[s].st = "none"
    /\ peer.st \in {"wait", "ok", "aborted"} => peer.sid # 0
    /\ peer.st \in {"asking", "idle"} => peer.sid = 0
    /\ peer.sid = 0 => peer.block = 1
    /\ peer.st = "asking" => Serving

\* What is under way: no block beyond the one its sender is at, and no
\* acknowledgement of a block that its receiver has not taken.
Wire ==
    \A m \in net :
        /\ m.kind = "REQ" => m = Request(IF Serving THEN "us" ELSE "peer")
        /\ m.kind = "DATA" =>
             /\ m.sid \in Sessions /\ m.chunk \in 1..size /\ m.n = m.chunk
             /\ PeerReceiving => m.to = "peer" /\ m.chunk <= us[m.sid].block
             /\ ~PeerReceiving => m.to = "us" /\ m.sid = peer.sid /\ m.chunk <= peer.block
        /\ m.kind = "ACK" =>
             /\ m.sid \in Sessions
             /\ PeerReceiving => m.to = "us" /\ m.n < peer.block /\ (m.n # 0 => m.sid = peer.sid)
             /\ ~PeerReceiving => m.to = "peer" /\ m.n < us[m.sid].block

\* The sender is never ahead of the receiver, and only the sockets of the
\* peer's choice are past the first block.
Lockstep ==
    /\ PeerReceiving =>
         \A s \in Sessions : /\ us[s].block <= peer.block
                             /\ us[s].block # 1 => s = peer.sid
                             /\ us[s].st = "ok" => peer.st = "ok"
    /\ ~PeerReceiving =>
         /\ peer.sid # 0 => peer.block <= us[peer.sid].block
         /\ \A s \in Sessions : us[s].block # 1 => s = peer.sid
         /\ peer.st = "ok" => us[peer.sid].block = size + 1

Saved == stored = IF role = "wrq" /\ \E s \in Sessions : us[s].st = "ok" THEN <<File>> ELSE <<>>

IInv == Typed /\ Held /\ Chose /\ Wire /\ Lockstep /\ Saved
-----------------------------------------------------------------------------
(* Blocks, prefixes of the file, and datagrams sent *)

\* Block numbers do not wrap.
LEMMA NoWrap ==
    ASSUME Typed, NEW i \in 0..size
    PROVE  BlockNo(i) = i /\ i \in 0..Mod - 1
<1>1. Mod \in Nat /\ i \in Nat /\ i < Mod /\ size \in Nat
  BY TftpAssumption DEF Typed
<1>2. i % Mod = i
  BY <1>1
<1>3. QED
  BY <1>1, <1>2 DEF BlockNo

\* A prefix of the file is a sequence of its length.
LEMMA PrefixIsSeq ==
    ASSUME NEW n \in Nat
    PROVE  Prefix(n) \in Seq(1..n) /\ Prefix(n) \in Seq(Nat) /\ Len(Prefix(n)) = n
BY DEF Prefix

\* One prefix comes of the one before by the next block.
LEMMA PrefixGrows ==
    ASSUME NEW n \in Nat
    PROVE  Append(Prefix(n), n + 1) = Prefix(n + 1)
<1>1. Prefix(n) \in Seq(Nat) /\ Len(Prefix(n)) = n
  BY PrefixIsSeq
<1>2. QED
  BY <1>1 DEF Prefix

\* The first prefix is empty and the last is the file.
LEMMA PrefixEnds ==
    Prefix(0) = <<>> /\ File = Prefix(size)
BY DEF Prefix, File

\* What a delivery leaves under way.
LEMMA Exchanged ==
    ASSUME Typed, NEW m, NEW out, Exchange(m, out)
    PROVE  m \in net /\ net' \subseteq net \cup out /\ faults' \in 0..MaxFaults
BY TftpAssumption DEF Typed, Exchange

\* What a deadline leaves under way.
LEMMA Closed ==
    ASSUME Typed, NEW out, WindowCloses(out)
    PROVE  net' \subseteq net \cup out /\ faults' \in 0..MaxFaults
BY TftpAssumption DEF Typed, WindowCloses

-----------------------------------------------------------------------------
(* What may be done on either side.  Both sides are described by where the *)
(* step leads and what it sends; that it keeps the invariant is proved     *)
(* once for each side.                                                     *)

SessionType == [st : SessionStates, block : Nat, got : Seq(Nat), tries : 0..Retries]

\* A block that is sent to the peer, or to us, by a sender at block n.
Blocks(to, s, n) == {m \in Datagrams : m.kind = "DATA" /\ m.to = to /\ m.sid = s
                                       /\ m.n = m.chunk /\ m.chunk \in 1..n}

\* Acknowledgements of a receiver that expects block n.
Acks(to, s, n) == {m \in Datagrams : m.kind = "ACK" /\ m.to = to /\ m.sid = s /\ m.n < n}

Errors == {m \in Datagrams : m.kind = "ERROR"}

\* Session s of ours may go to u and send out.
MayEnter(s, u, out) ==
    /\ u \in SessionType
    /\ u.st \in {"none", "asked", "wait", "bye"} => u.tries < Retries
    /\ role = "wrq" => u.st # "ok"
    /\ Serving \/ s = 1
    /\ us[s].block <= u.block /\ (u.block # 1 => s = peer.sid)
    /\ u.block # us[s].block => u.block = us[s].block + 1 /\ u.st \in {"wait", "put", "ok"}
    /\ PeerReceiving =>
         /\ u.block \in 1..size /\ u.got = <<>> /\ u.block <= peer.block
         /\ u.st \notin {"put", "unsaved"}
         /\ u.st = "ok" => peer.st = "ok"
         /\ out \subseteq Blocks("peer", s, u.block) \cup Errors
    /\ ~PeerReceiving =>
         /\ u.block \in 1..size + 1 /\ u.got = Prefix(u.block - 1)
         /\ u.st \in {"put", "ok", "unsaved"} <=> u.block = size + 1
         /\ u.st \in {"put", "unsaved"} => role = "wrq"
         /\ out \subseteq Acks("peer", s, u.block)

PeerType == [st : PeerStates, block : Nat, got : Seq(Nat), tries : Nat, sid : 0..MaxSessions]

\* The peer may send out where it expects, or is at, block n of socket s.
PeerMaySend(n, s, out) ==
    \A m \in out :
      \/ m \in Errors
      \/ Serving /\ m = Request("us")
      \/ PeerReceiving /\ m.sid \in Sessions /\ m \in Acks("us", m.sid, n) /\ (m.n # 0 => m.sid = s)
      \/ ~PeerReceiving /\ s # 0 /\ m \in Blocks("us", s, n)

\* The peer may go to p and send out.
PeerMayEnter(p, out) ==
    /\ p \in PeerType
    /\ peer.sid # 0 => p.sid = peer.sid
    /\ ~Serving => p.sid \in {0, 1}
    /\ p.st \in {"wait", "ok", "aborted"} => p.sid # 0
    /\ p.st \in {"asking", "idle"} => p.sid = 0
    /\ p.sid = 0 => p.block = 1
    /\ p.st = "asking" => Serving
    /\ peer.block <= p.block
    /\ p.block # peer.block => p.block = peer.block + 1 /\ p.st \in {"wait", "ok"}
    /\ p.st = peer.st \/ peer.st \in {"idle", "asking", "wait"}
    /\ PeerReceiving =>
         /\ p.block \in 1..size + 1 /\ p.got = Prefix(p.block - 1)
         /\ p.st = "ok" <=> p.block = size + 1
    /\ ~PeerReceiving =>
         /\ p.block \in 1..size /\ p.got = <<>>
         /\ p.sid # 0 => p.block <= us[p.sid].block
         /\ p.st = "ok" => us[p.sid].block = size + 1
         /\ p.sid # peer.sid => p.st = "wait"
    /\ PeerMaySend(p.block, p.sid, out)

\* A step of session s that it may take keeps the invariant.
LEMMA SessionKeeps ==
    ASSUME IInv, NEW s \in Sessions, NEW u, NEW out, MayEnter(s, u, out),
           us' = [us EXCEPT ![s] = u], peer' = peer, stored' = stored, Unaffected,
           net' \subseteq net \cup out, faults' \in 0..MaxFaults,
           us[s].st \in {"none", "asked", "wait", "bye"}
    PROVE  IInv'
<1>0. Typed /\ Held /\ Chose /\ Wire /\ Lockstep /\ Saved
  BY DEF IInv
<1>1. /\ us'[s] = u /\ \A t \in Sessions : t # s => us'[t] = us[t]
      /\ us' \in [Sessions -> SessionType]
  BY <1>0 DEF Typed, SessionType, MayEnter
<1>2. role' = role /\ size' = size /\ exists' = exists
      /\ (Serving' <=> Serving) /\ (PeerReceiving' <=> PeerReceiving) /\ File' = File
  BY DEF Unaffected, Serving, PeerReceiving, File
<1>3. out \subseteq Datagrams
  BY DEF MayEnter, Blocks, Acks, Errors
<1>4. Typed'
  BY <1>0, <1>1, <1>2, <1>3 DEF Typed, SessionType, MayEnter, Reading, Datagrams
<1>5. Held'
  BY <1>0, <1>1, <1>2 DEF Held, MayEnter
<1>6. Chose'
  BY <1>0, <1>1, <1>2 DEF Chose, MayEnter
<1>7. Wire'
  <2>1. \A t \in Sessions : us[t].block \in Nat /\ us'[t].block \in Nat /\ us[t].block <= us'[t].block
    BY <1>0, <1>1 DEF Typed, MayEnter
  <2>2. ASSUME NEW m \in net'
        PROVE  /\ m.kind = "REQ" => m = Request(IF Serving THEN "us" ELSE "peer")
               /\ m.kind = "DATA" =>
                    /\ m.sid \in Sessions /\ m.chunk \in 1..size /\ m.n = m.chunk
                    /\ PeerReceiving => m.to = "peer" /\ m.chunk <= us'[m.sid].block
                    /\ ~PeerReceiving => m.to = "us" /\ m.sid = peer.sid /\ m.chunk <= peer.block
               /\ m.kind = "ACK" =>
                    /\ m.sid \in Sessions
                    /\ PeerReceiving => m.to = "us" /\ m.n < peer.block /\ (m.n # 0 => m.sid = peer.sid)
                    /\ ~PeerReceiving => m.to = "peer" /\ m.n < us'[m.sid].block
    <3>1. CASE m \in net
      <4>1. m.chunk \in Nat /\ m.n \in Nat
        BY <1>0, <3>1 DEF Typed, Datagrams
      <4>2. QED
        BY <1>0, <2>1, <3>1, <4>1 DEF Wire
    <3>2. CASE m \in out
      <4>1. us'[s] = u /\ size \in Nat
        BY <1>0, <1>1 DEF Typed
      <4>2. CASE PeerReceiving
        <5>1. m \in Blocks("peer", s, us'[s].block) \cup Errors
              /\ us'[s].block \in 1..size
          BY <3>2, <4>1, <4>2 DEF MayEnter
        <5>2. QED
          BY <4>1, <4>2, <5>1 DEF Blocks, Errors
      <4>3. CASE ~PeerReceiving
        BY <1>0, <1>1, <3>2, <4>1, <4>3 DEF MayEnter, Acks, Errors
      <4>4. QED
        BY <4>2, <4>3
    <3>3. QED
      BY <3>1, <3>2
  <2>3. QED
    BY <1>2, <2>2 DEF Wire
<1>8. Lockstep'
  <2>1. CASE PeerReceiving
    BY <1>0, <1>1, <1>2, <2>1 DEF Lockstep, MayEnter
  <2>2. CASE ~PeerReceiving
    <3>1. peer.sid # 0 => peer.sid \in Sessions
      BY <1>0 DEF Typed, Sessions
    <3>2. ASSUME peer.sid # 0
          PROVE  /\ us[peer.sid].block \in Nat /\ us'[peer.sid].block \in 1..size + 1
                 /\ us[peer.sid].block <= us'[peer.sid].block
      BY <1>0, <1>1, <2>2, <3>1, <3>2 DEF Held, MayEnter
    <3>3. peer.sid # 0 => peer.block <= us'[peer.sid].block
      BY <1>0, <2>2, <3>2 DEF Typed, Lockstep
    <3>4. peer.st = "ok" => us'[peer.sid].block = size + 1
      BY <1>0, <2>2, <3>2 DEF Lockstep, Chose
    <3>5. \A t \in Sessions : us'[t].block # 1 => t = peer.sid
      BY <1>0, <1>1, <2>2 DEF Lockstep, MayEnter
    <3>6. QED
      BY <1>2, <2>2, <3>3, <3>4, <3>5 DEF Lockstep
  <2>3. QED
    BY <2>1, <2>2
<1>9. Saved'
  BY <1>0, <1>1, <1>2 DEF Saved, MayEnter
<1>10. QED
  BY <1>4, <1>5, <1>6, <1>7, <1>8, <1>9 DEF IInv

\* A step of the peer that it may take keeps the invariant.
LEMMA PeerKeeps ==
    ASSUME IInv, NEW p, NEW out, PeerMayEnter(p, out),
           peer' = p, us' = us, stored' = stored, Unaffected,
           net' \subseteq net \cup out, faults' \in 0..MaxFaults
    PROVE  IInv'
<1>0. Typed /\ Held /\ Chose /\ Wire /\ Lockstep /\ Saved
  BY DEF IInv
<1>2. role' = role /\ size' = size /\ exists' = exists
      /\ (Serving' <=> Serving) /\ (PeerReceiving' <=> PeerReceiving) /\ File' = File
  BY DEF Unaffected, Serving, PeerReceiving, File
<1>3. out \subseteq Datagrams
  <2>1. Request("us") \in Datagrams
    BY <1>0, TftpAssumption DEF Typed, Request, Datagram, Datagrams
  <2>2. QED
    BY <2>1 DEF PeerMayEnter, PeerMaySend, Blocks, Acks, Errors
<1>4. Typed'
  BY <1>0, <1>2, <1>3 DEF Typed, PeerType, PeerMayEnter, Datagrams
<1>5. Held'
  BY <1>0, <1>2 DEF Held, PeerMayEnter
<1>6. Chose'
  BY <1>0, <1>2 DEF Chose, PeerMayEnter
<1>7. Wire'
  <2>1. peer.block \in Nat /\ p.block \in Nat /\ peer.block <= p.block
    BY <1>0 DEF Typed, PeerMayEnter
  <2>2. ASSUME NEW m \in net'
        PROVE  /\ m.kind = "REQ" => m = Request(IF Serving THEN "us" ELSE "peer")
               /\ m.kind = "DATA" =>
                    /\ m.sid \in Sessions /\ m.chunk \in 1..size /\ m.n = m.chunk
                    /\ PeerReceiving => m.to = "peer" /\ m.chunk <= us[m.sid].block
                    /\ ~PeerReceiving => m.to = "us" /\ m.sid = p.sid /\ m.chunk <= p.block
               /\ m.kind = "ACK" =>
                    /\ m.sid \in Sessions
                    /\ PeerReceiving => m.to = "us" /\ m.n < p.block /\ (m.n # 0 => m.sid = p.sid)
                    /\ ~PeerReceiving => m.to = "peer" /\ m.n < us[m.sid].block
    <3>1. CASE m \in net
      <4>1. m.chunk \in Nat /\ m.n \in Nat
        BY <1>0, <3>1 DEF Typed, Datagrams
      <4>2. m.sid \in Sessions => m.sid # 0
        BY DEF Sessions
      <4>3. QED
        BY <1>0, <2>1, <3>1, <4>1, <4>2 DEF Wire, PeerMayEnter
    <3>2. CASE m \in out
      <4>1. CASE PeerReceiving
        <5>1. \/ m.sid \in Sessions /\ m \in Acks("us", m.sid, p.block) /\ (m.n # 0 => m.sid = p.sid)
              \/ m \in Errors
              \/ Serving /\ m = Request("us")
          BY <3>2, <4>1 DEF PeerMayEnter, PeerMaySend
        <5>2. Request("us").kind = "REQ"
          BY DEF Request, Datagram
        <5>3. QED
          BY <4>1, <5>1, <5>2 DEF Acks, Errors
      <4>2. CASE ~PeerReceiving
        <5>1. \/ p.sid # 0 /\ m \in Blocks("us", p.sid, p.block)
              \/ m \in Errors
              \/ Serving /\ m = Request("us")
          BY <3>2, <4>2 DEF PeerMayEnter, PeerMaySend
        <5>2. Request("us").kind = "REQ"
          BY DEF Request, Datagram
        <5>3. p.sid # 0 => p.sid \in Sessions
          BY DEF PeerMayEnter, PeerType, Sessions
        <5>4. p.block \in 1..size /\ size \in Nat
          BY <1>0, <4>2 DEF PeerMayEnter, Typed
        <5>5. QED
          BY <4>2, <5>1, <5>2, <5>3, <5>4 DEF Blocks, Errors
      <4>3. QED
        BY <4>1, <4>2
    <3>3. QED
      BY <3>1, <3>2
  <2>3. QED
    BY <1>2, <2>2 DEF Wire
<1>8. Lockstep'
  <2>1. CASE PeerReceiving
    <3>1. peer.block \in Nat /\ p.block \in Nat /\ peer.block <= p.block /\ size \in Nat
      BY <1>0 DEF Typed, PeerMayEnter
    <3>2. peer.st = "ok" => p.st = "ok"
      BY <2>1, <3>1 DEF PeerMayEnter
    <3>3. \A s \in Sessions : s # 0 /\ us[s].block \in Nat
      <4>1. us \in [Sessions -> SessionType]
        BY <1>0 DEF Typed, SessionType
      <4>2. \A s \in Sessions : s # 0
        BY DEF Sessions
      <4>3. QED
        BY <4>1, <4>2 DEF SessionType
    <3>4. peer.sid # 0 => p.sid = peer.sid
      BY DEF PeerMayEnter
    <3>5. \A s \in Sessions : /\ us[s].block <= p.block
                              /\ us[s].block # 1 => s = p.sid
                              /\ us[s].st = "ok" => p.st = "ok"
      BY <1>0, <2>1, <3>1, <3>2, <3>3, <3>4 DEF Lockstep
    <3>6. QED
      BY <1>0, <1>2, <2>1, <3>5 DEF Lockstep
  <2>2. CASE ~PeerReceiving
    <3>1. \A s \in Sessions : s # 0
      BY DEF Sessions
    <3>2. QED
      BY <1>0, <1>2, <2>2, <3>1 DEF Lockstep, PeerMayEnter
  <2>3. QED
    BY <2>1, <2>2
<1>9. Saved'
  BY <1>0, <1>2 DEF Saved
<1>10. QED
  BY <1>4, <1>5, <1>6, <1>7, <1>8, <1>9 DEF IInv

\* The network forgets.
LEMMA FewerKeeps ==
    ASSUME IInv, net' \subseteq net, faults' \in 0..MaxFaults,
           us' = us, peer' = peer, stored' = stored, Unaffected
    PROVE  IInv'
<1>0. Typed /\ Held /\ Chose /\ Wire /\ Lockstep /\ Saved
  BY DEF IInv
<1>1. role' = role /\ size' = size /\ exists' = exists
      /\ (Serving' <=> Serving) /\ (PeerReceiving' <=> PeerReceiving) /\ File' = File
  BY DEF Unaffected, Serving, PeerReceiving, File
<1>2. Typed'
  BY <1>0, <1>1 DEF Typed, Datagrams
<1>3. Held' /\ Chose' /\ Lockstep' /\ Saved'
  BY <1>0, <1>1 DEF Held, Chose, Lockstep, Saved
<1>4. Wire'
  BY <1>0, <1>1 DEF Wire
<1>5. QED
  BY <1>2, <1>3, <1>4 DEF IInv

-----------------------------------------------------------------------------
(* What a step on either side is to Transfer                               *)

\* A step of Transfer, or none.
Maps == [T!Next]_(T!tvars)

\* The receiver takes the next block of the file.
LEMMA Takes ==
    ASSUME Typed, NEW n \in 1..size, File' = File, Sender' = Sender,
           Have = Prefix(n - 1), Have' = Prefix(n), Receiver = "busy",
           Receiver' = IF n = size THEN "ok" ELSE "busy"
    PROVE  Maps
<1>1. size \in Nat /\ n \in Nat /\ n - 1 \in Nat /\ n - 1 + 1 = n
  BY DEF Typed
<1>2. Len(Have) = n - 1 /\ Len(File) = size /\ File[Len(Have) + 1] = n
  <2>1. Len(Have) = n - 1
    BY <1>1, PrefixIsSeq
  <2>2. File = Prefix(size) /\ Len(Prefix(size)) = size
    BY <1>1, PrefixIsSeq, PrefixEnds
  <2>3. File[n] = n
    BY DEF File
  <2>4. QED
    BY <1>1, <2>1, <2>2, <2>3
<1>3. Have' = Append(Have, File[Len(Have) + 1])
  BY <1>1, <1>2, PrefixGrows
<1>4. (Have' = File) <=> (n = size)
  BY <1>1, PrefixIsSeq, PrefixEnds
<1>5. T!Take
  BY <1>1, <1>2, <1>3, <1>4 DEF T!Take
<1>6. QED
  BY <1>5 DEF Maps, T!Next

\* Nothing happens.
LEMMA Stutters ==
    ASSUME File' = File, Have' = Have, Sender' = Sender, Receiver' = Receiver
    PROVE  Maps
BY DEF Maps, T!tvars

\* One side gives up, or the sender is told that all is well.
LEMMA Concludes ==
    ASSUME File' = File, Have' = Have,
           \/ Receiver' = Receiver /\ Sender = "busy" /\ Sender' = "failed"
           \/ Receiver' = Receiver /\ Sender = "busy" /\ Sender' = "ok" /\ Receiver = "ok"
           \/ Sender' = Sender /\ Receiver = "busy" /\ Receiver' = "failed"
    PROVE  Maps
BY DEF Maps, T!Next, T!Confirm, T!SenderGivesUp, T!ReceiverGivesUp

\* A step of session s of ours.
LEMMA SessionMaps ==
    ASSUME IInv, NEW s \in Sessions, NEW u, NEW out, MayEnter(s, u, out),
           us' = [us EXCEPT ![s] = u], peer' = peer, Unaffected,
           us[s].st \in {"none", "asked", "wait", "bye"}
    PROVE  Maps
<1>0. Typed /\ Held /\ Chose /\ Lockstep
  BY DEF IInv
<1>1. us'[s] = u /\ \A t \in Sessions : t # s => us'[t] = us[t]
  BY <1>0 DEF Typed
<1>2. role' = role /\ size' = size /\ (PeerReceiving' <=> PeerReceiving) /\ File' = File
      /\ 1 \in Sessions /\ size \in Nat
  BY <1>0, TftpAssumption DEF Unaffected, PeerReceiving, File, Sessions, Typed
<1>3. u.st \in SessionStates /\ us[s].block \in Nat /\ u.block \in Nat
  BY <1>0 DEF MayEnter, SessionType, Typed
<1>4. CASE role = "put"
  <2>1. s = 1 /\ u.st \notin {"put", "unsaved"} /\ (u.st = "ok" => peer.st = "ok")
    BY <1>4 DEF MayEnter, PeerReceiving, Serving
  <2>2. Have' = Have /\ Receiver' = Receiver /\ Receiver = AsVerdict(peer.st)
    BY <1>2, <1>4 DEF Have, Receiver, PeerReceiving
  <2>3. Sender = "busy" /\ Sender' = AsVerdict(u.st)
    BY <1>1, <1>2, <1>4, <2>1 DEF Sender, AsVerdict
  <2>4. QED
    BY <1>2, <2>1, <2>2, <2>3, Stutters, Concludes DEF AsVerdict
<1>5. CASE role = "rrq"
  <2>1. u.st = "ok" => peer.st = "ok"
    BY <1>5 DEF MayEnter, PeerReceiving
  <2>2. Have' = Have /\ Receiver' = Receiver /\ Receiver = AsVerdict(peer.st)
    BY <1>2, <1>5 DEF Have, Receiver, PeerReceiving
  <2>3. Sender = ServerSent /\ Sender' = ServerSent'
    BY <1>2, <1>5 DEF Sender
  <2>4. ServerSent' = IF u.st = "ok" THEN "ok" ELSE ServerSent
    BY <1>1 DEF ServerSent
  <2>5. QED
    BY <1>2, <2>1, <2>2, <2>3, <2>4, Stutters, Concludes DEF AsVerdict, ServerSent
<1>6. CASE role \in {"get", "wrq"}
  <2>1. ~PeerReceiving /\ role # "rrq" /\ role # "put"
    BY <1>6 DEF PeerReceiving
  <2>2. Sender' = Sender
    BY <1>2, <2>1 DEF Sender
  <2>3. CASE (role = "wrq" /\ peer.sid = 0) \/ s # (IF role = "wrq" THEN peer.sid ELSE 1)
    <3>1. Have' = Have /\ Receiver' = Receiver
      <4>1. CASE role = "wrq" /\ peer.sid = 0
        BY <1>2, <2>1, <4>1 DEF Have, Receiver
      <4>2. CASE ~(role = "wrq" /\ peer.sid = 0)
        <5>1. Chosen' = Chosen
          <6>1. peer.sid # 0 => peer.sid \in Sessions
            BY <1>0 DEF Typed, Sessions
          <6>2. QED
            BY <1>1, <1>2, <2>3, <4>2, <6>1 DEF Chosen
        <5>2. QED
          BY <1>2, <2>1, <4>2, <5>1 DEF Have, Receiver
      <4>3. QED
        BY <4>1, <4>2
    <3>2. QED
      BY <1>2, <2>2, <3>1, Stutters
  <2>4. CASE ~(role = "wrq" /\ peer.sid = 0) /\ s = (IF role = "wrq" THEN peer.sid ELSE 1)
    <3>1. Chosen = us[s] /\ Chosen' = u
      BY <1>1, <1>2, <2>4 DEF Chosen
    <3>2. /\ Have = us[s].got /\ Have' = u.got
          /\ Receiver = AsVerdict(us[s].st) /\ Receiver' = AsVerdict(u.st)
      BY <1>2, <2>1, <2>4, <3>1 DEF Have, Receiver
    <3>3. /\ us[s].got = Prefix(us[s].block - 1) /\ u.got = Prefix(u.block - 1)
          /\ u.st \in {"put", "ok", "unsaved"} <=> u.block = size + 1
          /\ us[s].block \in 1..size
          /\ u.block # us[s].block => u.block = us[s].block + 1 /\ u.st \in {"wait", "put", "ok"}
      <4>1. us[s].block \in 1..size + 1 /\ us[s].block # size + 1
        BY <1>0, <2>1 DEF Held
      <4>2. QED
        BY <1>0, <1>2, <2>1, <4>1 DEF Held, MayEnter
    <3>4. Receiver = "busy"
      BY <3>2 DEF AsVerdict
    <3>5. CASE u.block = us[s].block
      <4>1. Have' = Have
        BY <3>2, <3>3, <3>5
      <4>2. u.st \notin {"put", "ok", "unsaved"}
        BY <1>2, <3>3, <3>5
      <4>3. QED
        BY <1>2, <2>2, <3>2, <3>4, <4>1, <4>2, Stutters, Concludes DEF AsVerdict
    <3>6. CASE u.block # us[s].block
      <4>1. u.block - 1 = us[s].block /\ (u.block = size + 1 <=> us[s].block = size)
        BY <1>2, <1>3, <3>3, <3>6
      <4>2. Have = Prefix(us[s].block - 1) /\ Have' = Prefix(us[s].block)
        BY <3>2, <3>3, <4>1
      <4>3. Receiver' = IF us[s].block = size THEN "ok" ELSE "busy"
        BY <3>2, <3>3, <3>6, <4>1 DEF AsVerdict
      <4>4. QED
        BY <1>0, <1>2, <2>2, <3>3, <3>4, <4>2, <4>3, Takes
    <3>7. QED
      BY <3>5, <3>6
  <2>5. QED
    BY <2>3, <2>4
<1>7. QED
  BY <1>0, <1>4, <1>5, <1>6 DEF Typed, Roles

\* A step of the peer.
LEMMA PeerMaps ==
    ASSUME IInv, NEW p, NEW out, PeerMayEnter(p, out), peer' = p, us' = us, Unaffected
    PROVE  Maps
<1>0. Typed /\ Held /\ Chose /\ Lockstep
  BY DEF IInv
<1>1. role' = role /\ size' = size /\ (PeerReceiving' <=> PeerReceiving) /\ File' = File
      /\ 1 \in Sessions /\ size \in Nat
  BY <1>0, TftpAssumption DEF Unaffected, PeerReceiving, File, Sessions, Typed
<1>2. p.st \in PeerStates /\ peer.st \in PeerStates /\ peer.block \in Nat /\ p.block \in Nat
      /\ (p.st = peer.st \/ peer.st \in {"idle", "asking", "wait"})
  BY <1>0 DEF PeerMayEnter, PeerType, Typed
<1>3. CASE PeerReceiving
  <2>1. /\ Have = peer.got /\ Have' = p.got
        /\ Receiver = AsVerdict(peer.st) /\ Receiver' = AsVerdict(p.st) /\ Sender' = Sender
    BY <1>1, <1>3 DEF Have, Receiver, Sender, ServerSent, PeerReceiving
  <2>2. /\ peer.got = Prefix(peer.block - 1) /\ p.got = Prefix(p.block - 1)
        /\ p.st = "ok" <=> p.block = size + 1
        /\ peer.st = "ok" <=> peer.block = size + 1
        /\ peer.block \in 1..size + 1 /\ p.block \in 1..size + 1
        /\ p.block # peer.block => p.block = peer.block + 1 /\ p.st \in {"wait", "ok"}
    BY <1>0, <1>3 DEF Held, PeerMayEnter
  <2>3. CASE p.block = peer.block
    <3>1. Have' = Have /\ (p.st = "ok" <=> peer.st = "ok")
      BY <2>1, <2>2, <2>3
    <3>2. CASE p.st = peer.st
      BY <1>1, <2>1, <3>1, <3>2, Stutters
    <3>3. CASE p.st # peer.st
      <4>1. Receiver = "busy" /\ p.st # "ok"
        BY <1>2, <2>1, <3>1, <3>3 DEF AsVerdict
      <4>2. QED
        BY <1>1, <1>2, <2>1, <3>1, <4>1, Stutters, Concludes DEF AsVerdict, PeerStates
    <3>4. QED
      BY <3>2, <3>3
  <2>4. CASE p.block # peer.block
    <3>1. p.block - 1 = peer.block /\ (p.block = size + 1 <=> peer.block = size) /\ peer.block \in 1..size
      BY <1>1, <2>2, <2>4
    <3>2. peer.st # "ok" /\ p.st \in {"wait", "ok"}
      BY <1>1, <2>2, <2>4, <3>1
    <3>3. Receiver = "busy"
      BY <1>2, <2>1, <3>2 DEF AsVerdict
    <3>4. Have = Prefix(peer.block - 1) /\ Have' = Prefix(peer.block)
      BY <2>1, <2>2, <3>1
    <3>5. Receiver' = IF peer.block = size THEN "ok" ELSE "busy"
      BY <2>1, <2>2, <3>1, <3>2 DEF AsVerdict
    <3>6. QED
      BY <1>0, <1>1, <2>1, <3>1, <3>3, <3>4, <3>5, Takes
  <2>5. QED
    BY <2>3, <2>4
<1>4. CASE ~PeerReceiving
  <2>1. role # "put" /\ role # "rrq" /\ role \in {"get", "wrq"}
    BY <1>0, <1>4 DEF PeerReceiving, Typed, Roles
  <2>2. Sender = AsVerdict(peer.st) /\ Sender' = AsVerdict(p.st)
    BY <1>1, <2>1 DEF Sender
  <2>3. /\ peer.sid # 0 => p.sid = peer.sid
        /\ p.sid # peer.sid => p.st = "wait"
        /\ p.st = "ok" => p.sid # 0 /\ us[p.sid].block = size + 1
    BY <1>4 DEF PeerMayEnter
  <2>4. CASE role = "wrq" /\ peer.sid = 0 /\ p.sid # 0
    <3>1. p.sid \in Sessions
      BY <2>4 DEF PeerMayEnter, PeerType, Sessions
    <3>2. us[p.sid].block = 1 /\ us[p.sid].got = <<>> /\ us[p.sid].st \notin {"put", "ok", "unsaved"}
          /\ us[p.sid].st \in SessionStates
      <4>1. us[p.sid].block = 1
        BY <1>0, <1>4, <2>4, <3>1 DEF Lockstep
      <4>2. us[p.sid].got = Prefix(1 - 1) /\ 1 # size + 1
        BY <1>0, <1>4, <3>1, <4>1 DEF Held, Typed
      <4>3. QED
        BY <1>0, <1>4, <3>1, <4>1, <4>2, PrefixEnds DEF Held, Typed
    <3>3. Have = <<>> /\ Have' = us[p.sid].got /\ Receiver = "busy" /\ Receiver' = AsVerdict(us[p.sid].st)
      BY <1>1, <1>4, <2>4 DEF Have, Receiver, Chosen
    <3>4. Sender = "busy" /\ Sender' = "busy"
      BY <2>2, <2>3, <2>4 DEF AsVerdict, PeerMayEnter
    <3>5. QED
      BY <1>1, <3>2, <3>3, <3>4, Stutters, Concludes DEF AsVerdict
  <2>5. CASE ~(role = "wrq" /\ peer.sid = 0 /\ p.sid # 0)
    <3>1. Have' = Have /\ Receiver' = Receiver
      <4>1. CASE role = "wrq" /\ peer.sid = 0
        BY <1>1, <1>4, <2>5, <4>1 DEF Have, Receiver
      <4>2. CASE ~(role = "wrq" /\ peer.sid = 0)
        <5>1. Chosen' = Chosen /\ (role = "wrq" => p.sid # 0)
          BY <1>1, <2>1, <2>3, <4>2 DEF Chosen
        <5>2. QED
          BY <1>1, <1>4, <4>2, <5>1 DEF Have, Receiver
      <4>3. QED
        BY <4>1, <4>2
    <3>2. p.st = "ok" => Receiver = "ok"
      <4>1. SUFFICES ASSUME p.st = "ok"
                     PROVE  Receiver = "ok"
        OBVIOUS
      <4>2. p.sid \in Sessions /\ us[p.sid].block = size + 1 /\ p.sid = peer.sid
        BY <2>3, <4>1 DEF PeerMayEnter, PeerType, Sessions
      <4>3. us[p.sid].st \in {"put", "ok", "unsaved"} /\ p.sid # 0
        BY <1>0, <1>4, <4>2 DEF Held, Sessions
      <4>4. role = "get" => p.sid = 1
        BY <4>3 DEF PeerMayEnter, Serving
      <4>5. QED
        BY <1>4, <2>1, <4>2, <4>3, <4>4 DEF Receiver, Chosen, AsVerdict
    <3>3. CASE p.st = peer.st
      BY <1>1, <2>2, <3>1, <3>3, Stutters
    <3>4. CASE p.st # peer.st
      <4>1. Sender = "busy"
        BY <1>2, <2>2, <3>4 DEF AsVerdict
      <4>2. QED
        BY <1>1, <1>2, <2>2, <3>1, <3>2, <4>1, Stutters, Concludes DEF AsVerdict, PeerStates
    <3>5. QED
      BY <3>3, <3>4
  <2>6. QED
    BY <2>4, <2>5
<1>5. QED
  BY <1>3, <1>4

\* What the network does.
LEMMA NetworkMaps ==
    ASSUME us' = us, peer' = peer, Unaffected
    PROVE  Maps
<1>1. role' = role /\ size' = size /\ (PeerReceiving' <=> PeerReceiving) /\ File' = File
  BY DEF Unaffected, PeerReceiving, File
<1>2. Have' = Have /\ Sender' = Sender /\ Receiver' = Receiver
  BY <1>1 DEF Have, Sender, Receiver, Chosen, ServerSent
<1>3. QED
  BY <1>1, <1>2, Stutters

\* The two sides and the network: each step keeps the invariant and is a
\* step of Transfer, or none.
LEMMA SessionStep ==
    ASSUME IInv, NEW s \in Sessions, NEW u, NEW out, MayEnter(s, u, out),
           us' = [us EXCEPT ![s] = u], peer' = peer, stored' = stored, Unaffected,
           net' \subseteq net \cup out, faults' \in 0..MaxFaults,
           us[s].st \in {"none", "asked", "wait", "bye"}
    PROVE  IInv' /\ Maps
BY SessionKeeps, SessionMaps

LEMMA PeerStepKeeps ==
    ASSUME IInv, NEW p, NEW out, PeerMayEnter(p, out),
           peer' = p, us' = us, stored' = stored, Unaffected,
           net' \subseteq net \cup out, faults' \in 0..MaxFaults
    PROVE  IInv' /\ Maps
BY PeerKeeps, PeerMaps

LEMMA FewerDatagrams ==
    ASSUME IInv, net' \subseteq net, faults' \in 0..MaxFaults,
           us' = us, peer' = peer, stored' = stored, Unaffected
    PROVE  IInv' /\ Maps
BY FewerKeeps, NetworkMaps

-----------------------------------------------------------------------------
(* Our side *)

\* What is known of a session that reads.
LEMMA ReadingSession ==
    ASSUME IInv, NEW s \in Sessions, Reading(s)
    PROVE  /\ Typed /\ size \in Nat /\ Len(us[s].got) \in Nat
           /\ us[s] \in SessionType /\ us[s].st \in {"asked", "wait", "bye"}
           /\ us[s].tries < Retries /\ us[s].block \in 1..size
           /\ Serving \/ s = 1
           /\ us[s].block # 1 => s = peer.sid
           /\ PeerReceiving => us[s].got = <<>> /\ us[s].block <= peer.block
           /\ ~PeerReceiving => us[s].got = Prefix(us[s].block - 1)
<1>1. Typed /\ Held /\ Chose /\ Lockstep
  BY DEF IInv
<1>2. us[s] \in SessionType /\ us[s].tries < Retries /\ us[s].st \in {"asked", "wait", "bye"} /\ size \in Nat
  BY <1>1 DEF Typed, SessionType, Reading
<1>3. us[s].block \in 1..size
  BY <1>1, <1>2 DEF Held
<1>4. QED
  BY <1>1, <1>2, <1>3 DEF Held, Chose, Lockstep

\* A session may fail.
LEMMA MayFail ==
    ASSUME IInv, NEW s \in Sessions, Reading(s)
    PROVE  MayEnter(s, [us[s] EXCEPT !.st = "failed"], {})
BY ReadingSession DEF MayEnter, SessionType, SessionStates

\* A sender may send the block it is at.
LEMMA BlockSent ==
    ASSUME Typed, NEW s \in Sessions, NEW i \in 1..size
    PROVE  Data("peer", s, i) \in Blocks("peer", s, i) /\ Data("us", s, i) \in Blocks("us", s, i)
<1>1. BlockNo(i) = i /\ i \in 0..Mod - 1 /\ size \in Nat
  BY NoWrap DEF Typed
<1>2. QED
  BY <1>1 DEF Data, Datagram, Blocks, Datagrams, Sessions

\* A receiver may acknowledge a block it has.
LEMMA AckSent ==
    ASSUME Typed, NEW s \in Sessions, NEW i \in 0..size, NEW n \in Nat, i < n
    PROVE  /\ Ack("peer", s, i) \in Acks("peer", s, n) /\ Ack("us", s, i) \in Acks("us", s, n)
           /\ Ack("us", s, i).n = i /\ Ack("us", s, i).sid = s
<1>1. i \in 0..Mod - 1
  BY NoWrap
<1>2. size \in Nat
  BY DEF Typed
<1>3. QED
  BY <1>1, <1>2 DEF Ack, Datagram, Acks, Datagrams, Sessions

\* Retry: the block again, or the end.
LEMMA MayRetry ==
    ASSUME IInv, NEW s \in Sessions, Reading(s), PeerReceiving
    PROVE  MayEnter(s, Retry(s, us[s]).next, Retry(s, us[s]).out)
<1>1. CASE us[s].tries + 1 < Retries
  <2>1. Data("peer", s, us[s].block) \in Blocks("peer", s, us[s].block)
    BY ReadingSession, BlockSent
  <2>2. Retry(s, us[s]) = [next |-> [us[s] EXCEPT !.tries = @ + 1], out |-> {Data("peer", s, us[s].block)}]
    BY <1>1 DEF Retry, Then
  <2>3. [us[s] EXCEPT !.tries = @ + 1] \in SessionType
    BY <1>1, ReadingSession, TftpAssumption DEF SessionType
  <2>4. QED
    BY <1>1, <2>1, <2>2, <2>3, ReadingSession DEF MayEnter, SessionType
<1>2. CASE ~(us[s].tries + 1 < Retries)
  BY <1>2, MayFail DEF Retry, Stop, Then
<1>3. QED
  BY <1>1, <1>2

\* Advance: what is acknowledged the receiver has, so that the next block may
\* follow, and the end is no surprise to it.
LEMMA MayAdvance ==
    ASSUME IInv, NEW s \in Sessions, Reading(s), PeerReceiving,
           NEW m \in net, m.sid = s, Accepted(us[s], m)
    PROVE  MayEnter(s, Advance(s, us[s]).next, Advance(s, us[s]).out)
<1>1. m.kind = "ACK" /\ m.n = us[s].block
  BY ReadingSession, NoWrap DEF Accepted
<1>2. us[s].block < peer.block /\ s = peer.sid
  BY <1>1, ReadingSession DEF IInv, Wire
<1>3. peer.block \in 1..size + 1 /\ (peer.block = size + 1 => peer.st = "ok")
  BY DEF IInv, Held
<1>4. CASE us[s].block = size
  <2>1. peer.st = "ok" /\ role # "wrq"
    BY <1>2, <1>3, <1>4, ReadingSession DEF PeerReceiving
  <2>2. Advance(s, us[s]) = [next |-> [us[s] EXCEPT !.st = "ok"], out |-> {}]
    BY <1>4 DEF Advance, Stop, Then
  <2>3. [us[s] EXCEPT !.st = "ok"] \in SessionType
    BY ReadingSession DEF SessionType, SessionStates
  <2>4. us[s] \in SessionType /\ us[s].block \in Nat
    BY ReadingSession DEF SessionType
  <2>5. /\ [us[s] EXCEPT !.st = "ok"].st = "ok" /\ [us[s] EXCEPT !.st = "ok"].got = us[s].got
        /\ [us[s] EXCEPT !.st = "ok"].block = us[s].block
    BY <2>4 DEF SessionType
  <2>6. us[s].got = <<>> /\ us[s].block \in 1..size /\ us[s].block <= peer.block
        /\ (Serving \/ s = 1)
    BY ReadingSession
  <2>7. MayEnter(s, [us[s] EXCEPT !.st = "ok"], {})
    BY <1>2, <2>1, <2>3, <2>4, <2>5, <2>6 DEF MayEnter
  <2>8. QED
    BY <2>2, <2>7
<1>5. CASE us[s].block # size
  <2>1. us[s].block + 1 \in 1..size /\ us[s].block + 1 <= peer.block
    BY <1>2, <1>3, <1>5, ReadingSession
  <2>2. Data("peer", s, us[s].block + 1) \in Blocks("peer", s, us[s].block + 1)
    BY <2>1, ReadingSession, BlockSent
  <2>3. Advance(s, us[s]) = [next |-> At("wait", us[s].block + 1, <<>>, 0),
                             out |-> {Data("peer", s, us[s].block + 1)}]
    BY <1>5 DEF Advance, Then
  <2>4. At("wait", us[s].block + 1, <<>>, 0) \in SessionType
    BY <2>1, TftpAssumption DEF At, SessionType, SessionStates
  <2>5. QED
    BY <1>2, <2>1, <2>2, <2>3, <2>4, ReadingSession, TftpAssumption DEF MayEnter, At
<1>6. QED
  BY <1>4, <1>5

\* Keep: the block that is expected is the next of the file.
LEMMA MayKeep ==
    ASSUME IInv, NEW s \in Sessions, Reading(s), ~PeerReceiving,
           NEW m \in net, m.sid = s, m.kind = "DATA", m.n = BlockNo(us[s].block),
           NEW st \in {"put", "ok"}, st = IF role = "wrq" THEN "put" ELSE "ok"
    PROVE  MayEnter(s, Keep(us[s], m, st), {Ack("peer", s, m.n)})
<1>1. m.chunk = us[s].block /\ m.n = us[s].block /\ s = peer.sid
  BY ReadingSession, NoWrap DEF IInv, Wire
<1>2. Ack("peer", s, m.n) \in Acks("peer", s, us[s].block + 1)
  BY <1>1, ReadingSession, AckSent
<1>3. Append(us[s].got, m.chunk) = Prefix(us[s].block) /\ Prefix(us[s].block) \in Seq(Nat)
  <2>1. us[s].block - 1 \in Nat
    BY ReadingSession
  <2>2. Append(Prefix(us[s].block - 1), us[s].block) = Prefix(us[s].block)
    <3>1. Append(Prefix(us[s].block - 1), us[s].block - 1 + 1) = Prefix(us[s].block - 1 + 1)
      BY <2>1, PrefixGrows
    <3>2. us[s].block - 1 + 1 = us[s].block
      BY ReadingSession
    <3>3. QED
      BY <3>1, <3>2
  <2>3. Prefix(us[s].block) \in Seq(Nat)
    BY ReadingSession, PrefixIsSeq
  <2>4. QED
    BY <1>1, <2>2, <2>3, ReadingSession
<1>4. Keep(us[s], m, st) = [st |-> IF us[s].block = size THEN st ELSE "wait", block |-> us[s].block + 1,
                            got |-> Prefix(us[s].block), tries |-> 0]
  BY <1>1, <1>3 DEF Keep, At
<1>5. us[s].block + 1 \in 1..size + 1 /\ us[s].block + 1 - 1 = us[s].block /\ us[s].block <= us[s].block + 1
      /\ (us[s].block + 1 = size + 1 <=> us[s].block = size) /\ 0 \in 0..Retries /\ 0 < Retries
  BY ReadingSession, TftpAssumption
<1>6. Keep(us[s], m, st) \in SessionType
  BY <1>3, <1>4, <1>5 DEF SessionType, SessionStates
<1>7. ASSUME NEW u, u = Keep(us[s], m, st)
      PROVE  MayEnter(s, u, {Ack("peer", s, m.n)})
  <2>1. /\ u.st = IF us[s].block = size THEN st ELSE "wait"
        /\ u.block = us[s].block + 1 /\ u.got = Prefix(us[s].block) /\ u.tries = 0
    BY <1>4, <1>7
  <2>2. u.got = Prefix(u.block - 1) /\ u.block \in 1..size + 1 /\ us[s].block <= u.block
    <3>1. u.block - 1 = us[s].block
      <4>1. u.block = us[s].block + 1 /\ us[s].block \in Nat
        BY <2>1, ReadingSession
      <4>2. QED
        BY <4>1
    <3>2. QED
      BY <1>5, <2>1, <3>1
  <2>3. u.st \in {"put", "ok", "unsaved"} <=> u.block = size + 1
    BY <1>5, <2>1
  <2>4. (Serving \/ s = 1) /\ u.tries < Retries /\ u \in SessionType
    BY <1>5, <1>6, <1>7, <2>1, ReadingSession
  <2>5. {Ack("peer", s, m.n)} \subseteq Acks("peer", s, u.block)
    BY <1>2, <2>1
  <2>6. (role = "wrq" => u.st # "ok") /\ (u.st = "put" => role = "wrq")
    BY <2>1
  <2>7. u.block = us[s].block + 1 /\ u.st \in {"wait", "put", "ok"}
    BY <2>1
  <2>8. QED
    BY <1>1, <2>2, <2>3, <2>4, <2>5, <2>6, <2>7 DEF MayEnter
<1>8. QED
  BY <1>7

\* A receiver may repeat its last acknowledgement.
LEMMA MayRepeat ==
    ASSUME IInv, NEW s \in Sessions, Reading(s), ~PeerReceiving,
           NEW n \in 0..Retries, NEW st \in {us[s].st, "wait", "failed"}, n < Retries \/ st = "failed"
    PROVE  MayEnter(s, [us[s] EXCEPT !.tries = n, !.st = st], {Ack("peer", s, BlockNo(us[s].block - 1))})
<1>1. us[s].block - 1 \in 0..size /\ us[s].block \in Nat
  BY ReadingSession
<1>2. BlockNo(us[s].block - 1) = us[s].block - 1
  BY <1>1, ReadingSession, NoWrap
<1>3. Ack("peer", s, us[s].block - 1) \in Acks("peer", s, us[s].block)
  BY <1>1, ReadingSession, AckSent
<1>4. [us[s] EXCEPT !.tries = n, !.st = st] \in SessionType
  BY ReadingSession DEF SessionType, SessionStates
<1>5. ASSUME NEW u, u = [us[s] EXCEPT !.tries = n, !.st = st]
      PROVE  MayEnter(s, u, {Ack("peer", s, BlockNo(us[s].block - 1))})
  <2>1. /\ u.st = st /\ u.tries = n /\ u.block = us[s].block /\ u.got = us[s].got
        /\ u.st \in {"asked", "wait", "bye", "failed"} /\ u \in SessionType
    BY <1>4, <1>5, ReadingSession
  <2>2. us[s].block \in 1..size /\ size \in Nat /\ us[s].block <= us[s].block
    BY <1>1, ReadingSession
  <2>3. u.st \in {"none", "asked", "wait", "bye"} => u.tries < Retries
    BY <2>1
  <2>4. QED
    BY <1>2, <1>3, <2>1, <2>2, <2>3, ReadingSession DEF MayEnter
<1>6. QED
  BY <1>5

\* TFTPGet.
LEMMA GetReceivesKeeps ==
    ASSUME IInv, NEW s \in Sessions, NEW m \in net, GetReceives(s, m)
    PROVE  IInv' /\ Maps
<1>1. Reading(s) /\ role = "get" /\ ~PeerReceiving /\ m.sid = s
  BY DEF GetReceives, Mine, PeerReceiving
<1>2. MayEnter(s, GetOn(us[s], m).next, GetOn(us[s], m).out)
  <2>1. CASE m.kind # "DATA"
    BY <1>1, <2>1, MayFail DEF GetOn, Stop, Then
  <2>2. CASE m.kind = "DATA" /\ m.n = BlockNo(us[s].block)
    <3>1. MayEnter(s, Keep(us[s], m, "ok"), {Ack("peer", s, m.n)})
      BY <1>1, <2>2, MayKeep
    <3>2. QED
      BY <1>1, <2>2, <3>1 DEF GetOn, Then
  <2>3. CASE m.kind = "DATA" /\ m.n # BlockNo(us[s].block)
    <3>1. m.n \in 0..size /\ m.n <= us[s].block /\ m.n # us[s].block
      <4>1. m.n = m.chunk /\ m.chunk \in 1..size /\ s = peer.sid /\ m.chunk <= peer.block
        BY <1>1, <2>3 DEF IInv, Wire
      <4>2. peer.block <= us[s].block
        BY <1>1, <4>1 DEF IInv, Lockstep, Sessions
      <4>3. peer.block \in Nat
        BY DEF IInv, Typed
      <4>4. BlockNo(us[s].block) = us[s].block
        BY <1>1, ReadingSession, NoWrap
      <4>5. QED
        BY <1>1, <2>3, <4>1, <4>2, <4>3, <4>4, ReadingSession
    <3>2. Ack("peer", s, m.n) \in Acks("peer", s, us[s].block)
      BY <1>1, <3>1, ReadingSession, AckSent
    <3>3. GetOn(us[s], m) = [next |-> us[s], out |-> {Ack("peer", s, m.n)}]
      BY <1>1, <2>3 DEF GetOn, Then
    <3>4. QED
      BY <1>1, <3>2, <3>3, ReadingSession DEF MayEnter
  <2>4. QED
    BY <2>1, <2>2, <2>3
<1>3. QED
  BY <1>1, <1>2, ReadingSession, Exchanged, SessionStep DEF GetReceives, Enter

\* TFTPPut.
LEMMA PutReceivesKeeps ==
    ASSUME IInv, NEW s \in Sessions, NEW m \in net, PutReceives(s, m)
    PROVE  IInv' /\ Maps
<1>1. Reading(s) /\ PeerReceiving /\ m.sid = s /\ role = "put"
  BY DEF PutReceives, Mine, PeerReceiving
<1>2. MayEnter(s, PutOn(s, us[s], m).next, PutOn(s, us[s], m).out)
  <2>1. CASE m.kind = "ERROR" \/ (us[s].st = "asked" /\ ~(m.kind = "ACK" /\ m.n = 0))
    BY <1>1, <2>1, MayFail DEF PutOn, Stop, Then
  <2>2. CASE us[s].st = "asked" /\ m.kind = "ACK" /\ m.n = 0
    <3>1. Data("peer", s, 1) \in Blocks("peer", s, us[s].block)
      <4>1. 1 \in 1..size /\ 1 <= us[s].block /\ us[s].block \in Nat
        BY <1>1, ReadingSession
      <4>2. QED
        BY <1>1, <4>1, ReadingSession, BlockSent DEF Blocks
    <3>2. PutOn(s, us[s], m) = [next |-> [us[s] EXCEPT !.st = "wait"], out |-> {Data("peer", s, 1)}]
      BY <2>2 DEF PutOn, Then
    <3>3. [us[s] EXCEPT !.st = "wait"] \in SessionType
      BY <1>1, ReadingSession DEF SessionType, SessionStates
    <3>4. QED
      BY <1>1, <3>1, <3>2, <3>3, ReadingSession DEF MayEnter, SessionType
  <2>3. CASE m.kind # "ERROR" /\ us[s].st # "asked" /\ Accepted(us[s], m)
    BY <1>1, <2>3, MayAdvance DEF PutOn
  <2>4. CASE m.kind # "ERROR" /\ us[s].st # "asked" /\ ~Accepted(us[s], m)
    BY <1>1, <2>4, MayRetry DEF PutOn
  <2>5. QED
    BY <2>1, <2>2, <2>3, <2>4
<1>3. QED
  BY <1>1, <1>2, ReadingSession, Exchanged, SessionStep DEF PutReceives, Enter

\* kindRRQ.
LEMMA RrqReceivesKeeps ==
    ASSUME IInv, NEW s \in Sessions, NEW m \in net, RrqReceives(s, m)
    PROVE  IInv' /\ Maps
<1>1. Reading(s) /\ PeerReceiving /\ m.sid = s
  BY DEF RrqReceives, Mine, PeerReceiving
<1>2. MayEnter(s, RrqOn(s, us[s], m).next, RrqOn(s, us[s], m).out)
  <2>1. CASE us[s].st = "bye"
    BY <1>1, <2>1, MayFail DEF RrqOn, Stop, Then
  <2>2. CASE us[s].st # "bye" /\ Accepted(us[s], m)
    BY <1>1, <2>2, MayAdvance DEF RrqOn
  <2>3. CASE us[s].st # "bye" /\ ~Accepted(us[s], m)
    BY <1>1, <2>3, MayRetry DEF RrqOn
  <2>4. QED
    BY <2>1, <2>2, <2>3
<1>3. QED
  BY <1>1, <1>2, ReadingSession, Exchanged, SessionStep DEF RrqReceives, Enter

\* kindWRQ.
LEMMA WrqReceivesKeeps ==
    ASSUME IInv, NEW s \in Sessions, NEW m \in net, WrqReceives(s, m)
    PROVE  IInv' /\ Maps
<1>1. Reading(s) /\ ~PeerReceiving /\ role = "wrq" /\ m.sid = s
  BY DEF WrqReceives, Mine, PeerReceiving
<1>2. MayEnter(s, WrqOn(s, us[s], m).next, WrqOn(s, us[s], m).out)
  <2>1. CASE m.kind = "ERROR"
    BY <1>1, <2>1, MayFail DEF WrqOn, Stop, Then
  <2>2. CASE m.kind = "DATA" /\ m.n = BlockNo(us[s].block)
    <3>1. MayEnter(s, Keep(us[s], m, "put"), {Ack("peer", s, m.n)})
      BY <1>1, <2>2, MayKeep
    <3>2. QED
      BY <2>2, <3>1 DEF WrqOn, Then
  <2>3. CASE m.kind # "ERROR" /\ ~(m.kind = "DATA" /\ m.n = BlockNo(us[s].block))
    <3>1. [us[s] EXCEPT !.tries = 0] = [us[s] EXCEPT !.tries = 0, !.st = us[s].st]
      BY <1>1, ReadingSession DEF SessionType
    <3>2. 0 \in 0..Retries /\ 0 < Retries
      BY TftpAssumption
    <3>3. QED
      BY <1>1, <2>3, <3>1, <3>2, MayRepeat DEF WrqOn, Then
  <2>4. QED
    BY <2>1, <2>2, <2>3
<1>3. QED
  BY <1>1, <1>2, ReadingSession, Exchanged, SessionStep DEF WrqReceives, Enter

\* A read deadline.
LEMMA TimesOutKeeps ==
    ASSUME IInv, NEW s \in Sessions, TimesOut(s)
    PROVE  IInv' /\ Maps
<1>1. Reading(s)
  BY DEF TimesOut
<1>2. MayEnter(s, OnTimeout(s, us[s]).next, OnTimeout(s, us[s]).out)
  <2>1. CASE role = "get" \/ us[s].st \in {"asked", "bye"}
    BY <1>1, <2>1, MayFail DEF OnTimeout, Stop, Then
  <2>2. CASE role = "wrq" /\ us[s].st \notin {"asked", "bye"}
    <3>1. us[s].tries + 1 \in 0..Retries
      BY <1>1, ReadingSession, TftpAssumption DEF SessionType
    <3>2. ~PeerReceiving
      BY <2>2 DEF PeerReceiving
    <3>3. OnTimeout(s, us[s]) =
            [next |-> [us[s] EXCEPT !.tries = us[s].tries + 1,
                                    !.st = IF us[s].tries + 1 < Retries THEN "wait" ELSE "failed"],
             out |-> {Ack("peer", s, BlockNo(us[s].block - 1))}]
      BY <2>2 DEF OnTimeout, Then
    <3>4. CASE us[s].tries + 1 < Retries
      <4>1. OnTimeout(s, us[s]).next = [us[s] EXCEPT !.tries = us[s].tries + 1, !.st = "wait"]
            /\ OnTimeout(s, us[s]).out = {Ack("peer", s, BlockNo(us[s].block - 1))}
        BY <3>3, <3>4
      <4>2. QED
        BY <1>1, <3>1, <3>2, <3>4, <4>1, MayRepeat
    <3>5. CASE ~(us[s].tries + 1 < Retries)
      <4>1. OnTimeout(s, us[s]).next = [us[s] EXCEPT !.tries = us[s].tries + 1, !.st = "failed"]
            /\ OnTimeout(s, us[s]).out = {Ack("peer", s, BlockNo(us[s].block - 1))}
        BY <3>3, <3>5
      <4>2. QED
        BY <1>1, <3>1, <3>2, <4>1, MayRepeat
    <3>6. QED
      BY <3>4, <3>5
  <2>3. CASE role \in {"put", "rrq"} /\ us[s].st \notin {"asked", "bye"}
    BY <1>1, <2>3, MayRetry DEF OnTimeout, PeerReceiving
  <2>4. QED
    BY <2>1, <2>2, <2>3 DEF IInv, Typed, Roles
<1>3. QED
  BY <1>1, <1>2, ReadingSession, Closed, SessionStep DEF TimesOut, Enter

\* An ERROR may be sent at any time.
LEMMA ErrorSent ==
    ASSUME Typed, NEW s \in Sessions
    PROVE  Error("peer", s) \in Errors /\ Error("us", s) \in Errors
<1>1. 0 \in 0..Mod - 1 /\ 0 \in 0..size /\ s \in 0..MaxSessions
  BY TftpAssumption DEF Typed, Sessions
<1>2. QED
  BY <1>1 DEF Error, Datagram, Errors, Datagrams

\* What is known of a session that is not open.
LEMMA UnopenedSession ==
    ASSUME IInv, NEW s \in Sessions, us[s].st = "none", Serving
    PROVE  /\ Typed /\ us[s].block \in 1..size /\ size \in Nat /\ 1 \in 1..size /\ 0 \in 0..size /\ 0 < us[s].block
           /\ us[s].block <= us[s].block /\ us[s].block \in Nat
           /\ us[s].block # 1 => s = peer.sid
           /\ PeerReceiving => us[s].got = <<>> /\ us[s].block <= peer.block
           /\ ~PeerReceiving => us[s].got = Prefix(us[s].block - 1)
           /\ \A st \in {"wait", "bye"} : [us[s] EXCEPT !.st = st] \in SessionType
           /\ us[s].tries < Retries /\ us[s] \in SessionType
<1>1. Typed /\ Held /\ Lockstep /\ us[s] \in SessionType /\ us[s].block \in Nat /\ size \in Nat
      /\ us[s].tries < Retries /\ 1 \in 1..size /\ 0 \in 0..size
  BY DEF IInv, Typed, SessionType
<1>2. us[s].block \in 1..size
  BY <1>1 DEF Held
<1>3. \A st \in {"wait", "bye"} : [us[s] EXCEPT !.st = st] \in SessionType
  BY <1>1 DEF SessionType, SessionStates
<1>4. us[s].block # 1 => s = peer.sid
  BY <1>1 DEF Lockstep
<1>5. PeerReceiving => us[s].got = <<>> /\ us[s].block <= peer.block
  BY <1>1 DEF Held, Lockstep
<1>6. ~PeerReceiving => us[s].got = Prefix(us[s].block - 1)
  BY <1>1 DEF Held
<1>7. QED
  BY <1>1, <1>2, <1>3, <1>4, <1>5, <1>6

\* serveLoop opens a session that has nothing yet.
LEMMA ServeLoopKeeps ==
    ASSUME IInv, NEW m \in net, ServeLoop(m)
    PROVE  IInv' /\ Maps
<1>1. Typed /\ Held /\ Lockstep /\ Serving
  BY DEF IInv, ServeLoop
<1>2. CASE UNCHANGED us /\ Exchange(m, {})
  BY <1>1, <1>2, Exchanged, FewerDatagrams DEF ServeLoop
<1>3. ASSUME NEW s \in Sessions, us[s].st = "none", role = "wrq",
             us' = [us EXCEPT ![s].st = "wait"], Exchange(m, {Ack("peer", s, 0)})
      PROVE  IInv' /\ Maps
  <2>1. ~PeerReceiving
    BY <1>3 DEF PeerReceiving
  <2>2. Ack("peer", s, 0) \in Acks("peer", s, us[s].block)
    BY <1>1, <1>3, UnopenedSession, AckSent
  <2>3. ASSUME NEW u, u = [us[s] EXCEPT !.st = "wait"]
        PROVE  MayEnter(s, u, {Ack("peer", s, 0)})
    <3>1. /\ u.st = "wait" /\ u.tries = us[s].tries /\ u.block = us[s].block /\ u.got = us[s].got
          /\ u \in SessionType
      BY <1>1, <1>3, <2>3, UnopenedSession DEF SessionType
    <3>2. us[s].block \in 1..size /\ size \in Nat
      BY <1>1, <1>3, UnopenedSession
    <3>3. QED
      <4>1. us[s].block # 1 => s = peer.sid
        BY <1>1, <1>3, UnopenedSession
      <4>2. u.got = Prefix(u.block - 1) /\ u.tries < Retries /\ u.block # size + 1
            /\ us[s].block <= u.block /\ u.block \in 1..size + 1
        <5>1. us[s].got = Prefix(us[s].block - 1) /\ us[s].tries < Retries
          BY <1>1, <1>3, <2>1, UnopenedSession
        <5>2. us[s].block # size + 1 /\ us[s].block <= us[s].block /\ us[s].block \in 1..size + 1
          BY <3>2
        <5>3. QED
          BY <3>1, <5>1, <5>2
      <4>3. {Ack("peer", s, 0)} \subseteq Acks("peer", s, u.block)
        BY <2>2, <3>1
      <4>4. QED
        BY <1>1, <1>3, <2>1, <3>1, <4>1, <4>2, <4>3 DEF MayEnter
  <2>4. MayEnter(s, [us[s] EXCEPT !.st = "wait"], {Ack("peer", s, 0)})
    BY <2>3
  <2>5. QED
    BY <1>1, <1>3, <2>4, Exchanged, SessionStep DEF ServeLoop
<1>4. ASSUME NEW s \in Sessions, us[s].st = "none", role = "rrq",
             us' = [us EXCEPT ![s].st = IF exists THEN "wait" ELSE "bye"],
             Exchange(m, {IF exists THEN Data("peer", s, 1) ELSE Error("peer", s)})
      PROVE  IInv' /\ Maps
  <2>1. PeerReceiving
    BY <1>4 DEF PeerReceiving
  <2>2. Data("peer", s, 1) \in Blocks("peer", s, us[s].block)
    <3>1. 1 \in 1..size /\ us[s].block \in 1..size /\ size \in Nat
      BY <1>1, <1>4, UnopenedSession
    <3>2. Data("peer", s, 1) \in Blocks("peer", s, 1)
      BY <1>1, <3>1, BlockSent
    <3>3. QED
      BY <3>1, <3>2 DEF Blocks
  <2>3. Error("peer", s) \in Errors
    BY <1>1, ErrorSent
  <2>4. MayEnter(s, [us[s] EXCEPT !.st = IF exists THEN "wait" ELSE "bye"],
                 {IF exists THEN Data("peer", s, 1) ELSE Error("peer", s)})
    <3>1. ASSUME NEW u, NEW out, u = [us[s] EXCEPT !.st = IF exists THEN "wait" ELSE "bye"],
                 out = {IF exists THEN Data("peer", s, 1) ELSE Error("peer", s)}
          PROVE  MayEnter(s, u, out)
      <4>1. /\ u.st \in {"wait", "bye"} /\ u.tries = us[s].tries /\ u.block = us[s].block
            /\ u.got = us[s].got /\ u \in SessionType
        BY <1>1, <1>4, <3>1, UnopenedSession DEF SessionType
      <4>2. out \subseteq Blocks("peer", s, u.block) \cup Errors
        BY <2>2, <2>3, <3>1, <4>1
      <4>3. us[s].block \in 1..size /\ size \in Nat
        BY <1>1, <1>4, UnopenedSession
      <4>4. QED
        BY <1>1, <1>4, <2>1, <4>1, <4>2, <4>3, UnopenedSession DEF MayEnter
    <3>2. QED
      BY <3>1
  <2>5. QED
    BY <1>1, <1>4, <2>4, Exchanged, SessionStep DEF ServeLoop
<1>5. CASE ~(UNCHANGED us /\ Exchange(m, {}))
  <2>1. PICK s \in Unopened :
          \/ /\ role = "wrq" /\ us' = [us EXCEPT ![s].st = "wait"] /\ Exchange(m, {Ack("peer", s, 0)})
          \/ /\ role # "wrq" /\ us' = [us EXCEPT ![s].st = IF exists THEN "wait" ELSE "bye"]
             /\ Exchange(m, {IF exists THEN Data("peer", s, 1) ELSE Error("peer", s)})
    BY <1>5 DEF ServeLoop
  <2>2. s \in Sessions /\ us[s].st = "none" /\ role \in {"wrq", "rrq"}
    BY <1>1 DEF Unopened, Serving
  <2>3. QED
    BY <1>3, <1>4, <2>1, <2>2
<1>6. QED
  BY <1>2, <1>5

\* The end of kindWRQ: the store takes the file, for the first time, or
\* refuses it.
LEMMA StorePutKeeps ==
    ASSUME IInv, NEW s \in Sessions, StorePut(s)
    PROVE  IInv' /\ Maps
<1>1. Typed /\ Held /\ Chose /\ Wire /\ Lockstep /\ Saved /\ us[s].st = "put"
  BY DEF IInv, StorePut
<1>2. role = "wrq" /\ ~PeerReceiving /\ Serving
  BY <1>1 DEF Held, Serving
<1>3. us[s].block = size + 1 /\ us[s].got = File
  <2>1. us[s].block = size + 1 /\ us[s].got = Prefix(us[s].block - 1) /\ size \in Nat
    BY <1>1, <1>2 DEF Held, Typed
  <2>2. us[s].block - 1 = size
    BY <2>1
  <2>3. QED
    BY <2>1, <2>2, PrefixEnds
<1>4. \A t \in Sessions : us[t].st # "ok"
  <2>1. ASSUME NEW t \in Sessions, us[t].st = "ok"
        PROVE  FALSE
    <3>1. us[t].block = size + 1 /\ size + 1 # 1
      BY <1>1, <1>2, <2>1 DEF Held, Typed
    <3>2. t = s
      BY <1>1, <1>2, <1>3, <3>1 DEF Lockstep
    <3>3. QED
      BY <1>1, <2>1, <3>2
  <2>2. QED
    BY <2>1
<1>5. PICK st \in {"ok", "unsaved"} :
        /\ us' = [us EXCEPT ![s].st = st]
        /\ stored' = IF st = "ok" THEN <<File>> ELSE <<>>
        /\ faults' \in 0..MaxFaults
  <2>1. stored = <<>> /\ Append(stored, us[s].got) = <<File>>
    <3>1. stored = <<>> /\ Append(<<>>, File) = <<File>>
      BY <1>1, <1>4 DEF Saved
    <3>2. QED
      BY <1>3, <3>1
  <2>2. CASE us' = [us EXCEPT ![s].st = "ok"] /\ stored' = Append(stored, us[s].got)
             /\ UNCHANGED faults
    BY <1>1, <2>1, <2>2 DEF Typed
  <2>3. CASE /\ faults < MaxFaults /\ faults' = faults + 1
             /\ us' = [us EXCEPT ![s].st = "unsaved"] /\ UNCHANGED stored
    BY <1>1, <2>1, <2>3, TftpAssumption DEF Typed
  <2>4. QED
    BY <2>2, <2>3 DEF StorePut
<1>6. /\ us' \in [Sessions -> SessionType]
      /\ \A t \in Sessions : /\ us'[t].block = us[t].block /\ us'[t].got = us[t].got
                              /\ us'[t].tries = us[t].tries
                              /\ us'[t].st = IF t = s THEN st ELSE us[t].st
  BY <1>1, <1>5 DEF Typed, SessionType, SessionStates
<1>7. /\ role' = role /\ size' = size /\ exists' = exists /\ net' = net /\ peer' = peer
      /\ (Serving' <=> Serving) /\ (PeerReceiving' <=> PeerReceiving) /\ File' = File
  BY DEF StorePut, Unaffected, Serving, PeerReceiving, File
<1>8. Typed'
  BY <1>1, <1>5, <1>6, <1>7 DEF Typed, SessionType, Datagrams
<1>9. Held'
  BY <1>1, <1>2, <1>3, <1>6, <1>7 DEF Held
<1>10. Chose'
  BY <1>1, <1>2, <1>7 DEF Chose
<1>11. Wire'
  BY <1>1, <1>2, <1>6, <1>7 DEF Wire
<1>12. Lockstep'
  <2>1. peer.sid # 0 => peer.sid \in Sessions /\ us'[peer.sid].block = us[peer.sid].block
    BY <1>1, <1>6 DEF Typed, Sessions
  <2>2. \A t \in Sessions : us'[t].block = us[t].block
    BY <1>6
  <2>3. ~PeerReceiving'
    BY <1>2, <1>7
  <2>4. QED
    <3>1. \A t \in Sessions : us'[t].block # 1 => t = peer'.sid
      BY <1>1, <1>2, <1>7, <2>2 DEF Lockstep
    <3>2. peer'.sid # 0 => peer'.block <= us'[peer'.sid].block
      BY <1>1, <1>2, <1>7, <2>1 DEF Lockstep
    <3>3. peer'.st = "ok" => us'[peer'.sid].block = size' + 1
      BY <1>1, <1>2, <1>7, <2>1 DEF Lockstep, Chose
    <3>4. QED
      BY <2>3, <3>1, <3>2, <3>3 DEF Lockstep
<1>13. Saved'
  BY <1>2, <1>4, <1>5, <1>6, <1>7 DEF Saved
<1>14. Maps
  <2>1. role # "rrq" /\ role # "put" /\ (peer.sid # 0 => peer.sid \in Sessions) /\ 1 \in Sessions
    BY <1>1, <1>2, TftpAssumption DEF Typed, Sessions
  <2>2. Sender' = Sender
    BY <1>7, <2>1 DEF Sender
  <2>3. Have' = Have /\ Receiver' = Receiver
    <3>1. CASE peer.sid = 0
      BY <1>2, <1>7, <3>1 DEF Have, Receiver
    <3>2. CASE peer.sid # 0
      <4>1. Chosen = us[peer.sid] /\ Chosen' = us'[peer.sid]
        BY <1>2, <1>7, <3>2 DEF Chosen
      <4>2. Chosen'.got = Chosen.got /\ AsVerdict(Chosen'.st) = AsVerdict(Chosen.st)
        BY <1>1, <1>6, <2>1, <3>2, <4>1 DEF AsVerdict
      <4>3. Have = Chosen.got /\ Have' = Chosen'.got
            /\ Receiver = AsVerdict(Chosen.st) /\ Receiver' = AsVerdict(Chosen'.st)
        BY <1>2, <1>7, <3>2 DEF Have, Receiver
      <4>4. QED
        BY <4>2, <4>3
    <3>3. QED
      BY <3>1, <3>2
  <2>4. QED
    BY <1>7, <2>2, <2>3, Stutters
<1>15. QED
  BY <1>8, <1>9, <1>10, <1>11, <1>12, <1>13, <1>14 DEF IInv

-----------------------------------------------------------------------------
(* The peer and the network *)

\* What is known of the peer.
LEMMA PeerKnown ==
    ASSUME IInv
    PROVE  /\ Typed /\ peer \in PeerType /\ size \in Nat /\ 1 \in 1..size /\ 0 < 1
           /\ peer.block \in 1..size + 1 /\ peer.block \in Nat /\ peer.block <= peer.block
           /\ peer.sid # 0 => peer.sid \in Sessions
           /\ peer.st \in {"wait", "asking"} => peer.block \in 1..size
           /\ peer.st \in {"wait", "ok", "aborted"} => peer.sid # 0
           /\ peer.st \in {"asking", "idle"} => peer.sid = 0
           /\ peer.sid = 0 => peer.block = 1
           /\ peer.st = "asking" => Serving
           /\ ~Serving => peer.sid \in {0, 1}
           /\ PeerReceiving => peer.got = Prefix(peer.block - 1)
                               /\ (peer.st = "ok" <=> peer.block = size + 1)
           /\ ~PeerReceiving => /\ peer.block \in 1..size /\ peer.got = <<>>
                                /\ peer.sid # 0 => peer.block <= us[peer.sid].block
                                /\ peer.st = "ok" => us[peer.sid].block = size + 1
<1>1. Typed /\ Held /\ Chose /\ Lockstep
  BY DEF IInv
<1>2. peer \in PeerType /\ size \in Nat /\ 1 \in 1..size
  BY <1>1 DEF Typed, PeerType
<1>3. peer.block \in 1..size + 1 /\ (peer.st \in {"wait", "asking"} => peer.block \in 1..size)
  BY <1>1, <1>2 DEF Held
<1>4. peer.sid # 0 => peer.sid \in Sessions
  BY <1>2 DEF PeerType, Sessions
<1>5. QED
  BY <1>1, <1>2, <1>3, <1>4 DEF Held, Chose, Lockstep

\* The peer may keep to its place, or give up.
LEMMA PeerMayStay ==
    ASSUME IInv, NEW p, p \in PeerType,
           p.block = peer.block, p.got = peer.got, p.sid = peer.sid,
           \/ p.st = peer.st
           \/ peer.st \in {"asking", "wait"} /\ p.st = "failed"
           \/ peer.st = "wait" /\ p.st = "aborted",
           NEW out, PeerMaySend(p.block, p.sid, out)
    PROVE  PeerMayEnter(p, out)
BY PeerKnown DEF PeerMayEnter

\* A request reaches the peer.
LEMMA PeerIsAskedKeeps ==
    ASSUME IInv, NEW m \in net, PeerIsAsked(m)
    PROVE  IInv' /\ Maps
<1>1. ~Serving /\ peer.st \in {"idle", "wait"} /\ peer.block = 1
  BY DEF PeerIsAsked, PeerUses, IInv, Wire, Request, Datagram
<1>2. 1 \in Sessions /\ us[1].block \in 1..size + 1 /\ size \in Nat
  BY TftpAssumption, PeerKnown DEF IInv, Held, Sessions
<1>3. ASSUME NEW p, NEW out, p = PeerAt("wait", 1, <<>>, peer.tries, 1),
             out = {IF PeerReceiving THEN Ack("us", 1, 0) ELSE Data("us", 1, 1)}
      PROVE  PeerMayEnter(p, out)
  <2>1. p.st = "wait" /\ p.block = 1 /\ p.got = <<>> /\ p.tries = peer.tries /\ p.sid = 1 /\ p \in PeerType
    BY <1>2, <1>3, PeerKnown DEF PeerAt, PeerType, PeerStates, Sessions
  <2>2. Ack("us", 1, 0) \in Acks("us", 1, 1) /\ Ack("us", 1, 0).n = 0 /\ Ack("us", 1, 0).sid = 1
    BY <1>2, PeerKnown, AckSent
  <2>3. Data("us", 1, 1) \in Blocks("us", 1, 1)
    BY <1>2, PeerKnown, BlockSent
  <2>4. PeerMaySend(1, 1, out)
    BY <1>2, <1>3, <2>2, <2>3 DEF PeerMaySend
  <2>5. <<>> = Prefix(1 - 1)
    BY PrefixEnds
  <2>6. QED
    BY <1>1, <1>2, <2>1, <2>4, <2>5, PeerKnown DEF PeerMayEnter
<1>4. QED
  BY <1>3, PeerKnown, Exchanged, PeerStepKeeps DEF PeerIsAsked, PeerEnters

\* A block reaches the peer: the next of the file, or one that it has.
LEMMA PeerTakesDataKeeps ==
    ASSUME IInv, NEW m \in net, PeerTakesData(m)
    PROVE  IInv' /\ Maps
<1>1. /\ PeerReceiving /\ m.sid \in Sessions /\ m.n = m.chunk /\ m.chunk \in 1..size
      /\ m.chunk <= us[m.sid].block /\ peer.sid \in {0, m.sid}
      /\ \/ peer.st \in {"wait", "ok"}
         \/ peer.st = "asking" /\ m = Data("peer", m.sid, 1)
  BY DEF PeerTakesData, PeerUses, IInv, Wire, Ack, Datagram
<1>2. us[m.sid].block <= peer.block /\ us[m.sid].block \in Nat
  BY <1>1 DEF IInv, Lockstep, Typed
<1>3. BlockNo(m.chunk) = m.chunk /\ m.n \in Nat /\ m.n <= peer.block
      /\ (peer.block \in 1..size => BlockNo(peer.block) = peer.block)
  BY <1>1, <1>2, PeerKnown, NoWrap
<1>4. CASE peer.st = "ok" \/ m.n # BlockNo(peer.block)
  <2>1. peer.st # "asking"
    <3>1. CASE peer.st = "asking"
      <4>1. m.n = BlockNo(1) /\ peer.block = 1
        BY <1>1, <3>1, PeerKnown DEF Data, Datagram
      <4>2. QED
        BY <1>4, <3>1, <4>1
    <3>2. QED
      BY <3>1
  <2>2. m.sid = peer.sid /\ m.n < peer.block /\ m.n \in 0..size
    BY <1>1, <1>3, <1>4, <2>1, PeerKnown
  <2>3. Ack("us", m.sid, m.n) \in Acks("us", m.sid, peer.block)
        /\ Ack("us", m.sid, m.n).n = m.n /\ Ack("us", m.sid, m.n).sid = m.sid
    BY <1>1, <2>2, PeerKnown, AckSent
  <2>4. PeerMaySend(peer.block, peer.sid, {Ack("us", m.sid, m.n)})
    BY <1>1, <2>2, <2>3 DEF PeerMaySend
  <2>5. PeerMayEnter(peer, {Ack("us", m.sid, m.n)})
    BY <2>4, PeerKnown, PeerMayStay
  <2>6. QED
    BY <1>4, <2>5, PeerKnown, Exchanged, PeerStepKeeps DEF PeerTakesData, PeerEnters
<1>5. CASE peer.st # "ok" /\ m.n = BlockNo(peer.block)
  <2>1. peer.block \in 1..size /\ m.n = peer.block /\ m.chunk = peer.block
    BY <1>1, <1>3, <1>5, PeerKnown
  <2>2. Append(peer.got, m.chunk) = Prefix(peer.block) /\ Prefix(peer.block) \in Seq(Nat)
    <3>1. peer.block - 1 \in Nat /\ peer.block - 1 + 1 = peer.block
      BY <2>1
    <3>2. Append(Prefix(peer.block - 1), peer.block - 1 + 1) = Prefix(peer.block - 1 + 1)
      BY <3>1, PrefixGrows
    <3>3. Append(Prefix(peer.block - 1), peer.block) = Prefix(peer.block)
      BY <3>1, <3>2
    <3>4. QED
      BY <1>1, <2>1, <3>3, PeerKnown, PrefixIsSeq
  <2>3. Ack("us", m.sid, m.n) \in Acks("us", m.sid, peer.block + 1)
        /\ Ack("us", m.sid, m.n).n = m.n /\ Ack("us", m.sid, m.n).sid = m.sid
    BY <1>1, <2>1, PeerKnown, AckSent
  <2>4. PeerMaySend(peer.block + 1, m.sid, {Ack("us", m.sid, m.n)})
    BY <1>1, <2>3 DEF PeerMaySend
  <2>5. ASSUME NEW p, p = PeerAt(IF m.chunk = size THEN "ok" ELSE "wait", peer.block + 1,
                                 Append(peer.got, m.chunk), 0, m.sid)
        PROVE  PeerMayEnter(p, {Ack("us", m.sid, m.n)})
    <3>1. /\ p.st = IF peer.block = size THEN "ok" ELSE "wait"
          /\ p.block = peer.block + 1 /\ p.got = Prefix(peer.block) /\ p.tries = 0 /\ p.sid = m.sid
      BY <2>1, <2>2, <2>5 DEF PeerAt
    <3>2. p \in PeerType
      BY <1>1, <2>1, <2>2, <2>5 DEF PeerAt, PeerType, PeerStates, Sessions
    <3>3. m.sid # 0 /\ (~Serving => m.sid = 1)
      BY <1>1, PeerKnown DEF Sessions
    <3>4. p.block - 1 = peer.block /\ p.block \in 1..size + 1 /\ peer.block <= p.block
          /\ (p.block = size + 1 <=> peer.block = size)
      BY <2>1, <3>1, PeerKnown
    <3>5. QED
      BY <1>1, <2>4, <3>1, <3>2, <3>3, <3>4, PeerKnown DEF PeerMayEnter
  <2>6. QED
    BY <1>5, <2>5, PeerKnown, Exchanged, PeerStepKeeps DEF PeerTakesData, PeerEnters
<1>6. QED
  BY <1>4, <1>5

\* An acknowledgement reaches the peer: it sends the next block, or the one it is at.
LEMMA PeerIsAcknowledgedKeeps ==
    ASSUME IInv, NEW m \in net, PeerIsAcknowledged(m)
    PROVE  IInv' /\ Maps
<1>1. ~PeerReceiving /\ m.sid \in Sessions /\ m.n < us[m.sid].block /\ peer.sid \in {0, m.sid}
  BY DEF PeerIsAcknowledged, PeerUses, IInv, Wire
<1>2. us[m.sid].block \in 1..size + 1 /\ BlockNo(peer.block) = peer.block /\ m.sid # 0
      /\ size \in Nat /\ m.sid \in 0..MaxSessions
  BY <1>1, PeerKnown, NoWrap DEF IInv, Held, Sessions
<1>3. CASE /\ peer.st = "asking" /\ Exchange(m, {Data("us", m.sid, 1)})
           /\ PeerEnters(PeerAt("wait", 1, <<>>, 0, m.sid))
  <2>1. ASSUME NEW p, p = PeerAt("wait", 1, <<>>, 0, m.sid)
        PROVE  PeerMayEnter(p, {Data("us", m.sid, 1)})
    <3>1. p.st = "wait" /\ p.block = 1 /\ p.got = <<>> /\ p.tries = 0 /\ p.sid = m.sid /\ p \in PeerType
      BY <1>2, <2>1 DEF PeerAt, PeerType, PeerStates
    <3>2. Data("us", m.sid, 1) \in Blocks("us", m.sid, 1)
      BY <1>1, PeerKnown, BlockSent
    <3>3. PeerMaySend(1, m.sid, {Data("us", m.sid, 1)})
      BY <1>1, <1>2, <3>2 DEF PeerMaySend
    <3>4. Serving /\ peer.sid = 0 /\ peer.block = 1 /\ 1 <= us[m.sid].block /\ 1 \in 1..size /\ 1 <= 1
      BY <1>2, <1>3, PeerKnown
    <3>5. QED
      BY <1>1, <1>2, <1>3, <3>1, <3>3, <3>4 DEF PeerMayEnter
  <2>2. QED
    BY <1>3, <2>1, PeerKnown, Exchanged, PeerStepKeeps DEF PeerEnters
<1>4. CASE /\ peer.st = "wait" /\ m.n = BlockNo(peer.block)
           /\ PeerEnters(IF peer.block = size THEN [peer EXCEPT !.st = "ok"]
                         ELSE PeerAt("wait", peer.block + 1, <<>>, 0, m.sid))
           /\ Exchange(m, {Data("us", m.sid, i) : i \in {peer.block + 1} \cap 1..size})
  <2>1. m.sid = peer.sid /\ peer.block < us[peer.sid].block /\ peer.block \in 1..size /\ peer.got = <<>>
    BY <1>1, <1>2, <1>4, PeerKnown
  <2>2. ASSUME NEW p, NEW out,
               p = IF peer.block = size THEN [peer EXCEPT !.st = "ok"]
                   ELSE PeerAt("wait", peer.block + 1, <<>>, 0, m.sid),
               out = {Data("us", m.sid, i) : i \in {peer.block + 1} \cap 1..size}
        PROVE  PeerMayEnter(p, out)
    <3>1. CASE peer.block = size
      <4>1. p.st = "ok" /\ p.block = peer.block /\ p.got = <<>> /\ p.sid = peer.sid /\ p \in PeerType
        BY <2>1, <2>2, <3>1, PeerKnown DEF PeerType, PeerStates
      <4>2. {peer.block + 1} \cap 1..size = {}
        BY <3>1, PeerKnown
      <4>3. PeerMaySend(p.block, p.sid, out)
        BY <2>2, <4>2 DEF PeerMaySend
      <4>4. us[p.sid].block = size + 1 /\ p.block <= us[p.sid].block
        BY <1>2, <2>1, <3>1, <4>1
      <4>5. QED
        BY <1>1, <1>2, <1>4, <2>1, <4>1, <4>3, <4>4, PeerKnown DEF PeerMayEnter
    <3>2. CASE peer.block # size
      <4>1. /\ p.st = "wait" /\ p.block = peer.block + 1 /\ p.got = <<>> /\ p.sid = peer.sid
            /\ p \in PeerType
        BY <1>2, <2>1, <2>2, <3>2 DEF PeerAt, PeerType, PeerStates
      <4>2. peer.block + 1 \in 1..size /\ peer.block <= peer.block + 1
            /\ peer.block + 1 <= us[peer.sid].block
        BY <1>2, <2>1, <3>2
      <4>3. Data("us", m.sid, peer.block + 1) \in Blocks("us", m.sid, peer.block + 1)
        BY <1>1, <4>2, PeerKnown, BlockSent
      <4>4. out \subseteq {Data("us", m.sid, peer.block + 1)}
        BY <2>2
      <4>5. PeerMaySend(p.block, p.sid, out)
        BY <1>1, <1>2, <2>1, <4>1, <4>3, <4>4 DEF PeerMaySend
      <4>6. QED
        BY <1>1, <1>2, <1>4, <2>1, <4>1, <4>2, <4>5, PeerKnown DEF PeerMayEnter
    <3>3. QED
      BY <3>1, <3>2
  <2>3. QED
    BY <1>4, <2>2, PeerKnown, Exchanged, PeerStepKeeps DEF PeerEnters
<1>5. CASE /\ peer.st = "wait" /\ PeerEnters(peer)
           /\ Exchange(m, {}) \/ Exchange(m, {Data("us", m.sid, peer.block)})
  <2>1. m.sid = peer.sid
    BY <1>1, <1>5, PeerKnown
  <2>2. Data("us", m.sid, peer.block) \in Blocks("us", peer.sid, peer.block)
    BY <1>1, <2>1, PeerKnown, BlockSent
  <2>3. PeerMaySend(peer.block, peer.sid, {Data("us", m.sid, peer.block)})
        /\ PeerMaySend(peer.block, peer.sid, {})
    BY <1>1, <1>2, <2>1, <2>2 DEF PeerMaySend
  <2>4. PeerMayEnter(peer, {Data("us", m.sid, peer.block)}) /\ PeerMayEnter(peer, {})
    BY <2>3, PeerKnown, PeerMayStay
  <2>5. QED
    BY <1>5, <2>4, PeerKnown, Exchanged, PeerStepKeeps DEF PeerEnters
<1>6. QED
  BY <1>3, <1>4, <1>5 DEF PeerIsAcknowledged

\* An ERROR reaches the peer.
LEMMA PeerIsRefusedKeeps ==
    ASSUME IInv, NEW m \in net, PeerIsRefused(m)
    PROVE  IInv' /\ Maps
<1>1. peer.st \in {"asking", "wait"}
  BY DEF PeerIsRefused, PeerUses
<1>2. ASSUME NEW p, p = [peer EXCEPT !.st = "failed"]
      PROVE  PeerMayEnter(p, {})
  <2>1. /\ p.st = "failed" /\ p.block = peer.block /\ p.got = peer.got /\ p.sid = peer.sid
        /\ p \in PeerType
    BY <1>2, PeerKnown DEF PeerType, PeerStates
  <2>2. PeerMaySend(p.block, p.sid, {})
    BY DEF PeerMaySend
  <2>3. QED
    BY <1>1, <2>1, <2>2, PeerMayStay
<1>3. QED
  BY <1>2, PeerKnown, Exchanged, PeerStepKeeps DEF PeerIsRefused, PeerEnters

\* The peer runs out of patience for an answer, or of attempts.
LEMMA PeerTimesOutKeeps ==
    ASSUME IInv, PeerTimesOut
    PROVE  IInv' /\ Maps
<1>1. peer.st \in {"asking", "wait"}
  BY DEF PeerTimesOut
<1>2. CASE WindowCloses({PeerRepeats}) /\ PeerEnters([peer EXCEPT !.tries = @ + 1])
  <2>1. PeerMaySend(peer.block, peer.sid, {PeerRepeats})
    <3>1. CASE peer.st = "asking"
      BY <3>1, PeerKnown DEF PeerMaySend, PeerRepeats
    <3>2. CASE peer.st = "wait" /\ PeerReceiving
      <4>1. peer.block - 1 \in 0..size /\ peer.block - 1 < peer.block /\ peer.sid \in Sessions
        BY <3>2, PeerKnown
      <4>2. BlockNo(peer.block - 1) = peer.block - 1
        BY <4>1, PeerKnown, NoWrap
      <4>3. /\ Ack("us", peer.sid, peer.block - 1) \in Acks("us", peer.sid, peer.block)
            /\ Ack("us", peer.sid, peer.block - 1).sid = peer.sid
        BY <4>1, PeerKnown, AckSent
      <4>4. PeerRepeats = Ack("us", peer.sid, peer.block - 1)
        BY <3>2, <4>2 DEF PeerRepeats
      <4>5. QED
        BY <3>2, <4>1, <4>3, <4>4 DEF PeerMaySend
    <3>3. CASE peer.st = "wait" /\ ~PeerReceiving
      <4>1. peer.block \in 1..size /\ peer.sid \in Sessions /\ peer.sid # 0
        BY <3>3, PeerKnown
      <4>2. Data("us", peer.sid, peer.block) \in Blocks("us", peer.sid, peer.block)
        BY <4>1, PeerKnown, BlockSent
      <4>3. PeerRepeats = Data("us", peer.sid, peer.block)
        BY <3>3 DEF PeerRepeats
      <4>4. QED
        BY <3>3, <4>1, <4>2, <4>3 DEF PeerMaySend
    <3>4. QED
      BY <1>1, <3>1, <3>2, <3>3
  <2>2. ASSUME NEW p, p = [peer EXCEPT !.tries = @ + 1]
        PROVE  PeerMayEnter(p, {PeerRepeats})
    <3>1. /\ p.st = peer.st /\ p.block = peer.block /\ p.got = peer.got /\ p.sid = peer.sid
          /\ p \in PeerType
      <4>1. peer \in PeerType
        BY PeerKnown
      <4>2. QED
        BY <2>2, <4>1 DEF PeerType
    <3>2. PeerMaySend(p.block, p.sid, {PeerRepeats})
      BY <2>1, <3>1
    <3>3. QED
      BY <3>1, <3>2, PeerMayStay
  <2>3. QED
    BY <1>2, <2>2, PeerKnown, Closed, PeerStepKeeps DEF PeerEnters
<1>3. CASE WindowCloses({}) /\ PeerEnters([peer EXCEPT !.st = "failed"])
  <2>1. ASSUME NEW p, p = [peer EXCEPT !.st = "failed"]
        PROVE  PeerMayEnter(p, {})
    <3>1. /\ p.st = "failed" /\ p.block = peer.block /\ p.got = peer.got /\ p.sid = peer.sid
          /\ p \in PeerType
      BY <2>1, PeerKnown DEF PeerType, PeerStates
    <3>2. PeerMaySend(p.block, p.sid, {})
      BY DEF PeerMaySend
    <3>3. QED
      BY <1>1, <3>1, <3>2, PeerMayStay
  <2>2. QED
    BY <1>3, <2>1, PeerKnown, Closed, PeerStepKeeps DEF PeerEnters
<1>4. QED
  BY <1>2, <1>3 DEF PeerTimesOut

\* The peer aborts.
LEMMA PeerAbortsKeeps ==
    ASSUME IInv, PeerAborts
    PROVE  IInv' /\ Maps
<1>1. peer.st = "wait" /\ peer.sid \in Sessions
  BY PeerKnown DEF PeerAborts
<1>2. ASSUME NEW p, p = [peer EXCEPT !.st = "aborted"]
      PROVE  PeerMayEnter(p, {Error("us", peer.sid)})
  <2>1. /\ p.st = "aborted" /\ p.block = peer.block /\ p.got = peer.got /\ p.sid = peer.sid
        /\ p \in PeerType
    BY <1>2, PeerKnown DEF PeerType, PeerStates
  <2>2. Error("us", peer.sid) \in Errors
    BY <1>1, PeerKnown, ErrorSent
  <2>3. PeerMaySend(p.block, p.sid, {Error("us", peer.sid)})
    BY <2>2 DEF PeerMaySend
  <2>4. QED
    BY <1>1, <2>1, <2>3, PeerMayStay
<1>3. faults \in 0..MaxFaults
  BY PeerKnown DEF Typed
<1>4. net' \subseteq net \cup {Error("us", peer.sid)} /\ faults' \in 0..MaxFaults
  BY <1>3, TftpAssumption DEF PeerAborts
<1>5. QED
  BY <1>2, <1>4, PeerStepKeeps DEF PeerAborts, PeerEnters

\* A datagram is lost, or left unread.
LEMMA LosesKeep ==
    ASSUME IInv, NEW m \in net, Lose(m) \/ Discard(m)
    PROVE  IInv' /\ Maps
<1>1. faults \in 0..MaxFaults
  BY PeerKnown DEF Typed
<1>2. net' \subseteq net
  BY DEF Lose, Discard
<1>3. faults' = faults \/ (faults < MaxFaults /\ faults' = faults + 1)
  BY DEF Lose, Discard
<1>4. faults' \in 0..MaxFaults
  BY <1>1, <1>3, TftpAssumption
<1>5. QED
  BY <1>2, <1>4, FewerDatagrams DEF Lose, Discard

-----------------------------------------------------------------------------
(* The invariant *)

LEMMA InitIInv == Init => IInv
<1> SUFFICES ASSUME Init
             PROVE  IInv
  OBVIOUS
<1>1. size \in 1..MaxBlocks /\ size \in Nat /\ 1 \in 1..size /\ 0 \in 0..Retries /\ 0 < Retries
      /\ 0 \in 0..MaxFaults /\ 0 \in 0..MaxSessions /\ role \in Roles
      /\ exists \in BOOLEAN /\ faults = 0 /\ stored = <<>>
  <2>1. exists \in BOOLEAN
    <3>1. exists \in IF role = "rrq" THEN BOOLEAN ELSE {TRUE}
      BY DEF Init
    <3>2. CASE role = "rrq"
      BY <3>1, <3>2
    <3>3. CASE role # "rrq"
      BY <3>1, <3>3
    <3>4. QED
      BY <3>2, <3>3
  <2>2. QED
    BY <2>1, TftpAssumption DEF Init
<1>2. /\ us \in [Sessions -> [st : SessionStates, block : Nat, got : Seq(Nat), tries : 0..Retries]]
      /\ \A s \in Sessions : /\ us[s].st = (IF s = 1 /\ ~Serving THEN "asked" ELSE "none")
                              /\ us[s].block = 1 /\ us[s].got = <<>> /\ us[s].tries = 0
  BY <1>1 DEF Init, At, Idle, SessionStates
<1>3. /\ peer.st = (IF Serving THEN "asking" ELSE "idle") /\ peer.block = 1 /\ peer.got = <<>>
      /\ peer.tries = 0 /\ peer.sid = 0
      /\ peer \in [st : PeerStates, block : Nat, got : Seq(Nat), tries : Nat, sid : 0..MaxSessions]
  BY <1>1 DEF Init, PeerAt, PeerStates
<1>4. net = {Request(IF Serving THEN "us" ELSE "peer")} /\ net \subseteq Datagrams
  BY <1>1, TftpAssumption DEF Init, Request, Datagram, Datagrams
<1>5. Typed
  BY <1>1, <1>2, <1>3, <1>4 DEF Typed
<1>6. Held
  <2>1. <<>> = Prefix(1 - 1) /\ 1 # size + 1 /\ 1 \in 1..size + 1
    BY <1>1, PrefixEnds
  <2>2. QED
    BY <1>1, <1>2, <1>3, <2>1 DEF Held
<1>7. Chose
  BY <1>2, <1>3 DEF Chose
<1>8. Wire
  BY <1>4 DEF Wire, Request, Datagram
<1>9. Lockstep /\ Saved
  BY <1>1, <1>2, <1>3 DEF Lockstep, Saved
<1>10. QED
  BY <1>5, <1>6, <1>7, <1>8, <1>9 DEF IInv

LEMMA EveryStep == IInv /\ [Next]_vars => IInv' /\ Maps
<1> SUFFICES ASSUME IInv, [Next]_vars
             PROVE  IInv' /\ Maps
  OBVIOUS
<1>1. CASE OurStep
  BY <1>1, ServeLoopKeeps, GetReceivesKeeps, PutReceivesKeeps, RrqReceivesKeeps,
       WrqReceivesKeeps, TimesOutKeeps, StorePutKeeps DEF OurStep
<1>2. CASE PeerStep
  BY <1>2, PeerIsAskedKeeps, PeerTakesDataKeeps, PeerIsAcknowledgedKeeps,
       PeerIsRefusedKeeps, PeerTimesOutKeeps DEF PeerStep
<1>3. CASE PeerAborts
  BY <1>3, PeerAbortsKeeps
<1>4. CASE \E m \in net : Lose(m) \/ Discard(m)
  BY <1>4, LosesKeep
<1>5. CASE UNCHANGED vars
  <2>1. net' \subseteq net /\ faults' \in 0..MaxFaults
    BY <1>5, PeerKnown DEF vars, Typed
  <2>2. QED
    BY <1>5, <2>1, FewerDatagrams DEF vars, Unaffected
<1>6. QED
  BY <1>1, <1>2, <1>3, <1>4, <1>5 DEF Next, Done

LEMMA Inductive == Spec => []IInv
<1>1. Init => IInv
  BY InitIInv
<1>2. IInv /\ [Next]_vars => IInv'
  BY EveryStep
<1>3. QED
  BY <1>1, <1>2, PTL DEF Spec

-----------------------------------------------------------------------------
(* What follows *)

\* A prefix that is no longer than the file is made of its blocks.
LEMMA PrefixOfFile ==
    ASSUME Typed, NEW n \in Nat, n <= size
    PROVE  Prefix(n) \in Seq(1..size)
<1>1. \A i \in 1..n : i \in 1..size
  BY DEF Typed
<1>2. QED
  BY <1>1 DEF Prefix

\* Types: what the sessions of TFTPGet, kindWRQ and the rest hold and send.
THEOREM TypeCorrect == Spec => []TypeOK
<1>1. IInv => TypeOK
  <2> SUFFICES ASSUME IInv
               PROVE  TypeOK
    OBVIOUS
  <2>1. Typed /\ Held /\ Saved /\ size \in Nat
    BY DEF IInv, Typed
  <2>2. <<>> \in Seq(1..size) /\ File \in Seq(1..size)
    BY <2>1, PrefixOfFile, PrefixEnds
  <2>3. ASSUME NEW s \in Sessions
        PROVE  /\ us[s].st \in SessionStates /\ us[s].block \in 1..size + 1
               /\ us[s].tries \in 0..Retries /\ us[s].got \in Seq(1..size)
    <3>1. us[s].st \in SessionStates /\ us[s].tries \in 0..Retries
      BY <2>1 DEF Typed
    <3>2. CASE PeerReceiving
      <4>1. us[s].block \in 1..size /\ us[s].got = <<>>
        BY <2>1, <3>2 DEF Held
      <4>2. us[s].block \in 1..size + 1
        BY <2>1, <4>1
      <4>3. QED
        BY <2>2, <3>1, <4>1, <4>2
    <3>3. CASE ~PeerReceiving
      <4>1. us[s].block \in 1..size + 1 /\ us[s].got = Prefix(us[s].block - 1)
        BY <2>1, <3>3 DEF Held
      <4>2. us[s].block - 1 \in Nat /\ us[s].block - 1 <= size
        BY <2>1, <4>1
      <4>3. QED
        BY <2>1, <3>1, <4>1, <4>2, PrefixOfFile
    <3>4. QED
      BY <3>2, <3>3
  <2>4. stored \in Seq(Seq(1..size))
    <3>1. <<>> \in Seq(Seq(1..size)) /\ <<File>> \in Seq(Seq(1..size))
      BY <2>2
    <3>2. QED
      BY <2>1, <3>1 DEF Saved
  <2>5. QED
    BY <2>1, <2>3, <2>4 DEF TypeOK, Typed, PeerStates
<1>2. QED
  BY <1>1, Inductive, PTL

\* The store is given the file, whole, and once (kindWRQ, serveLoop).
THEOREM StoreIsWhole == Spec => []SavedWhole
<1>1. IInv => SavedWhole
  BY DEF IInv, Saved, SavedWhole
<1>2. QED
  BY <1>1, Inductive, PTL

\* When all is over, a file that the switch believes saved is in the store,
\* unless the store refused it: the switch was told before (kindWRQ).
THEOREM BelievedIsStored ==
    Spec => [](Settled /\ role = "wrq" /\ peer.st = "ok" =>
                   stored = <<File>> \/ "unsaved" \in OurVerdict)
<1>1. ASSUME IInv, Settled, role = "wrq", peer.st = "ok", "unsaved" \notin OurVerdict
      PROVE  stored = <<File>>
  <2>1. ~PeerReceiving /\ peer.sid \in Sessions
    BY <1>1 DEF IInv, Typed, Chose, PeerReceiving, Sessions
  <2>2. us[peer.sid].st \in {"put", "ok", "unsaved"}
    BY <1>1, <2>1 DEF IInv, Held, Lockstep
  <2>3. us[peer.sid].st = "ok"
    BY <1>1, <2>1, <2>2 DEF Settled, OurVerdict
  <2>4. QED
    BY <1>1, <2>1, <2>3 DEF IInv, Saved
<1>2. IInv => (Settled /\ role = "wrq" /\ peer.st = "ok" =>
                  stored = <<File>> \/ "unsaved" \in OurVerdict)
  BY <1>1
<1>3. QED
  BY <1>2, Inductive, PTL

\* A transfer in any of the four roles is a transfer: of the file's blocks
\* in their order, and told to the sender to be done only when it is
\* (TFTPGet, TFTPPut, kindRRQ, kindWRQ).
THEOREM TransfersAreSafe == Spec => TransferSpec
<1>1. Init => T!Init
  <2> SUFFICES ASSUME Init
               PROVE  T!Init
    OBVIOUS
  <2>1. 1 \in Sessions /\ peer = PeerAt(IF Serving THEN "asking" ELSE "idle", 1, <<>>, 0, 0)
        /\ us = [s \in Sessions |-> IF s = 1 /\ ~Serving THEN At("asked", 1, <<>>, 0) ELSE Idle]
    BY TftpAssumption DEF Init, Sessions
  <2>2. peer.st \in {"asking", "idle"} /\ peer.got = <<>> /\ peer.sid = 0
    BY <2>1 DEF PeerAt
  <2>3. us[1].st \in {"asked", "none"} /\ us[1].got = <<>> /\ \A s \in Sessions : us[s].st # "ok"
    BY <2>1 DEF At, Idle
  <2>4. Have = <<>> /\ Sender = "busy" /\ Receiver = "busy"
    BY <2>2, <2>3 DEF Have, Sender, Receiver, Chosen, ServerSent, AsVerdict
  <2>5. QED
    BY <2>4 DEF T!Init
<1>2. IInv /\ [Next]_vars => [T!Next]_(T!tvars)
  BY EveryStep DEF Maps
<1>3. QED
  BY <1>1, <1>2, Inductive, PTL DEF Spec, TransferSpec, T!Spec

-----------------------------------------------------------------------------
(* How many faults a transfer rides out.  A fault pays for one datagram    *)
(* more under way, or for one attempt of either side; a datagram that is   *)
(* not about the block the sender is at pays for one attempt of its.       *)

NetBounded == IsFiniteSet(net) /\ Cardinality(net) <= faults + 1

\* The block that session c is at, and its acknowledgement.
Current(c) == {Data("peer", c, us[c].block), Ack("us", c, us[c].block)}

\* What else may reach session c, or lead to something that does.
Concerns(c) == {m \in net : role = "put" \/ m.sid = c}
Stale(c) == Concerns(c) \ Current(c)

\* The attempts that session c has made, and those it may yet be led to make.
Patient(c) ==
    /\ us[c].tries + Cardinality(Stale(c)) <= faults
    /\ net \cap Current(c) = {} => us[c].tries + 1 <= faults

PeerPatient(c) ==
    peer.st = "wait" =>
      /\ peer.tries <= faults
      /\ (\A m \in net : m.sid # c) => peer.tries + 1 <= faults

\* The peer works with session c.
Going(c) ==
    /\ us[c].st \in {"wait", "ok"} /\ peer.st \in {"wait", "ok"}
    /\ us[c].st = "wait" => Patient(c)
    /\ PeerPatient(c)
    /\ \A m \in net : m.kind # "ERROR"

\* TFTPPut has sent its request.
Asked ==
    /\ us[1].st = "asked" /\ us[1].block = 1 /\ us[1].tries = 0
    /\ peer.st \in {"idle", "wait"} /\ peer.block = 1
    /\ peer.st = "idle" => peer.tries = 0 /\ net \subseteq {Request("peer")}
    /\ PeerPatient(1)
    /\ net \subseteq {Request("peer"), Ack("us", 1, 0)}
    /\ faults = 0 => net # {}

\* TFTPPut had no answer to it.
Unanswered ==
    us[1].st = "failed" /\ us[1].block = 1 /\ us[1].tries = 0 /\ faults > 0

\* The switch has sent its request, and works with no session of ours yet.
Opened == {s \in Sessions : us[s].st # "none"}
Asking ==
    /\ peer.st = "asking"
    /\ peer.tries <= faults /\ (net = {} => peer.tries + 1 <= faults)
    /\ \A s \in Opened : /\ us[s].st = "wait" /\ us[s].block = 1 /\ us[s].tries <= faults
                         /\ net = {} => us[s].tries + 1 <= faults
    /\ \A s \in Sessions \ Opened : us[s].tries = 0
    /\ net \subseteq {Request("us")} \cup {Data("peer", s, 1) : s \in Opened}
    /\ Cardinality(Opened) <= faults + 1
    /\ net = {} \/ Request("us") \in net => Cardinality(Opened) <= faults

Sending == role \in {"put", "rrq"} /\ exists /\ peer.st # "aborted" /\ faults < Retries

Working == \E c \in Sessions : peer.sid = c /\ Going(c)

PutRides == role = "put" /\ Sending => Asked \/ Unanswered \/ Working
RrqRides == role = "rrq" /\ Sending => Asking \/ Working

\* Where a transfer to us is that has met no fault: one datagram is under way.
RequestOut ==
    /\ us[1].block = 1
    /\ \/ /\ role = "get" /\ us[1].st = "asked" /\ peer.st = "idle" /\ net = {Request("peer")}
       \/ /\ role = "wrq" /\ us[1].st = "none" /\ peer.st = "asking" /\ net = {Request("us")}
OpeningOut ==
    /\ role = "wrq" /\ us[1].st = "wait" /\ us[1].block = 1
    /\ peer.st = "asking" /\ net = {Ack("peer", 1, 0)}
BlockOut ==
    /\ us[1].st = "wait" \/ (role = "get" /\ us[1].st = "asked")
    /\ us[1].block = peer.block /\ peer.st = "wait" /\ net = {Data("us", 1, peer.block)}
AckOut ==
    /\ us[1].st \in {"wait", "put", "ok"} /\ us[1].block = peer.block + 1
    /\ peer.st = "wait" /\ net = {Ack("peer", 1, peer.block)}
AllOver == us[1].st \in {"put", "ok"} /\ peer.st = "ok" /\ net = {}

Calm == role \in {"get", "wrq"} /\ faults = 0 =>
    /\ \A s \in Sessions \ {1} : us[s].st = "none"
    /\ RequestOut \/ OpeningOut \/ BlockOut \/ AckOut \/ AllOver

Rides == NetBounded /\ PutRides /\ RrqRides /\ Calm

\* How many there are of fewer, or of one more.
LEMMA Smaller ==
    ASSUME NEW S, IsFiniteSet(S), NEW R, R \subseteq S
    PROVE  IsFiniteSet(R) /\ Cardinality(R) \in Nat /\ Cardinality(S) \in Nat
           /\ Cardinality(R) <= Cardinality(S)
<1>1. R \in SUBSET S
  OBVIOUS
<1>2. QED
  BY <1>1, FS_Subset, FS_CardinalityType

\* What the accounts are made of.
LEMMA Counted ==
    ASSUME Typed, NetBounded, NEW c \in Sessions
    PROVE  IsFiniteSet(Stale(c)) /\ faults \in Nat /\ us[c].tries \in Nat
<1>1. faults \in Nat
  BY DEF Typed
<1>2. us[c].tries \in Nat
  BY DEF Typed
<1>3. Stale(c) \subseteq net
  BY DEF Stale, Concerns
<1>4. QED
  BY <1>1, <1>2, <1>3, Smaller DEF NetBounded

LEMMA OneMore ==
    ASSUME NEW S, IsFiniteSet(S), NEW x, NEW R, R \subseteq S \cup {x}
    PROVE  IsFiniteSet(R) /\ Cardinality(R) \in Nat /\ Cardinality(S) \in Nat
           /\ Cardinality(R) <= Cardinality(S) + 1
<1>1. IsFiniteSet(S \cup {x}) /\ Cardinality(S \cup {x}) <= Cardinality(S) + 1
      /\ Cardinality(S) \in Nat
  <2>1. IsFiniteSet(S \cup {x}) /\ Cardinality(S) \in Nat
        /\ Cardinality(S \cup {x}) = IF x \in S THEN Cardinality(S) ELSE Cardinality(S) + 1
    BY FS_AddElement, FS_CardinalityType
  <2>2. QED
    BY <2>1
<1>2. IsFiniteSet(R) /\ Cardinality(R) \in Nat /\ Cardinality(S \cup {x}) \in Nat
      /\ Cardinality(R) <= Cardinality(S \cup {x})
  BY <1>1, Smaller
<1>3. QED
  BY <1>1, <1>2

LEMMA OneLess ==
    ASSUME NEW S, IsFiniteSet(S), NEW x \in S, NEW R, R \subseteq S \ {x}
    PROVE  IsFiniteSet(R) /\ Cardinality(R) \in Nat /\ Cardinality(S) \in Nat
           /\ Cardinality(R) + 1 <= Cardinality(S)
<1>1. IsFiniteSet(S \ {x}) /\ Cardinality(S \ {x}) = Cardinality(S) - 1 /\ Cardinality(S) \in Nat
  BY FS_RemoveElement, FS_CardinalityType
<1>2. IsFiniteSet(R) /\ Cardinality(R) \in Nat /\ Cardinality(R) <= Cardinality(S \ {x})
  BY <1>1, Smaller
<1>3. QED
  BY <1>1, <1>2

LEMMA OneForAnother ==
    ASSUME NEW S, IsFiniteSet(S), NEW x \in S, NEW y, NEW R, R \subseteq (S \ {x}) \cup {y}
    PROVE  IsFiniteSet(R) /\ Cardinality(R) \in Nat /\ Cardinality(S) \in Nat
           /\ Cardinality(R) <= Cardinality(S)
<1>1. IsFiniteSet(S \ {x}) /\ Cardinality(S \ {x}) = Cardinality(S) - 1 /\ Cardinality(S) \in Nat
  BY FS_RemoveElement, FS_CardinalityType
<1>2. IsFiniteSet(R) /\ Cardinality(R) \in Nat /\ Cardinality(R) <= Cardinality(S \ {x}) + 1
  BY <1>1, OneMore
<1>3. QED
  BY <1>1, <1>2

\* What a datagram that is delivered, or a deadline, does to their number.
LEMMA DeliveryBounded ==
    ASSUME Typed, NetBounded, NEW m, NEW x, NEW out, out \subseteq {x}, Exchange(m, out)
    PROVE  NetBounded'
<1>1. faults \in Nat /\ m \in net
  BY DEF Typed, Exchange
<1>2. CASE net' = (net \ {m}) \cup out /\ UNCHANGED faults
  <2>1. net' \subseteq (net \ {m}) \cup {x}
    BY <1>2
  <2>2. IsFiniteSet(net') /\ Cardinality(net') \in Nat /\ Cardinality(net') <= Cardinality(net)
        /\ Cardinality(net) \in Nat
    BY <1>1, <2>1, OneForAnother DEF NetBounded
  <2>3. QED
    BY <1>1, <1>2, <2>2 DEF NetBounded
<1>3. CASE faults' = faults + 1 /\ net' = net \cup out
  <2>1. net' \subseteq net \cup {x}
    BY <1>3
  <2>2. IsFiniteSet(net') /\ Cardinality(net') \in Nat /\ Cardinality(net') <= Cardinality(net) + 1
        /\ Cardinality(net) \in Nat
    BY <2>1, OneMore DEF NetBounded
  <2>3. QED
    BY <1>1, <1>3, <2>2 DEF NetBounded
<1>4. QED
  BY <1>2, <1>3 DEF Exchange

LEMMA DeadlineBounded ==
    ASSUME Typed, NetBounded, NEW x, NEW out, out \subseteq {x}, WindowCloses(out)
    PROVE  NetBounded'
<1>1. faults \in Nat /\ net' \subseteq net \cup {x}
  BY DEF Typed, WindowCloses
<1>2. IsFiniteSet(net') /\ Cardinality(net') \in Nat /\ Cardinality(net') <= Cardinality(net) + 1
      /\ Cardinality(net) \in Nat
  BY <1>1, OneMore DEF NetBounded
<1>3. CASE net = {} /\ UNCHANGED faults
  <2>1. Cardinality(net) = 0
    BY <1>3, FS_EmptySet
  <2>2. QED
    BY <1>1, <1>2, <1>3, <2>1 DEF NetBounded
<1>4. CASE faults' = faults + 1
  BY <1>1, <1>2, <1>4 DEF NetBounded
<1>5. QED
  BY <1>3, <1>4 DEF WindowCloses

LEMMA FewerBounded ==
    ASSUME Typed, NetBounded, net' \subseteq net, faults' \in {faults, faults + 1}
    PROVE  NetBounded'
<1>1. IsFiniteSet(net') /\ Cardinality(net') \in Nat /\ Cardinality(net') <= Cardinality(net)
      /\ Cardinality(net) \in Nat
  BY Smaller DEF NetBounded
<1>2. QED
  BY <1>1 DEF NetBounded, Typed

\* Every step keeps their number below that of the faults.
LEMMA NetStaysBounded ==
    ASSUME IInv, NetBounded, [Next]_vars
    PROVE  NetBounded'
<1>0. Typed
  BY DEF IInv
<1>1. ASSUME NEW m \in net, ServeLoop(m)
      PROVE  NetBounded'
  BY <1>0, <1>1, DeliveryBounded DEF ServeLoop
<1>2. ASSUME NEW s \in Sessions, NEW m \in net,
             GetReceives(s, m) \/ PutReceives(s, m) \/ RrqReceives(s, m) \/ WrqReceives(s, m)
      PROVE  NetBounded'
  <2>1. \E x : GetOn(us[s], m).out \subseteq {x}
    BY DEF GetOn, Stop, Then
  <2>2. (\E x : Retry(s, us[s]).out \subseteq {x}) /\ (\E x : Advance(s, us[s]).out \subseteq {x})
    BY DEF Retry, Advance, Stop, Then
  <2>3. (\E x : PutOn(s, us[s], m).out \subseteq {x}) /\ (\E x : RrqOn(s, us[s], m).out \subseteq {x})
    BY <2>2 DEF PutOn, RrqOn, Stop, Then
  <2>4. \E x : WrqOn(s, us[s], m).out \subseteq {x}
    BY DEF WrqOn, Stop, Then
  <2>5. QED
    BY <1>0, <1>2, <2>1, <2>3, <2>4, DeliveryBounded
       DEF GetReceives, PutReceives, RrqReceives, WrqReceives
<1>3. ASSUME NEW s \in Sessions, TimesOut(s)
      PROVE  NetBounded'
  <2>1. \E x : OnTimeout(s, us[s]).out \subseteq {x}
    BY DEF OnTimeout, Retry, Stop, Then
  <2>2. QED
    BY <1>0, <1>3, <2>1, DeadlineBounded DEF TimesOut
<1>4. ASSUME NEW s \in Sessions, StorePut(s)
      PROVE  NetBounded'
  BY <1>0, <1>4, FewerBounded DEF StorePut
<1>5. ASSUME NEW m \in net, PeerIsAsked(m) \/ PeerTakesData(m) \/ PeerIsRefused(m)
      PROVE  NetBounded'
  <2>1. \E out : Exchange(m, out) /\ \E x : out \subseteq {x}
    <3>1. CASE PeerIsAsked(m)
      BY <3>1 DEF PeerIsAsked
    <3>2. CASE PeerTakesData(m)
      BY <3>2 DEF PeerTakesData
    <3>3. CASE PeerIsRefused(m)
      BY <3>3 DEF PeerIsRefused
    <3>4. QED
      BY <1>5, <3>1, <3>2, <3>3
  <2>2. QED
    BY <1>0, <2>1, DeliveryBounded
<1>6. ASSUME NEW m \in net, PeerIsAcknowledged(m)
      PROVE  NetBounded'
  <2>1. {Data("us", m.sid, i) : i \in {peer.block + 1} \cap 1..size}
          \subseteq {Data("us", m.sid, peer.block + 1)}
    OBVIOUS
  <2>2. \/ Exchange(m, {Data("us", m.sid, 1)})
        \/ Exchange(m, {Data("us", m.sid, i) : i \in {peer.block + 1} \cap 1..size})
        \/ Exchange(m, {})
        \/ Exchange(m, {Data("us", m.sid, peer.block)})
    BY <1>6 DEF PeerIsAcknowledged
  <2>3. \A x : \A out : out \subseteq {x} /\ Exchange(m, out) => NetBounded'
    BY <1>0, DeliveryBounded
  <2>4. {} \subseteq {m}
    OBVIOUS
  <2>5. QED
    BY <2>1, <2>2, <2>3, <2>4
<1>7. CASE PeerTimesOut
  BY <1>0, <1>7, DeadlineBounded DEF PeerTimesOut
<1>8. CASE PeerAborts
  <2>1. net' \subseteq net \cup {Error("us", peer.sid)} /\ faults' = faults + 1 /\ faults \in Nat
    BY <1>0, <1>8 DEF PeerAborts, Typed
  <2>2. IsFiniteSet(net') /\ Cardinality(net') \in Nat /\ Cardinality(net') <= Cardinality(net) + 1
        /\ Cardinality(net) \in Nat
    BY <2>1, OneMore DEF NetBounded
  <2>3. QED
    BY <2>1, <2>2 DEF NetBounded
<1>9. ASSUME NEW m \in net, Lose(m) \/ Discard(m)
      PROVE  NetBounded'
  BY <1>0, <1>9, FewerBounded DEF Lose, Discard
<1>10. CASE UNCHANGED vars
  BY <1>0, <1>10, FewerBounded DEF vars
<1>11. QED
  BY <1>1, <1>2, <1>3, <1>4, <1>5, <1>6, <1>7, <1>8, <1>9, <1>10
     DEF Next, OurStep, PeerStep, Done

\* What every step leaves as it is, and that a fault is never taken back.
LEMMA FaultsGrow ==
    ASSUME Typed, [Next]_vars
    PROVE  /\ faults \in Nat /\ faults' \in {faults, faults + 1}
           /\ role' = role /\ size' = size /\ exists' = exists
<1>1. faults \in Nat
  BY DEF Typed
<1> DEFINE Kept == /\ faults' \in {faults, faults + 1}
                   /\ role' = role /\ size' = size /\ exists' = exists
<1>2. ASSUME NEW m, NEW out, Exchange(m, out)
      PROVE  faults' \in {faults, faults + 1}
  BY <1>2 DEF Exchange
<1>3. ASSUME NEW out, WindowCloses(out)
      PROVE  faults' \in {faults, faults + 1}
  BY <1>3 DEF WindowCloses
<1>4. OurStep => Kept
  BY <1>2, <1>3
     DEF OurStep, ServeLoop, GetReceives, PutReceives, RrqReceives, WrqReceives, TimesOut, StorePut,
         Enter, Unaffected
<1>5. ASSUME PeerStep
      PROVE  Kept
  <2>1. CASE PeerTimesOut
    BY <1>3, <2>1 DEF PeerTimesOut, PeerEnters, Unaffected
  <2>2. ASSUME NEW m \in net,
               PeerIsAsked(m) \/ PeerTakesData(m) \/ PeerIsAcknowledged(m) \/ PeerIsRefused(m)
        PROVE  (\E out : Exchange(m, out)) /\ Unaffected
    <3>1. PeerIsAsked(m) => (\E out : Exchange(m, out)) /\ Unaffected
      BY DEF PeerIsAsked, PeerEnters
    <3>2. PeerTakesData(m) => (\E out : Exchange(m, out)) /\ Unaffected
      BY DEF PeerTakesData, PeerEnters
    <3>3. PeerIsAcknowledged(m) => (\E out : Exchange(m, out)) /\ Unaffected
      BY DEF PeerIsAcknowledged, PeerEnters
    <3>4. PeerIsRefused(m) => (\E out : Exchange(m, out)) /\ Unaffected
      BY DEF PeerIsRefused, PeerEnters
    <3>5. QED
      BY <2>2, <3>1, <3>2, <3>3, <3>4
  <2>3. QED
    BY <1>2, <1>5, <2>1, <2>2 DEF PeerStep, Unaffected
<1>6. PeerAborts => Kept
  BY DEF PeerAborts, PeerEnters, Unaffected
<1>7. \A m \in net : Lose(m) \/ Discard(m) => Kept
  BY DEF Lose, Discard, Unaffected
<1>8. UNCHANGED vars => Kept
  BY DEF vars
<1>9. QED
  BY <1>1, <1>4, <1>5, <1>6, <1>7, <1>8 DEF Next, Done
-----------------------------------------------------------------------------
(* A receiver and no fault *)

\* What a datagram says of itself.
LEMMA DatagramSays ==
    ASSUME NEW to, NEW s, NEW i
    PROVE  /\ Request(to).kind = "REQ" /\ Request(to).to = to /\ Request(to).sid = 0
           /\ Data(to, s, i).kind = "DATA" /\ Data(to, s, i).to = to /\ Data(to, s, i).sid = s
           /\ Data(to, s, i).n = BlockNo(i) /\ Data(to, s, i).chunk = i
           /\ Ack(to, s, i).kind = "ACK" /\ Ack(to, s, i).to = to /\ Ack(to, s, i).sid = s
           /\ Ack(to, s, i).n = i /\ Ack(to, s, i).chunk = 0
BY DEF Request, Data, Ack, Datagram

\* With one datagram under way, and without a fault, a step is the delivery
\* of that datagram.
LEMMA OnlyDelivery ==
    ASSUME Typed, NEW m, NEW out, Exchange(m, out), faults = 0, faults' = 0
    PROVE  m \in net /\ net' = (net \ {m}) \cup out
<1>1. 0 + 1 # 0
  OBVIOUS
<1>2. QED
  BY <1>1 DEF Exchange

LEMMA NoDeadline ==
    ASSUME NEW out, WindowCloses(out), faults = 0, faults' = 0
    PROVE  net = {}
<1>1. 0 + 1 # 0
  OBVIOUS
<1>2. QED
  BY <1>1 DEF WindowCloses

\* The steps that are left.
LEMMA CalmSteps ==
    ASSUME IInv, Calm, role \in {"get", "wrq"}, faults = 0, faults' = 0, [Next]_vars
    PROVE  \/ StorePut(1)
           \/ \E m \in net : \/ ServeLoop(m) \/ GetReceives(1, m) \/ WrqReceives(1, m)
                             \/ PeerIsAsked(m) \/ PeerTakesData(m) \/ PeerIsAcknowledged(m)
                             \/ PeerIsRefused(m) \/ Discard(m)
           \/ UNCHANGED vars
<1>1. /\ \A s \in Sessions \ {1} : us[s].st = "none"
      /\ RequestOut \/ OpeningOut \/ BlockOut \/ AckOut \/ AllOver
  BY DEF Calm
<1>2. net # {} \/ (us[1].st \in {"put", "ok"} /\ peer.st = "ok")
  BY <1>1 DEF RequestOut, OpeningOut, BlockOut, AckOut, AllOver
<1>3. 0 + 1 # 0
  OBVIOUS
<1>4. ~PeerAborts /\ \A m \in net : ~Lose(m)
  BY <1>3 DEF PeerAborts, Lose
<1>5. ~PeerTimesOut
  <2>1. PeerTimesOut => net = {}
    BY NoDeadline DEF PeerTimesOut
  <2>2. QED
    BY <1>2, <2>1 DEF PeerTimesOut
<1>6. ASSUME NEW s \in Sessions
      PROVE  ~TimesOut(s)
  <2>1. TimesOut(s) => net = {}
    BY NoDeadline DEF TimesOut
  <2>2. QED
    BY <1>1, <1>2, <2>1 DEF TimesOut, Reading
<1>7. ASSUME NEW s \in Sessions, s # 1
      PROVE  ~StorePut(s) /\ \A m : ~GetReceives(s, m) /\ ~WrqReceives(s, m)
  BY <1>1, <1>7 DEF StorePut, GetReceives, WrqReceives, Mine, Reading
<1>8. \A s, m : ~PutReceives(s, m) /\ ~RrqReceives(s, m)
  BY DEF PutReceives, RrqReceives
<1>9. QED
  BY <1>4, <1>5, <1>6, <1>7, <1>8 DEF Next, OurStep, PeerStep, Done

\* The request is answered by the first block, or by an acknowledgement.
LEMMA RequestAnswered ==
    ASSUME IInv, RequestOut, \A s \in Sessions \ {1} : us[s].st = "none", 
           faults = 0, faults' = 0, NEW m \in net,
           \/ ServeLoop(m) \/ GetReceives(1, m) \/ WrqReceives(1, m)
           \/ PeerIsAsked(m) \/ PeerTakesData(m) \/ PeerIsAcknowledged(m)
           \/ PeerIsRefused(m) \/ Discard(m)
    PROVE  (\A s \in Sessions \ {1} : us'[s].st = "none") /\ (BlockOut \/ OpeningOut)'
<1>1. Typed /\ us \in [Sessions -> SessionType] /\ 1 \in Sessions /\ \A s \in Sessions : 1 <= s
  BY TftpAssumption DEF IInv, Typed, SessionType, Sessions
<1>2. CASE role = "get"
  <2>1. m = Request("peer") /\ net = {m} /\ us[1].st = "asked" /\ us[1].block = 1 /\ peer.st = "idle"
    BY <1>2 DEF RequestOut
  <2>2. m.kind = "REQ" /\ m.to = "peer"
    BY <2>1, DatagramSays
  <2>3. PeerUses(m)
    BY <1>1, <2>1, <2>2, PeerKnown DEF PeerUses
  <2>4. PeerIsAsked(m)
    BY <1>2, <2>2, <2>3
       DEF ServeLoop, Serving, GetReceives, WrqReceives, Mine, PeerTakesData, PeerIsAcknowledged,
           PeerIsRefused, Discard
  <2>5. net' = {Data("us", 1, 1)}
    <3>1. Exchange(m, {Data("us", 1, 1)})
      BY <1>2, <2>4 DEF PeerIsAsked, PeerReceiving
    <3>2. QED
      BY <1>1, <2>1, <3>1, OnlyDelivery
  <2>6. us' = us /\ role' = role /\ peer'.st = "wait" /\ peer'.block = 1
    BY <2>4 DEF PeerIsAsked, PeerEnters, PeerAt, Unaffected
  <2>7. QED
    BY <1>2, <2>1, <2>5, <2>6 DEF BlockOut
<1>3. CASE role = "wrq"
  <2>1. m = Request("us") /\ net = {m} /\ us[1].st = "none" /\ us[1].block = 1 /\ peer.st = "asking"
    BY <1>3 DEF RequestOut
  <2>2. m.kind = "REQ" /\ m.to = "us" /\ m.to # "peer"
    BY <2>1, DatagramSays
  <2>3. ServeLoop(m)
    BY <1>3, <2>2
       DEF GetReceives, WrqReceives, Mine, PeerIsAsked, PeerTakesData, PeerIsAcknowledged,
           PeerIsRefused, Discard, PeerUses
  <2>4. 1 \in Unopened
    BY <1>1, <2>1 DEF Unopened
  <2>5. \E s \in Unopened :
            /\ \A t \in Unopened : s <= t
            /\ us' = [us EXCEPT ![s].st = "wait"]
            /\ Exchange(m, {Ack("peer", s, 0)})
    BY <1>3, <2>3, <2>4 DEF ServeLoop
  <2>6. us' = [us EXCEPT ![1].st = "wait"] /\ Exchange(m, {Ack("peer", 1, 0)})
    <3>1. PICK s \in Unopened :
            /\ \A t \in Unopened : s <= t
            /\ us' = [us EXCEPT ![s].st = "wait"]
            /\ Exchange(m, {Ack("peer", s, 0)})
      BY <2>5
    <3>2. s = 1
      BY <1>1, <2>4, <3>1 DEF Unopened, Sessions
    <3>3. QED
      BY <3>1, <3>2
  <2>7. net' = {Ack("peer", 1, 0)}
    BY <1>1, <2>1, <2>6, OnlyDelivery
  <2>8. us'[1].st = "wait" /\ us'[1].block = 1 /\ \A s \in Sessions \ {1} : us'[s].st = "none"
    BY <1>1, <2>1, <2>6 DEF SessionType
  <2>9. peer' = peer /\ role' = role
    BY <2>3 DEF ServeLoop, Unaffected
  <2>10. QED
    BY <1>3, <2>1, <2>7, <2>8, <2>9 DEF OpeningOut
<1>4. QED
  BY <1>2, <1>3 DEF RequestOut

\* The acknowledgement of the request is answered by the first block.
LEMMA OpeningAnswered ==
    ASSUME IInv, OpeningOut, faults = 0, faults' = 0, NEW m \in net,
           \/ ServeLoop(m) \/ GetReceives(1, m) \/ WrqReceives(1, m)
           \/ PeerIsAsked(m) \/ PeerTakesData(m) \/ PeerIsAcknowledged(m)
           \/ PeerIsRefused(m) \/ Discard(m)
    PROVE  us' = us /\ BlockOut'
<1>1. m = Ack("peer", 1, 0) /\ net = {m} /\ us[1].st = "wait" /\ us[1].block = 1
      /\ peer.st = "asking" /\ role = "wrq"
  BY DEF OpeningOut
<1>2. m.kind = "ACK" /\ m.to = "peer" /\ m.sid = 1 /\ m # Request("us")
  BY <1>1, DatagramSays
<1>3. PeerUses(m)
  BY <1>1, <1>2, PeerKnown DEF PeerUses
<1>4. PeerIsAcknowledged(m)
  BY <1>2, <1>3
     DEF ServeLoop, GetReceives, WrqReceives, Mine, PeerIsAsked, PeerTakesData, PeerIsRefused, Discard
<1>5. PeerEnters(PeerAt("wait", 1, <<>>, 0, m.sid)) /\ Exchange(m, {Data("us", m.sid, 1)})
  BY <1>1, <1>4 DEF PeerIsAcknowledged
<1>6. net' = {Data("us", 1, 1)}
  BY <1>1, <1>2, <1>5, PeerKnown, OnlyDelivery
<1>7. us' = us /\ peer'.st = "wait" /\ peer'.block = 1
  BY <1>5 DEF PeerEnters, PeerAt
<1>8. QED
  BY <1>1, <1>6, <1>7 DEF BlockOut

\* A block is acknowledged.
LEMMA BlockAnswered ==
    ASSUME IInv, BlockOut, role \in {"get", "wrq"}, faults = 0, faults' = 0, NEW m \in net,
           \/ ServeLoop(m) \/ GetReceives(1, m) \/ WrqReceives(1, m)
           \/ PeerIsAsked(m) \/ PeerTakesData(m) \/ PeerIsAcknowledged(m)
           \/ PeerIsRefused(m) \/ Discard(m)
    PROVE  (\A s \in Sessions \ {1} : us'[s] = us[s]) /\ AckOut'
<1>0. 1 \in Sessions
  BY TftpAssumption DEF Sessions
<1>1. m = Data("us", 1, peer.block) /\ net = {m} /\ us[1].st \in {"asked", "wait"}
      /\ us[1].block = peer.block /\ peer.st = "wait"
  BY DEF BlockOut
<1>2. m.kind = "DATA" /\ m.to = "us" /\ m.to # "peer" /\ m.sid = 1 /\ m # Request("us")
      /\ m.n = BlockNo(peer.block) /\ m.chunk = peer.block
  BY <1>1, DatagramSays
<1>3. Reading(1) /\ Typed /\ us \in [Sessions -> SessionType]
  BY <1>1, PeerKnown DEF Reading, Typed, SessionType
<1>4. BlockNo(peer.block) = peer.block /\ peer.block \in Nat
  BY <1>1, PeerKnown, NoWrap
<1>5. ASSUME NEW st \in {"put", "ok"}, us' = [us EXCEPT ![1] = Keep(us[1], m, st)],
             Exchange(m, {Ack("peer", 1, m.n)}), peer' = peer
      PROVE  (\A s \in Sessions \ {1} : us'[s] = us[s]) /\ AckOut'
  <2>1. us'[1].st \in {"wait", "put", "ok"} /\ us'[1].block = peer.block + 1
        /\ \A s \in Sessions \ {1} : us'[s] = us[s]
    BY <1>0, <1>1, <1>3, <1>5 DEF Keep, At
  <2>2. net' = {Ack("peer", 1, peer.block)}
    BY <1>1, <1>2, <1>3, <1>4, <1>5, OnlyDelivery
  <2>3. QED
    BY <1>1, <1>5, <2>1, <2>2 DEF AckOut
<1>6. CASE GetReceives(1, m)
  <2>1. GetOn(us[1], m) = [next |-> Keep(us[1], m, "ok"), out |-> {Ack("peer", 1, m.n)}]
    BY <1>1, <1>2 DEF GetOn, Then
  <2>2. us' = [us EXCEPT ![1] = Keep(us[1], m, "ok")] /\ peer' = peer
        /\ Exchange(m, {Ack("peer", 1, m.n)})
    BY <1>6, <2>1 DEF GetReceives, Enter
  <2>3. QED
    BY <1>5, <2>2
<1>7. CASE WrqReceives(1, m)
  <2>1. /\ WrqOn(1, us[1], m).next = Keep(us[1], m, "put")
        /\ WrqOn(1, us[1], m).out = {Ack("peer", 1, m.n)}
    BY <1>1, <1>2 DEF WrqOn, Then
  <2>2. us' = [us EXCEPT ![1] = Keep(us[1], m, "put")] /\ peer' = peer
        /\ Exchange(m, {Ack("peer", 1, m.n)})
    BY <1>7, <2>1 DEF WrqReceives, Enter
  <2>3. QED
    BY <1>5, <2>2
<1>8. QED
  BY <1>2, <1>3, <1>6, <1>7
     DEF ServeLoop, PeerIsAsked, PeerTakesData, PeerIsAcknowledged, PeerIsRefused, PeerUses, Discard

\* An acknowledgement is answered by the next block, unless it is the last.
LEMMA AckAnswered ==
    ASSUME IInv, AckOut, role \in {"get", "wrq"}, faults = 0, faults' = 0, NEW m \in net,
           \/ ServeLoop(m) \/ GetReceives(1, m) \/ WrqReceives(1, m)
           \/ PeerIsAsked(m) \/ PeerTakesData(m) \/ PeerIsAcknowledged(m)
           \/ PeerIsRefused(m) \/ Discard(m)
    PROVE  us' = us /\ (BlockOut \/ AllOver)'
<1>0. 1 \in Sessions
  BY TftpAssumption DEF Sessions
<1>1. m = Ack("peer", 1, peer.block) /\ net = {m} /\ us[1].st \in {"wait", "put", "ok"}
      /\ us[1].block = peer.block + 1 /\ peer.st = "wait"
  BY DEF AckOut
<1>2. m.kind = "ACK" /\ m.to = "peer" /\ m.sid = 1 /\ m # Request("us") /\ m.n = peer.block
  BY <1>1, DatagramSays
<1>3. BlockNo(peer.block) = peer.block /\ peer.block \in 1..size /\ size \in Nat
  BY <1>1, PeerKnown, NoWrap
<1>4. ~PeerReceiving /\ Lockstep /\ Held
  BY DEF IInv, PeerReceiving
<1>5. peer.sid = 1
  BY <1>0, <1>1, <1>3, <1>4 DEF Lockstep
<1>6. PeerUses(m)
  BY <1>1, <1>2, <1>5 DEF PeerUses
<1>7. PeerIsAcknowledged(m)
  BY <1>2, <1>6
     DEF ServeLoop, GetReceives, WrqReceives, Mine, PeerIsAsked, PeerTakesData, PeerIsRefused, Discard
<1>8. /\ PeerEnters(IF peer.block = size THEN [peer EXCEPT !.st = "ok"]
                    ELSE PeerAt("wait", peer.block + 1, <<>>, 0, m.sid))
      /\ Exchange(m, {Data("us", m.sid, i) : i \in {peer.block + 1} \cap 1..size})
  BY <1>1, <1>2, <1>3, <1>7 DEF PeerIsAcknowledged
<1>9. net' = {Data("us", 1, i) : i \in {peer.block + 1} \cap 1..size} /\ us' = us
  BY <1>1, <1>2, <1>8, PeerKnown, OnlyDelivery DEF PeerEnters
<1>10. CASE peer.block = size
  <2>1. net' = {}
    BY <1>3, <1>9, <1>10
  <2>2. peer'.st = "ok"
    BY <1>8, <1>10, PeerKnown DEF PeerEnters, PeerType
  <2>3. us[1].st \in {"put", "ok"}
    BY <1>0, <1>1, <1>4, <1>10 DEF Held
  <2>4. QED
    BY <1>9, <2>1, <2>2, <2>3 DEF AllOver
<1>11. CASE peer.block # size
  <2>1. net' = {Data("us", 1, peer.block + 1)}
    BY <1>3, <1>9, <1>11
  <2>2. peer'.st = "wait" /\ peer'.block = peer.block + 1
    BY <1>8, <1>11 DEF PeerEnters, PeerAt
  <2>3. us[1].st = "wait"
    BY <1>0, <1>1, <1>3, <1>4, <1>11 DEF Held
  <2>4. QED
    BY <1>1, <1>9, <2>1, <2>2, <2>3 DEF BlockOut
<1>12. QED
  BY <1>10, <1>11

\* The store is called when it is over, or before the last acknowledgement is read.
LEMMA StorePutCalm ==
    ASSUME IInv, StorePut(1), faults' = 0,
           RequestOut \/ OpeningOut \/ BlockOut \/ AckOut \/ AllOver
    PROVE  (\A s \in Sessions \ {1} : us'[s] = us[s]) /\ (AckOut \/ AllOver)'
<1>1. 1 \in Sessions /\ us \in [Sessions -> SessionType]
  <2>1. Typed /\ 1 \in Sessions
    BY TftpAssumption, PeerKnown DEF Sessions
  <2>2. QED
    BY <2>1 DEF Typed, SessionType
<1>2. us[1].st = "put" /\ us' = [us EXCEPT ![1].st = "ok"] /\ peer' = peer /\ net' = net
  <2>1. faults \in Nat
    BY PeerKnown DEF Typed
  <2>2. faults + 1 # 0
    BY <2>1
  <2>3. QED
    BY <2>2 DEF StorePut
<1>3. us'[1].st = "ok" /\ us'[1].block = us[1].block /\ \A s \in Sessions \ {1} : us'[s] = us[s]
  BY <1>1, <1>2 DEF SessionType
<1>4. QED
  BY <1>2, <1>3 DEF RequestOut, OpeningOut, BlockOut, AckOut, AllOver

LEMMA StaysCalm ==
    ASSUME IInv, Calm, [Next]_vars
    PROVE  Calm'
<1>1. SUFFICES ASSUME role' \in {"get", "wrq"}, faults' = 0
               PROVE  /\ \A s \in Sessions \ {1} : us'[s].st = "none"
                      /\ (RequestOut \/ OpeningOut \/ BlockOut \/ AckOut \/ AllOver)'
  BY DEF Calm
<1>2. role \in {"get", "wrq"} /\ faults = 0
  <2>1. faults \in Nat /\ faults' \in {faults, faults + 1} /\ role' = role
    BY PeerKnown, FaultsGrow
  <2>2. QED
    BY <1>1, <2>1
<1>3. /\ \A s \in Sessions \ {1} : us[s].st = "none"
      /\ RequestOut \/ OpeningOut \/ BlockOut \/ AckOut \/ AllOver
  BY <1>2 DEF Calm
<1>4. CASE StorePut(1)
  BY <1>1, <1>3, <1>4, StorePutCalm
<1>5. CASE UNCHANGED vars
  BY <1>3, <1>5 DEF vars, RequestOut, OpeningOut, BlockOut, AckOut, AllOver
<1>6. ASSUME NEW m \in net,
             \/ ServeLoop(m) \/ GetReceives(1, m) \/ WrqReceives(1, m)
             \/ PeerIsAsked(m) \/ PeerTakesData(m) \/ PeerIsAcknowledged(m)
             \/ PeerIsRefused(m) \/ Discard(m)
      PROVE  /\ \A s \in Sessions \ {1} : us'[s].st = "none"
             /\ (RequestOut \/ OpeningOut \/ BlockOut \/ AckOut \/ AllOver)'
  <2>1. CASE RequestOut
    BY <1>1, <1>2, <1>3, <1>6, <2>1, RequestAnswered
  <2>2. CASE OpeningOut
    BY <1>1, <1>2, <1>3, <1>6, <2>2, OpeningAnswered
  <2>3. CASE BlockOut
    BY <1>1, <1>2, <1>3, <1>6, <2>3, BlockAnswered
  <2>4. CASE AckOut
    BY <1>1, <1>2, <1>3, <1>6, <2>4, AckAnswered
  <2>5. CASE AllOver
    BY <1>6, <2>5 DEF AllOver
  <2>6. QED
    BY <1>3, <2>1, <2>2, <2>3, <2>4, <2>5
<1>7. QED
  BY <1>1, <1>2, <1>4, <1>5, <1>6, CalmSteps
-----------------------------------------------------------------------------
(* A sender: what its session has to be patient with *)

\* A datagram that is not about the current block is answered by the block.
LEMMA AttemptAccounted ==
    ASSUME Typed, Typed', NetBounded, NEW c \in Sessions, Patient(c),
           us'[c].block = us[c].block, us'[c].tries = us[c].tries + 1, role' = role,
           NEW m \in Stale(c), NEW x \in Current(c), Exchange(m, {x})
    PROVE  Patient(c)'
<1>1. Current(c)' = Current(c) /\ x \in net'
  BY DEF Current, Exchange
<1>2. IsFiniteSet(Stale(c)) /\ faults \in Nat /\ us[c].tries \in Nat
  BY Counted
<1>3. CASE net' = (net \ {m}) \cup {x} /\ UNCHANGED faults
  <2>1. Stale(c)' \subseteq Stale(c) \ {m}
    BY <1>1, <1>3 DEF Stale, Concerns
  <2>2. Cardinality(Stale(c)') \in Nat /\ Cardinality(Stale(c)) \in Nat
        /\ Cardinality(Stale(c)') + 1 <= Cardinality(Stale(c))
    BY <1>2, <2>1, OneLess
  <2>3. QED
    BY <1>1, <1>2, <1>3, <2>2 DEF Patient
<1>4. CASE faults' = faults + 1 /\ net' = net \cup {x}
  <2>1. Stale(c)' \subseteq Stale(c)
    BY <1>1, <1>4 DEF Stale, Concerns
  <2>2. Cardinality(Stale(c)') \in Nat /\ Cardinality(Stale(c)) \in Nat
        /\ Cardinality(Stale(c)') <= Cardinality(Stale(c))
    BY <1>2, <2>1, Smaller
  <2>3. QED
    BY <1>1, <1>2, <1>4, <2>2 DEF Patient
<1>5. QED
  BY <1>3, <1>4 DEF Exchange

\* The switch answers a datagram, one about the current block by another.
LEMMA AnswerAccounted ==
    ASSUME Typed, Typed', NetBounded, NEW c \in Sessions, Patient(c), us' = us, role' = role,
           NEW m \in Concerns(c), NEW x, m \in Current(c) => x \in Current(c), Exchange(m, {x})
    PROVE  Patient(c)'
<1>1. Current(c)' = Current(c) /\ x \in net'
  BY DEF Current, Exchange
<1>2. IsFiniteSet(Stale(c)) /\ faults \in Nat /\ us[c].tries \in Nat
  BY Counted
<1>3. CASE net' = (net \ {m}) \cup {x} /\ UNCHANGED faults
  <2>1. Cardinality(Stale(c)') \in Nat /\ Cardinality(Stale(c)) \in Nat
        /\ Cardinality(Stale(c)') <= Cardinality(Stale(c))
    <3>1. CASE m \in Current(c)
      <4>1. Stale(c)' \subseteq Stale(c)
        BY <1>1, <1>3, <3>1 DEF Stale, Concerns
      <4>2. QED
        BY <1>2, <4>1, Smaller
    <3>2. CASE m \notin Current(c)
      <4>1. m \in Stale(c) /\ Stale(c)' \subseteq (Stale(c) \ {m}) \cup {x}
        BY <1>1, <1>3, <3>2 DEF Stale, Concerns
      <4>2. \A R : R \subseteq (Stale(c) \ {m}) \cup {x} =>
                    /\ Cardinality(R) \in Nat /\ Cardinality(Stale(c)) \in Nat
                    /\ Cardinality(R) <= Cardinality(Stale(c))
        BY <1>2, <4>1, OneForAnother
      <4>3. QED
        BY <4>1, <4>2
    <3>3. QED
      BY <3>1, <3>2
  <2>2. net' \cap Current(c)' = {} => net \cap Current(c) = {}
    BY <1>1, <1>3
  <2>3. QED
    BY <1>1, <1>2, <1>3, <2>1, <2>2 DEF Patient
<1>4. CASE faults' = faults + 1 /\ net' = net \cup {x}
  <2>1. Stale(c)' \subseteq Stale(c) \cup {x}
    BY <1>1, <1>4 DEF Stale, Concerns
  <2>2. Cardinality(Stale(c)') \in Nat /\ Cardinality(Stale(c)) \in Nat
        /\ Cardinality(Stale(c)') <= Cardinality(Stale(c)) + 1
    BY <1>2, <2>1, OneMore
  <2>3. net' \cap Current(c)' = {} => net \cap Current(c) = {}
    BY <1>1, <1>4
  <2>4. QED
    BY <1>1, <1>2, <1>4, <2>2, <2>3 DEF Patient
<1>5. QED
  BY <1>3, <1>4 DEF Exchange

\* A deadline of the session: the block is sent again.
LEMMA DeadlineAccounted ==
    ASSUME Typed, Typed', NetBounded, NEW c \in Sessions, Patient(c),
           us'[c].block = us[c].block, us'[c].tries = us[c].tries + 1, role' = role,
           NEW x \in Current(c), WindowCloses({x})
    PROVE  Patient(c)'
<1>1. Current(c)' = Current(c) /\ x \in net'
  BY DEF Current, WindowCloses
<1>2. IsFiniteSet(Stale(c)) /\ faults \in Nat /\ us[c].tries \in Nat
  BY Counted
<1>3. Stale(c)' \subseteq Stale(c)
  BY <1>1 DEF Stale, Concerns, WindowCloses
<1>4. Cardinality(Stale(c)') \in Nat /\ Cardinality(Stale(c)) \in Nat
      /\ Cardinality(Stale(c)') <= Cardinality(Stale(c))
  BY <1>2, <1>3, Smaller
<1>5. CASE net = {} /\ UNCHANGED faults
  <2>1. Stale(c) = {} /\ net \cap Current(c) = {}
    BY <1>5 DEF Stale, Concerns
  <2>2. Cardinality(Stale(c)) = 0
    BY <2>1, FS_EmptySet
  <2>3. QED
    BY <1>1, <1>2, <1>4, <1>5, <2>1, <2>2 DEF Patient
<1>6. CASE faults' = faults + 1
  BY <1>1, <1>2, <1>4, <1>6 DEF Patient
<1>7. QED
  BY <1>5, <1>6 DEF WindowCloses

\* A deadline of the switch: it sends something again.
LEMMA RepetitionAccounted ==
    ASSUME Typed, Typed', NetBounded, NEW c \in Sessions, Patient(c), us' = us, role' = role,
           NEW x, WindowCloses({x})
    PROVE  Patient(c)'
<1>1. Current(c)' = Current(c) /\ net' = net \cup {x}
  BY DEF Current, WindowCloses
<1>2. IsFiniteSet(Stale(c)) /\ faults \in Nat /\ us[c].tries \in Nat
  BY Counted
<1>3. Stale(c)' \subseteq Stale(c) \cup {x} /\ (net' \cap Current(c)' = {} => net \cap Current(c) = {})
  BY <1>1 DEF Stale, Concerns
<1>4. Cardinality(Stale(c)') \in Nat /\ Cardinality(Stale(c)) \in Nat
      /\ Cardinality(Stale(c)') <= Cardinality(Stale(c)) + 1
  BY <1>2, <1>3, OneMore
<1>5. CASE net = {} /\ UNCHANGED faults
  <2>1. Stale(c) = {} /\ net \cap Current(c) = {}
    BY <1>5 DEF Stale, Concerns
  <2>2. Cardinality(Stale(c)) = 0
    BY <2>1, FS_EmptySet
  <2>3. QED
    BY <1>1, <1>2, <1>4, <1>5, <2>1, <2>2 DEF Patient
<1>6. CASE faults' = faults + 1
  BY <1>1, <1>2, <1>3, <1>4, <1>6 DEF Patient
<1>7. QED
  BY <1>5, <1>6 DEF WindowCloses

\* A datagram is lost.
LEMMA LossAccounted ==
    ASSUME Typed, Typed', NetBounded, NEW c \in Sessions, Patient(c), us' = us, role' = role,
           net' \subseteq net, faults' = faults + 1
    PROVE  Patient(c)'
<1>1. Current(c)' = Current(c)
  BY DEF Current
<1>2. IsFiniteSet(Stale(c)) /\ faults \in Nat /\ us[c].tries \in Nat
  BY Counted
<1>3. Stale(c)' \subseteq Stale(c)
  BY <1>1 DEF Stale, Concerns
<1>4. Cardinality(Stale(c)') \in Nat /\ Cardinality(Stale(c)) \in Nat
      /\ Cardinality(Stale(c)') <= Cardinality(Stale(c))
  BY <1>2, <1>3, Smaller
<1>5. QED
  BY <1>1, <1>2, <1>4 DEF Patient

\* Nothing happens that concerns the session, but that a stale datagram goes.
LEMMA NothingToAccount ==
    ASSUME Typed, Typed', NetBounded, NEW c \in Sessions, Patient(c), us'[c] = us[c], role' = role,
           Concerns(c)' \subseteq Concerns(c), Current(c) \cap net \subseteq net',
           faults' \in {faults, faults + 1}
    PROVE  Patient(c)'
<1>1. Current(c)' = Current(c)
  BY DEF Current
<1>2. IsFiniteSet(Stale(c)) /\ faults \in Nat /\ us[c].tries \in Nat
  BY Counted
<1>3. Stale(c)' \subseteq Stale(c)
  BY <1>1 DEF Stale
<1>4. Cardinality(Stale(c)') \in Nat /\ Cardinality(Stale(c)) \in Nat
      /\ Cardinality(Stale(c)') <= Cardinality(Stale(c))
  BY <1>2, <1>3, Smaller
<1>5. net' \cap Current(c)' = {} => net \cap Current(c) = {}
  BY <1>1
<1>6. QED
  BY <1>1, <1>2, <1>4, <1>5 DEF Patient

\* With the next block under way the account is opened afresh.
LEMMA FreshAccount ==
    ASSUME Typed', NetBounded', NEW c \in Sessions, us'[c].tries = 0,
           Data("peer", c, us'[c].block) \in net'
    PROVE  Patient(c)'
<1>1. Stale(c)' \subseteq net' \ {Data("peer", c, us'[c].block)}
  BY DEF Stale, Concerns, Current
<1>2. Cardinality(Stale(c)') \in Nat /\ Cardinality(net') \in Nat
      /\ Cardinality(Stale(c)') + 1 <= Cardinality(net')
  BY <1>1, OneLess DEF NetBounded
<1>3. QED
  BY <1>2 DEF NetBounded, Patient, Typed, Current
-----------------------------------------------------------------------------
(* A sender at work: each step of the two sides and of the network *)

\* What is under way of a sender.
LEMMA SenderWire ==
    ASSUME IInv, PeerReceiving, NEW m \in net, m.kind # "ERROR"
    PROVE  /\ m.kind \in {"REQ", "DATA", "ACK"}
           /\ m.kind = "REQ" => m = Request(IF role = "rrq" THEN "us" ELSE "peer")
           /\ m.kind = "DATA" =>
                /\ m.to = "peer" /\ m.sid \in Sessions /\ m.chunk \in 1..size /\ m.n = m.chunk
                /\ m.chunk <= us[m.sid].block
           /\ m.kind = "ACK" => /\ m.to = "us" /\ m.sid \in Sessions /\ m.n \in Nat
                                /\ m.n < peer.block /\ (m.n # 0 => m.sid = peer.sid)
<1>1. Typed /\ Wire
  BY DEF IInv
<1>2. m.kind \in {"REQ", "DATA", "ACK"} /\ m.n \in Nat
  BY <1>1 DEF Typed, Datagrams
<1>3. Serving <=> role = "rrq"
  BY DEF Serving, PeerReceiving
<1>4. QED
  BY <1>1, <1>2, <1>3 DEF Wire

\* What is known of a sender at work.
LEMMA AtWork ==
    ASSUME IInv, Sending, NEW c \in Sessions, peer.sid = c, Going(c)
    PROVE  /\ Typed /\ PeerReceiving /\ exists /\ faults \in Nat /\ faults < Retries /\ Retries \in Nat
           /\ us \in [Sessions -> SessionType] /\ peer \in PeerType /\ size \in Nat
           /\ us[c].tries \in Nat /\ us[c].block \in 1..size /\ BlockNo(us[c].block) = us[c].block
           /\ peer.tries \in Nat /\ peer.block \in 1..size + 1
           /\ us[c].st = "ok" => peer.st = "ok"
           /\ peer.st = "ok" <=> peer.block = size + 1
           /\ us[c].block <= peer.block
           /\ role = "put" => c = 1 /\ \A s \in Sessions \ {1} : us[s].st = "none"
<1>1. PeerReceiving /\ exists /\ faults < Retries
  BY DEF Sending, PeerReceiving
<1>2. Typed /\ Held /\ Lockstep /\ Chose
  BY DEF IInv
<1>3. us \in [Sessions -> SessionType] /\ faults \in Nat /\ Retries \in Nat /\ size \in Nat
  BY <1>2, TftpAssumption DEF Typed, SessionType
<1>4. us[c].block \in 1..size /\ BlockNo(us[c].block) = us[c].block /\ us[c].tries \in Nat
  <2>1. us[c].block \in 1..size
    BY <1>1, <1>2 DEF Held
  <2>2. us[c].block \in 0..size
    BY <1>3, <2>1
  <2>3. QED
    BY <1>2, <1>3, <2>1, <2>2, NoWrap DEF SessionType
<1>5. peer \in PeerType /\ peer.tries \in Nat /\ peer.block \in 1..size + 1
  BY PeerKnown DEF PeerType
<1>6. us[c].st = "ok" => peer.st = "ok"
  BY <1>1, <1>2 DEF Lockstep
<1>7. us[c].block <= peer.block /\ (peer.st = "ok" <=> peer.block = size + 1)
  BY <1>1, <1>2 DEF Lockstep, Held
<1>8. role = "put" => c = 1 /\ \A s \in Sessions \ {1} : us[s].st = "none"
  BY <1>2 DEF Chose, Serving, Sessions
<1>9. QED
  BY <1>1, <1>2, <1>3, <1>4, <1>5, <1>6, <1>7, <1>8

\* A retry: the block again, and one more attempt.
LEMMA RetryGoesOn ==
    ASSUME IInv, Sending, NEW c \in Sessions, peer.sid = c, Going(c), us[c].st = "wait",
           us[c].tries + 1 < Retries
    PROVE  /\ Retry(c, us[c]).next \in SessionType
           /\ Retry(c, us[c]).next.st = "wait" /\ Retry(c, us[c]).next.block = us[c].block
           /\ Retry(c, us[c]).next.tries = us[c].tries + 1
           /\ Retry(c, us[c]).out = {Data("peer", c, us[c].block)}
           /\ Data("peer", c, us[c].block) \in Current(c)
<1>1. us[c] \in SessionType
  BY AtWork
<1>2. Retry(c, us[c]) = [next |-> [us[c] EXCEPT !.tries = @ + 1], out |-> {Data("peer", c, us[c].block)}]
  BY DEF Retry, Then
<1>3. us[c].tries + 1 \in 0..Retries
  BY AtWork
<1>4. QED
  BY <1>1, <1>2, <1>3 DEF SessionType, Current

\* An answer to TFTPPut, or to kindRRQ.
LEMMA AnswerRides ==
    ASSUME IInv, IInv', NetBounded, NetBounded', Sending, NEW c \in Sessions, peer.sid = c, Going(c),
           NEW m \in net, PutReceives(c, m) \/ RrqReceives(c, m)
    PROVE  peer'.sid = c /\ Going(c)'
<1>0. Typed /\ Typed' /\ faults \in Nat
  <2>1. Typed
    BY DEF IInv
  <2>2. faults \in Nat
    BY <2>1 DEF Typed
  <2>3. QED
    BY <2>1, <2>2 DEF IInv
<1>1. Reading(c) /\ m.to = "us" /\ m.sid = c /\ m.kind = "ACK" /\ m.n \in Nat
  <2>1. Reading(c) /\ m.to = "us" /\ m.sid = c /\ m.kind # "REQ"
    BY DEF PutReceives, RrqReceives, Mine
  <2>2. QED
    BY <2>1, AtWork, SenderWire DEF Going
<1>2. us[c].st = "wait" /\ Patient(c)
  BY <1>1 DEF Going, Reading
<1>3. \E r : /\ r = (IF Accepted(us[c], m) THEN Advance(c, us[c]) ELSE Retry(c, us[c]))
             /\ us' = [us EXCEPT ![c] = r.next] /\ Exchange(m, r.out)
  BY <1>1, <1>2 DEF PutReceives, RrqReceives, PutOn, RrqOn, Enter
<1>4. peer' = peer /\ role' = role /\ size' = size
  BY DEF PutReceives, RrqReceives, Enter, Unaffected
<1>5. CASE Accepted(us[c], m)
  <2>1. us' = [us EXCEPT ![c] = Advance(c, us[c]).next] /\ Exchange(m, Advance(c, us[c]).out)
    BY <1>3, <1>5
  <2>2. m.n = us[c].block /\ us[c].block < peer.block
    BY <1>1, <1>5, AtWork, SenderWire DEF Accepted
  <2>3. CASE us[c].block = size
    <3>1. Advance(c, us[c]) = [next |-> [us[c] EXCEPT !.st = "ok"], out |-> {}]
      BY <2>3 DEF Advance, Stop, Then
    <3>2. us'[c].st = "ok" /\ net' \subseteq net
      BY <2>1, <3>1, AtWork DEF SessionType, Exchange
    <3>3. peer.st = "ok"
      BY <2>2, <2>3, AtWork
    <3>4. QED
      BY <1>4, <3>2, <3>3 DEF Going, PeerPatient
  <2>4. CASE us[c].block # size
    <3>1. Advance(c, us[c]) = [next |-> At("wait", us[c].block + 1, <<>>, 0),
                               out |-> {Data("peer", c, us[c].block + 1)}]
      BY <2>4 DEF Advance, Then
    <3>2. us'[c].st = "wait" /\ us'[c].block = us[c].block + 1 /\ us'[c].tries = 0
      BY <2>1, <3>1, AtWork DEF At
    <3>3. Data("peer", c, us[c].block + 1) \in net'
          /\ net' \subseteq net \cup {Data("peer", c, us[c].block + 1)}
      BY <2>1, <3>1 DEF Exchange
    <3>4. Patient(c)'
      BY <1>0, <3>2, <3>3, FreshAccount
    <3>5. faults' \in {faults, faults + 1}
      BY <2>1 DEF Exchange
    <3>6. PeerPatient(c)'
      <4>1. peer.st = "wait" => peer.tries <= faults'
        BY <1>0, <3>5, AtWork DEF Going, PeerPatient
      <4>2. \E d \in net' : d.sid = c
        BY <3>3, DatagramSays
      <4>3. QED
        BY <1>4, <4>1, <4>2 DEF PeerPatient
    <3>7. \A d \in net' : d.kind # "ERROR"
      BY <3>3, DatagramSays DEF Going
    <3>8. QED
      BY <1>4, <3>2, <3>4, <3>6, <3>7 DEF Going
  <2>5. QED
    BY <2>3, <2>4
<1>6. CASE ~Accepted(us[c], m)
  <2>1. us' = [us EXCEPT ![c] = Retry(c, us[c]).next] /\ Exchange(m, Retry(c, us[c]).out)
    BY <1>3, <1>6
  <2>2. m \in Stale(c)
    <3>1. m # Data("peer", c, us[c].block) /\ m # Ack("us", c, us[c].block)
      BY <1>1, <1>6, AtWork, DatagramSays DEF Accepted
    <3>2. QED
      BY <1>1, <3>1 DEF Stale, Concerns, Current
  <2>3. us[c].tries + 1 < Retries
    <3>1. IsFiniteSet(Stale(c))
      BY Smaller DEF NetBounded, Stale, Concerns
    <3>2. Cardinality(Stale(c)) \in Nat /\ Cardinality(Stale(c)) # 0
      BY <2>2, <3>1, FS_CardinalityType, FS_EmptySet
    <3>3. QED
      BY <1>2, <3>2, AtWork DEF Patient
  <2>4. QED
    <3>1. us'[c].st = "wait" /\ us'[c].block = us[c].block /\ us'[c].tries = us[c].tries + 1
      BY <1>2, <2>1, <2>3, AtWork, RetryGoesOn
    <3>2. Exchange(m, {Data("peer", c, us[c].block)}) /\ Data("peer", c, us[c].block) \in Current(c)
      BY <1>2, <2>1, <2>3, RetryGoesOn
    <3>3. Patient(c)'
      BY <1>0, <1>2, <1>4, <2>2, <3>1, <3>2, AttemptAccounted
    <3>4. faults' \in {faults, faults + 1} /\ Data("peer", c, us[c].block) \in net'
          /\ net' \subseteq net \cup {Data("peer", c, us[c].block)}
      BY <3>2 DEF Exchange
    <3>5. PeerPatient(c)'
      <4>1. peer.st = "wait" => peer.tries <= faults'
        BY <1>0, <3>4, AtWork DEF Going, PeerPatient
      <4>2. \E d \in net' : d.sid = c
        BY <3>4, DatagramSays
      <4>3. QED
        BY <1>4, <4>1, <4>2 DEF PeerPatient
    <3>6. \A d \in net' : d.kind # "ERROR"
      BY <3>4, DatagramSays DEF Going
    <3>7. QED
      BY <1>4, <3>1, <3>3, <3>5, <3>6 DEF Going
<1>7. QED
  BY <1>5, <1>6

\* A deadline of TFTPPut, or of kindRRQ.
LEMMA DeadlineRides ==
    ASSUME IInv, IInv', NetBounded, Sending, Sending', NEW c \in Sessions, peer.sid = c, Going(c),
           TimesOut(c)
    PROVE  peer'.sid = c /\ Going(c)'
<1>0. Typed /\ Typed' /\ role \in {"put", "rrq"}
  BY DEF IInv, Sending
<1>1. us[c].st = "wait" /\ Patient(c)
  BY DEF Going, TimesOut, Reading
<1>2. OnTimeout(c, us[c]) = Retry(c, us[c])
  BY <1>0, <1>1 DEF OnTimeout
<1>3. us' = [us EXCEPT ![c] = Retry(c, us[c]).next] /\ WindowCloses(Retry(c, us[c]).out)
      /\ peer' = peer /\ role' = role
  BY <1>2 DEF TimesOut, Enter, Unaffected
<1>4. us[c].tries + 1 < Retries
  <2>1. CASE net = {}
    BY <1>1, <2>1, AtWork DEF Patient
  <2>2. CASE faults' = faults + 1
    <3>1. IsFiniteSet(Stale(c))
      BY Smaller DEF NetBounded, Stale, Concerns
    <3>2. Cardinality(Stale(c)) \in Nat
      BY <3>1, FS_CardinalityType
    <3>3. faults' < Retries
      BY DEF Sending
    <3>4. QED
      BY <1>1, <2>2, <3>2, <3>3, AtWork DEF Patient
  <2>3. QED
    BY <1>3, <2>1, <2>2 DEF WindowCloses
<1>5. us'[c].st = "wait" /\ us'[c].block = us[c].block /\ us'[c].tries = us[c].tries + 1
  BY <1>1, <1>3, <1>4, AtWork, RetryGoesOn
<1>6. WindowCloses({Data("peer", c, us[c].block)}) /\ Data("peer", c, us[c].block) \in Current(c)
  BY <1>1, <1>3, <1>4, RetryGoesOn
<1>7. Patient(c)'
  BY <1>0, <1>1, <1>3, <1>5, <1>6, DeadlineAccounted
<1>8. faults' \in {faults, faults + 1} /\ net' = net \cup {Data("peer", c, us[c].block)}
  BY <1>6 DEF WindowCloses
<1>9. PeerPatient(c)'
  <2>1. peer.st = "wait" => peer.tries <= faults'
    BY <1>8, AtWork DEF Going, PeerPatient
  <2>2. \E d \in net' : d.sid = c
    BY <1>8, DatagramSays
  <2>3. QED
    BY <1>3, <2>1, <2>2 DEF PeerPatient
<1>10. \A d \in net' : d.kind # "ERROR"
  BY <1>8, DatagramSays DEF Going
<1>11. QED
  BY <1>3, <1>5, <1>7, <1>9, <1>10 DEF Going
\* A session that the switch does not work with is sent, and sends, what
\* does not concern this one.
LEMMA OtherSessionsRide ==
    ASSUME IInv, IInv', NetBounded, Sending, NEW c \in Sessions, peer.sid = c, Going(c),
           NEW s \in Sessions, s # c,
           \/ \E m \in net : PutReceives(s, m) \/ RrqReceives(s, m)
           \/ TimesOut(s)
    PROVE  peer'.sid = c /\ Going(c)'
<1>0. Typed /\ Typed' /\ role \in {"put", "rrq"}
  BY DEF IInv, Sending
<1>1. Reading(s) /\ role = "rrq"
  <2>1. Reading(s)
    BY DEF PutReceives, RrqReceives, Mine, TimesOut
  <2>2. QED
    BY <1>0, <2>1, AtWork DEF Reading
<1>2. peer' = peer /\ role' = role /\ us'[c] = us[c]
  BY AtWork DEF PutReceives, RrqReceives, TimesOut, Enter, Unaffected
<1>3. ASSUME NEW u, NEW out, out = Retry(s, u).out \/ out = Advance(s, u).out \/ out = {}
      PROVE  \A d \in out : d.sid = s /\ d.kind # "ERROR"
  BY <1>3, DatagramSays DEF Retry, Advance, Stop, Then
<1>4. \E out : /\ \A d \in out : d.sid = s /\ d.kind # "ERROR"
               /\ WindowCloses(out) \/ \E m \in net : m.sid = s /\ Exchange(m, out)
  <2>1. ASSUME NEW m \in net, RrqReceives(s, m)
        PROVE  m.sid = s /\ \E out : Exchange(m, out) /\ \A d \in out : d.sid = s /\ d.kind # "ERROR"
    <3>1. m.sid = s /\ Exchange(m, RrqOn(s, us[s], m).out)
      BY <2>1 DEF RrqReceives, Mine
    <3>2. \/ RrqOn(s, us[s], m).out = Retry(s, us[s]).out
          \/ RrqOn(s, us[s], m).out = Advance(s, us[s]).out
          \/ RrqOn(s, us[s], m).out = {}
      BY DEF RrqOn, Stop, Then
    <3>3. QED
      BY <1>3, <3>1, <3>2
  <2>2. ASSUME TimesOut(s)
        PROVE  \E out : WindowCloses(out) /\ \A d \in out : d.sid = s /\ d.kind # "ERROR"
    <3>1. WindowCloses(OnTimeout(s, us[s]).out)
      BY <2>2 DEF TimesOut
    <3>2. OnTimeout(s, us[s]).out = Retry(s, us[s]).out \/ OnTimeout(s, us[s]).out = {}
      BY <1>1 DEF OnTimeout, Stop, Then
    <3>3. QED
      BY <1>3, <3>1, <3>2
  <2>3. QED
    BY <1>1, <2>1, <2>2 DEF PutReceives
<1>5. /\ {d \in net' : d.sid = c} = {d \in net : d.sid = c}
      /\ \A d \in net' : d.kind # "ERROR"
      /\ faults' \in {faults, faults + 1}
  BY <1>4 DEF Exchange, WindowCloses, Going
<1>6. us[c].st = "wait" => Patient(c)'
  <2>1. Concerns(c)' \subseteq Concerns(c)
    BY <1>1, <1>2, <1>5 DEF Concerns
  <2>2. Current(c) \cap net \subseteq net'
    BY <1>5, DatagramSays DEF Current
  <2>3. QED
    BY <1>0, <1>2, <1>5, <2>1, <2>2, NothingToAccount DEF Going
<1>7. PeerPatient(c)'
  BY <1>2, <1>5, AtWork DEF Going, PeerPatient
<1>8. QED
  BY <1>2, <1>5, <1>6, <1>7 DEF Going

\* So it is with a session that a repeated request opens.
LEMMA RequestsRide ==
    ASSUME IInv, IInv', NetBounded, Sending, NEW c \in Sessions, peer.sid = c, Going(c),
           NEW m \in net, ServeLoop(m)
    PROVE  peer'.sid = c /\ Going(c)'
<1>0. Typed /\ Typed' /\ role = "rrq" /\ exists
  BY DEF IInv, Sending, ServeLoop, Serving
<1>1. m.sid # c /\ peer' = peer /\ role' = role
  BY DatagramSays DEF ServeLoop, Sessions, Unaffected
<1>2. /\ us'[c] = us[c]
      /\ \E out : Exchange(m, out) /\ \A d \in out : d.sid # c /\ d.kind # "ERROR"
  <2>1. CASE Unopened = {}
    BY <2>1 DEF ServeLoop
  <2>2. CASE Unopened # {}
    <3>1. PICK s \in Unopened : /\ us' = [us EXCEPT ![s].st = "wait"]
                                /\ Exchange(m, {Data("peer", s, 1)})
      BY <1>0, <2>2 DEF ServeLoop
    <3>2. s # c
      BY <3>1 DEF Unopened, Going
    <3>3. QED
      BY <3>1, <3>2, AtWork, DatagramSays
  <2>3. QED
    BY <2>1, <2>2
<1>3. /\ {d \in net' : d.sid = c} = {d \in net : d.sid = c}
      /\ \A d \in net' : d.kind # "ERROR"
      /\ faults' \in {faults, faults + 1}
  BY <1>1, <1>2 DEF Exchange, Going
<1>4. us[c].st = "wait" => Patient(c)'
  <2>1. Concerns(c)' \subseteq Concerns(c)
    BY <1>0, <1>1, <1>3 DEF Concerns
  <2>2. Current(c) \cap net \subseteq net'
    BY <1>3, DatagramSays DEF Current
  <2>3. QED
    BY <1>0, <1>1, <1>2, <1>3, <2>1, <2>2, NothingToAccount DEF Going
<1>5. PeerPatient(c)'
  BY <1>1, <1>3, AtWork DEF Going, PeerPatient
<1>6. QED
  BY <1>1, <1>2, <1>3, <1>4, <1>5 DEF Going

\* The switch takes a block, and acknowledges it.
LEMMA PeerTakesDataRides ==
    ASSUME IInv, IInv', NetBounded, Sending, NEW c \in Sessions, peer.sid = c, Going(c),
           NEW m \in net, PeerTakesData(m)
    PROVE  peer'.sid = c /\ Going(c)'
<1>0. Typed /\ Typed'
  BY DEF IInv
<1>1. m.kind = "DATA" /\ m.to = "peer" /\ m.sid = c /\ m.n = m.chunk
  <2>1. m.kind = "DATA" /\ m.to = "peer" /\ peer.sid \in {0, m.sid}
    BY DEF PeerTakesData, PeerUses
  <2>2. QED
    BY <2>1, AtWork, SenderWire DEF Sessions
<1>2. us' = us /\ role' = role /\ Exchange(m, {Ack("us", c, m.n)})
  BY <1>1 DEF PeerTakesData, PeerEnters, Unaffected
<1>3. peer'.sid = c /\ peer'.st \in {"wait", "ok"} /\ (peer'.st = "wait" => peer'.tries <= faults)
  <2>1. \/ peer' = peer
        \/ peer' = PeerAt(IF m.chunk = size THEN "ok" ELSE "wait", peer.block + 1,
                          Append(peer.got, m.chunk), 0, m.sid)
    BY DEF PeerTakesData, PeerEnters
  <2>2. QED
    BY <1>1, <2>1, AtWork DEF PeerAt, Going, PeerPatient
<1>4. Ack("us", c, m.n) \in net' /\ faults' \in {faults, faults + 1}
      /\ net' \subseteq net \cup {Ack("us", c, m.n)}
  BY <1>2 DEF Exchange
<1>5. us[c].st = "wait" => Patient(c)'
  <2>1. m \in Concerns(c)
    BY <1>1 DEF Concerns
  <2>2. m \in Current(c) => Ack("us", c, m.n) \in Current(c)
    BY <1>1, AtWork, DatagramSays DEF Current
  <2>3. QED
    BY <1>0, <1>2, <2>1, <2>2, AnswerAccounted DEF Going
<1>6. PeerPatient(c)'
  <2>1. \E d \in net' : d.sid = c
    BY <1>4, DatagramSays
  <2>2. peer'.st = "wait" => peer'.tries <= faults'
    <3>1. peer'.tries \in Nat
      BY <1>0 DEF Typed
    <3>2. QED
      BY <1>3, <1>4, <3>1, AtWork
  <2>3. QED
    BY <2>1, <2>2 DEF PeerPatient
<1>7. \A d \in net' : d.kind # "ERROR"
  BY <1>4, DatagramSays DEF Going
<1>8. QED
  BY <1>2, <1>3, <1>5, <1>6, <1>7 DEF Going

\* The switch answers the request of TFTPPut again.
LEMMA PeerIsAskedRides ==
    ASSUME IInv, IInv', NetBounded, Sending, NEW c \in Sessions, peer.sid = c, Going(c),
           NEW m \in net, PeerIsAsked(m)
    PROVE  peer'.sid = c /\ Going(c)'
<1>0. Typed /\ Typed' /\ role \in {"put", "rrq"}
  BY DEF IInv, Sending
<1>1. m.kind = "REQ" /\ m.to = "peer" /\ peer.st = "wait" /\ role = "put" /\ c = 1
  <2>1. m.kind = "REQ" /\ m.to = "peer" /\ peer.st \in {"idle", "wait"}
    BY DEF PeerIsAsked, PeerUses
  <2>2. role # "rrq"
    BY <2>1, AtWork, SenderWire, DatagramSays
  <2>3. QED
    BY <1>0, <2>1, <2>2, AtWork DEF Going
<1>2. us' = us /\ role' = role /\ Exchange(m, {Ack("us", 1, 0)})
      /\ peer'.st = "wait" /\ peer'.sid = 1 /\ peer'.tries = peer.tries
  BY AtWork DEF PeerIsAsked, PeerEnters, PeerAt, Unaffected
<1>3. Ack("us", 1, 0) \in net' /\ faults' \in {faults, faults + 1}
      /\ net' \subseteq net \cup {Ack("us", 1, 0)}
  BY <1>2 DEF Exchange
<1>4. us[c].st = "wait" => Patient(c)'
  <2>1. m \in Concerns(c) /\ m \notin Current(c)
    BY <1>1, DatagramSays DEF Concerns, Current
  <2>2. QED
    BY <1>0, <1>2, <2>1, AnswerAccounted DEF Going
<1>5. PeerPatient(c)'
  BY <1>1, <1>2, <1>3, AtWork, DatagramSays DEF PeerPatient, Going
<1>6. \A d \in net' : d.kind # "ERROR"
  BY <1>3, DatagramSays DEF Going
<1>7. QED
  BY <1>1, <1>2, <1>4, <1>5, <1>6 DEF Going

\* A deadline of the switch: it acknowledges again what it took last.
LEMMA PeerTimesOutRides ==
    ASSUME IInv, IInv', NetBounded, Sending, Sending', NEW c \in Sessions, peer.sid = c, Going(c),
           PeerTimesOut
    PROVE  peer'.sid = c /\ Going(c)'
<1>0. Typed /\ Typed'
  BY DEF IInv
<1>1. peer.st = "wait" /\ us' = us /\ role' = role
  BY DEF PeerTimesOut, Going, PeerEnters, Unaffected
<1>2. \E out : WindowCloses(out)
  BY DEF PeerTimesOut
<1>3. peer.tries + 1 <= faults' /\ peer.tries + 1 < Retries /\ faults' \in {faults, faults + 1}
  <2>1. peer.tries <= faults /\ (net = {} => peer.tries + 1 <= faults)
    BY <1>1 DEF Going, PeerPatient
  <2>2. faults' < Retries
    BY DEF Sending
  <2>3. (net = {} /\ faults' = faults) \/ faults' = faults + 1
    BY <1>2 DEF WindowCloses
  <2>4. QED
    BY <2>1, <2>2, <2>3, AtWork
<1>4. WindowCloses({PeerRepeats}) /\ peer' = [peer EXCEPT !.tries = @ + 1]
  BY <1>3 DEF PeerTimesOut, PeerEnters
<1>5. PeerRepeats = Ack("us", c, BlockNo(peer.block - 1))
  BY <1>1, AtWork DEF PeerRepeats
<1>6. peer'.sid = c /\ peer'.st = "wait" /\ peer'.tries = peer.tries + 1
  BY <1>1, <1>4, AtWork DEF PeerType
<1>7. us[c].st = "wait" => Patient(c)'
  BY <1>0, <1>1, <1>4, RepetitionAccounted DEF Going
<1>8. net' = net \cup {PeerRepeats} /\ PeerRepeats.sid = c /\ PeerRepeats.kind # "ERROR"
  BY <1>4, <1>5, DatagramSays DEF WindowCloses
<1>9. PeerPatient(c)'
  BY <1>3, <1>6, <1>8 DEF PeerPatient
<1>10. QED
  BY <1>1, <1>6, <1>7, <1>8, <1>9 DEF Going

\* A datagram is lost, or nobody has a use for it.
LEMMA LosesRide ==
    ASSUME IInv, IInv', NetBounded, Sending, NEW c \in Sessions, peer.sid = c, Going(c),
           NEW m \in net, Lose(m) \/ Discard(m)
    PROVE  peer'.sid = c /\ Going(c)'
<1>0. Typed /\ Typed'
  BY DEF IInv
<1>1. us' = us /\ peer' = peer /\ role' = role /\ net' = net \ {m}
  BY DEF Lose, Discard, Unaffected
<1>2. CASE Lose(m)
  <2>1. faults' = faults + 1
    BY <1>2 DEF Lose
  <2>2. us[c].st = "wait" => Patient(c)'
    BY <1>0, <1>1, <2>1, LossAccounted DEF Going
  <2>3. PeerPatient(c)'
    BY <1>1, <2>1, AtWork DEF Going, PeerPatient
  <2>4. QED
    BY <1>1, <2>2, <2>3 DEF Going
<1>3. CASE Discard(m)
  <2>1. faults' = faults
    BY <1>3 DEF Discard
  <2>2. m.sid # c \/ us[c].st = "ok"
    <3>1. ASSUME m.sid = c, us[c].st = "wait"
          PROVE  FALSE
      <4>1. m.kind # "REQ"
        BY <3>1, AtWork, SenderWire, DatagramSays DEF Going, Sessions
      <4>2. CASE m.to = "peer"
        <5>1. m.kind = "DATA"
          BY <4>1, <4>2, AtWork, SenderWire DEF Going
        <5>2. PeerUses(m)
          BY <3>1, <4>2, <5>1 DEF PeerUses, Going
        <5>3. QED
          BY <1>3, <4>2, <5>2 DEF Discard
      <4>3. CASE m.to # "peer"
        BY <1>3, <3>1, <4>3 DEF Discard, Reading
      <4>4. QED
        BY <4>2, <4>3
    <3>2. QED
      BY <3>1 DEF Going
  <2>3. us[c].st = "wait" => Patient(c)'
    <3>1. Concerns(c)' \subseteq Concerns(c)
      BY <1>1 DEF Concerns
    <3>2. us[c].st = "wait" => Current(c) \cap net \subseteq net'
      BY <1>1, <2>2, DatagramSays DEF Current
    <3>3. QED
      BY <1>0, <1>1, <2>1, <3>1, <3>2, NothingToAccount DEF Going
  <2>4. PeerPatient(c)'
    BY <1>1, <2>1, <2>2, AtWork DEF Going, PeerPatient
  <2>5. QED
    BY <1>1, <2>3, <2>4 DEF Going
<1>4. QED
  BY <1>2, <1>3

\* Every step leaves a sender at work, or is an abort.
LEMMA KeepsWorking ==
    ASSUME IInv, IInv', NetBounded, NetBounded', Sending, Sending',
           NEW c \in Sessions, peer.sid = c, Going(c), [Next]_vars
    PROVE  peer'.sid = c /\ Going(c)'
<1>1. \A m : ~GetReceives(c, m) /\ \A s : ~GetReceives(s, m) /\ ~WrqReceives(s, m)
  BY DEF Sending, GetReceives, WrqReceives
<1>2. \A s \in Sessions : ~StorePut(s)
  BY AtWork DEF StorePut, IInv, Held
<1>3. \A m \in net : ~PeerIsAcknowledged(m) /\ ~PeerIsRefused(m)
  BY AtWork, SenderWire DEF PeerIsAcknowledged, PeerIsRefused, PeerUses, Going
<1>4. ~PeerAborts
  <2>1. PeerAborts => peer' = [peer EXCEPT !.st = "aborted"]
    BY DEF PeerAborts, PeerEnters
  <2>2. PeerAborts => peer'.st = "aborted"
    BY <2>1, AtWork DEF PeerType
  <2>3. QED
    BY <2>2 DEF Sending
<1>5. CASE UNCHANGED vars
  <2>1. us' = us /\ peer' = peer /\ net' = net /\ faults' = faults /\ role' = role
    BY <1>5 DEF vars
  <2>2. Patient(c)' = Patient(c) /\ PeerPatient(c)' = PeerPatient(c)
    BY <2>1 DEF Patient, PeerPatient, Stale, Concerns, Current
  <2>3. QED
    BY <2>1, <2>2 DEF Going
<1>6. ASSUME NEW s \in Sessions, NEW m \in net, PutReceives(s, m) \/ RrqReceives(s, m)
      PROVE  peer'.sid = c /\ Going(c)'
  <2>1. CASE s = c
    BY <1>6, <2>1, AnswerRides
  <2>2. CASE s # c
    BY <1>6, <2>2, OtherSessionsRide
  <2>3. QED
    BY <2>1, <2>2
<1>7. ASSUME NEW s \in Sessions, TimesOut(s)
      PROVE  peer'.sid = c /\ Going(c)'
  <2>1. CASE s = c
    BY <1>7, <2>1, DeadlineRides
  <2>2. CASE s # c
    BY <1>7, <2>2, OtherSessionsRide
  <2>3. QED
    BY <2>1, <2>2
<1>8. QED
  BY <1>1, <1>2, <1>3, <1>4, <1>5, <1>6, <1>7, RequestsRide, PeerTakesDataRides, PeerIsAskedRides,
       PeerTimesOutRides, LosesRide DEF Next, OurStep, PeerStep, Done
-----------------------------------------------------------------------------
(* A sender that has yet to begin *)

\* What is known while TFTPPut waits for the answer to its request.
LEMMA AskedKnown ==
    ASSUME IInv, Sending, role = "put", Asked
    PROVE  /\ Typed /\ PeerReceiving /\ ~Serving /\ 1 \in Sessions /\ us \in [Sessions -> SessionType]
           /\ peer \in PeerType /\ peer.tries \in Nat /\ faults \in Nat /\ Retries \in Nat
           /\ faults < Retries /\ size \in Nat /\ 1 \in 1..size /\ BlockNo(0) = 0
           /\ peer.st = "wait" => peer.sid = 1
           /\ \A s \in Sessions \ {1} : us[s].st = "none"
<1>1. Typed /\ Chose
  BY DEF IInv
<1>2. PeerReceiving /\ ~Serving /\ 1 \in Sessions /\ faults < Retries
  BY TftpAssumption DEF PeerReceiving, Serving, Sessions, Sending
<1>3. us \in [Sessions -> SessionType] /\ faults \in Nat /\ Retries \in Nat
  BY <1>1, TftpAssumption DEF Typed, SessionType
<1>4. peer \in PeerType /\ peer.tries \in Nat /\ size \in Nat /\ 1 \in 1..size
  BY PeerKnown DEF PeerType
<1>5. BlockNo(0) = 0
  BY <1>1, <1>4, NoWrap
<1>6. QED
  BY <1>1, <1>2, <1>3, <1>4, <1>5 DEF Chose

\* TFTPPut has its answer.
LEMMA AnsweredRides ==
    ASSUME IInv, IInv', NetBounded', Sending, role = "put", Asked,
           NEW m \in net, PutReceives(1, m)
    PROVE  Working'
<1>0. Typed'
  BY DEF IInv
<1>1. m = Ack("us", 1, 0) /\ m.kind = "ACK" /\ m.n = 0
  <2>1. m.to = "us"
    BY DEF PutReceives, Mine
  <2>2. m \in {Request("peer"), Ack("us", 1, 0)}
    BY DEF Asked
  <2>3. QED
    BY <2>1, <2>2, DatagramSays
<1>2. peer.st = "wait" /\ peer.sid = 1 /\ peer.tries <= faults
  BY <1>1, AskedKnown, DatagramSays DEF Asked, PeerPatient
<1>3. PutOn(1, us[1], m) = [next |-> [us[1] EXCEPT !.st = "wait"], out |-> {Data("peer", 1, 1)}]
  BY <1>1 DEF PutOn, Then, Asked
<1>4. us' = [us EXCEPT ![1] = PutOn(1, us[1], m).next] /\ Exchange(m, PutOn(1, us[1], m).out)
      /\ peer' = peer
  BY DEF PutReceives, Enter
<1>5. us'[1].st = "wait" /\ us'[1].block = 1 /\ us'[1].tries = 0
  BY <1>3, <1>4, AskedKnown DEF SessionType, Asked
<1>6. Data("peer", 1, 1) \in net' /\ net' \subseteq net \cup {Data("peer", 1, 1)}
      /\ faults' \in {faults, faults + 1}
  BY <1>3, <1>4 DEF Exchange
<1>7. Patient(1)'
  BY <1>0, <1>5, <1>6, AskedKnown, FreshAccount
<1>8. PeerPatient(1)'
  BY <1>2, <1>4, <1>6, AskedKnown, DatagramSays DEF PeerPatient
<1>9. \A d \in net' : d.kind # "ERROR"
  BY <1>6, DatagramSays DEF Asked
<1>10. QED
  BY <1>2, <1>4, <1>5, <1>7, <1>8, <1>9, AskedKnown DEF Working, Going

\* The switch has the request of TFTPPut.
LEMMA RequestRides ==
    ASSUME IInv, Sending, role = "put", Asked, NEW m \in net, PeerIsAsked(m)
    PROVE  Asked'
<1>1. us' = us /\ peer' = PeerAt("wait", 1, <<>>, peer.tries, 1) /\ Exchange(m, {Ack("us", 1, 0)})
  BY AskedKnown DEF PeerIsAsked, PeerEnters
<1>2. peer'.st = "wait" /\ peer'.block = 1 /\ peer'.tries = peer.tries
  BY <1>1 DEF PeerAt
<1>3. Ack("us", 1, 0) \in net' /\ net' \subseteq net \cup {Ack("us", 1, 0)}
      /\ faults' \in {faults, faults + 1}
  BY <1>1 DEF Exchange
<1>4. peer.tries <= faults'
  BY <1>3, AskedKnown DEF Asked, PeerPatient
<1>5. PeerPatient(1)'
  BY <1>2, <1>3, <1>4, DatagramSays DEF PeerPatient
<1>6. net' \subseteq {Request("peer"), Ack("us", 1, 0)} /\ net' # {}
  BY <1>3 DEF Asked
<1>7. QED
  BY <1>1, <1>2, <1>5, <1>6 DEF Asked

\* It answers again.
LEMMA AnswerRepeated ==
    ASSUME IInv, Sending, Sending', role = "put", Asked, PeerTimesOut
    PROVE  Asked'
<1>1. peer.st = "wait" /\ us' = us
  BY DEF PeerTimesOut, Asked, PeerEnters
<1>2. \E out : WindowCloses(out)
  BY DEF PeerTimesOut
<1>3. peer.tries + 1 <= faults' /\ peer.tries + 1 < Retries
  <2>1. peer.tries <= faults /\ (net = {} => peer.tries + 1 <= faults)
    BY <1>1 DEF Asked, PeerPatient
  <2>2. faults' < Retries
    BY DEF Sending
  <2>3. (net = {} /\ faults' = faults) \/ faults' = faults + 1
    BY <1>2 DEF WindowCloses
  <2>4. QED
    BY <2>1, <2>2, <2>3, AskedKnown
<1>4. WindowCloses({PeerRepeats}) /\ peer' = [peer EXCEPT !.tries = @ + 1]
  BY <1>3 DEF PeerTimesOut, PeerEnters
<1>5. PeerRepeats = Ack("us", 1, 0)
  <2>1. peer.block - 1 = 0
    BY DEF Asked
  <2>2. QED
    BY <1>1, <2>1, AskedKnown DEF PeerRepeats
<1>6. peer'.st = "wait" /\ peer'.block = 1 /\ peer'.tries = peer.tries + 1
  BY <1>1, <1>4, AskedKnown DEF PeerType, Asked
<1>7. net' = net \cup {Ack("us", 1, 0)}
  BY <1>4, <1>5 DEF WindowCloses
<1>8. PeerPatient(1)'
  BY <1>3, <1>6, <1>7, DatagramSays DEF PeerPatient
<1>9. QED
  BY <1>1, <1>6, <1>7, <1>8 DEF Asked

\* The request, or its answer, is lost.
LEMMA RequestLost ==
    ASSUME IInv, Sending, role = "put", Asked, NEW m \in net, Lose(m) \/ Discard(m)
    PROVE  Asked'
<1>1. ~Discard(m)
  <2>1. CASE m = Request("peer")
    <3>1. m.to = "peer" /\ m.kind = "REQ" /\ PeerUses(m)
      BY <2>1, DatagramSays DEF PeerUses, Asked
    <3>2. QED
      BY <3>1 DEF Discard
  <2>2. CASE m = Ack("us", 1, 0)
    <3>1. m.to = "us" /\ m.sid = 1 /\ Reading(1)
      BY <2>2, DatagramSays DEF Reading, Asked
    <3>2. QED
      BY <3>1 DEF Discard
  <2>3. QED
    BY <2>1, <2>2 DEF Asked
<1>2. us' = us /\ peer' = peer /\ net' \subseteq net /\ faults' = faults + 1
  BY <1>1 DEF Lose
<1>3. PeerPatient(1)' /\ faults' # 0
  BY <1>2, AskedKnown DEF Asked, PeerPatient
<1>4. QED
  BY <1>2, <1>3 DEF Asked

\* A request has its answer, is not yet answered, or has none.
LEMMA AskedRides ==
    ASSUME IInv, IInv', NetBounded', Sending, Sending', role = "put", Asked, [Next]_vars
    PROVE  (Asked \/ Unanswered \/ Working)'
<1>1. ASSUME NEW s \in Sessions, TimesOut(s)
      PROVE  Unanswered'
  <2>1. s = 1
    BY <1>1, AskedKnown DEF TimesOut, Reading
  <2>2. OnTimeout(1, us[1]).next = [us[1] EXCEPT !.st = "failed"]
    BY DEF OnTimeout, Stop, Then, Asked
  <2>3. us'[1].st = "failed" /\ us'[1].block = 1 /\ us'[1].tries = 0
    <3>1. us' = [us EXCEPT ![1] = OnTimeout(1, us[1]).next]
      BY <1>1, <2>1 DEF TimesOut, Enter
    <3>2. QED
      BY <2>2, <3>1, AskedKnown DEF SessionType, Asked
  <2>4. faults' > 0
    BY <1>1, AskedKnown DEF TimesOut, WindowCloses, Asked
  <2>5. QED
    BY <2>3, <2>4 DEF Unanswered
<1>2. ASSUME NEW s \in Sessions, NEW m \in net, PutReceives(s, m)
      PROVE  Working'
  <2>1. s = 1
    BY <1>2, AskedKnown DEF PutReceives, Mine, Reading
  <2>2. QED
    BY <1>2, <2>1, AnsweredRides
<1>3. \A s \in Sessions : \A m : ~GetReceives(s, m) /\ ~RrqReceives(s, m) /\ ~WrqReceives(s, m)
                                /\ ~ServeLoop(m) /\ ~StorePut(s)
  BY AskedKnown DEF GetReceives, RrqReceives, WrqReceives, ServeLoop, StorePut, Asked
<1>4. \A m \in net : ~PeerTakesData(m) /\ ~PeerIsAcknowledged(m) /\ ~PeerIsRefused(m)
  <2>1. \A m \in net : m.kind = "REQ" \/ (m.kind = "ACK" /\ m.to = "us")
    BY DatagramSays DEF Asked
  <2>2. QED
    BY <2>1 DEF PeerTakesData, PeerIsAcknowledged, PeerIsRefused, PeerUses
<1>5. ~PeerAborts
  <2>1. PeerAborts => peer'.st = "aborted"
    BY AskedKnown DEF PeerAborts, PeerEnters, PeerType
  <2>2. QED
    BY <2>1 DEF Sending
<1>6. CASE UNCHANGED vars
  <2>1. PeerPatient(1)' = PeerPatient(1)
    BY <1>6 DEF vars, PeerPatient
  <2>2. QED
    BY <1>6, <2>1 DEF vars, Asked
<1>7. CASE OurStep
  <2>1. \/ \E s \in Sessions : TimesOut(s)
        \/ \E s \in Sessions, m \in net : PutReceives(s, m)
    BY <1>3, <1>7, AskedKnown DEF OurStep
  <2>2. QED
    BY <1>1, <1>2, <2>1
<1>8. CASE PeerStep
  BY <1>4, <1>8, RequestRides, AnswerRepeated DEF PeerStep
<1>9. ASSUME NEW m \in net, Lose(m) \/ Discard(m)
      PROVE  Asked'
  BY <1>9, RequestLost
<1>10. QED
  BY <1>5, <1>6, <1>7, <1>8, <1>9 DEF Next, Done

\* TFTPPut that had no answer does nothing more.
LEMMA UnansweredStays ==
    ASSUME IInv, role = "put", Unanswered, [Next]_vars
    PROVE  Unanswered'
<1>1. Typed /\ Chose /\ ~Serving
  BY DEF IInv, Serving
<1>2. \A s \in Sessions : ~Reading(s) /\ us[s].st # "put"
  BY <1>1 DEF Chose, Unanswered, Reading
<1>3. us' = us
  BY <1>1, <1>2
     DEF Next, OurStep, ServeLoop, GetReceives, PutReceives, RrqReceives, WrqReceives, Mine, TimesOut,
         StorePut, PeerStep, PeerIsAsked, PeerTakesData, PeerIsAcknowledged, PeerIsRefused,
         PeerTimesOut, PeerEnters, PeerAborts, Lose, Discard, Done, vars
<1>4. faults \in Nat /\ faults' \in {faults, faults + 1}
  BY <1>1, FaultsGrow
<1>5. QED
  BY <1>3, <1>4 DEF Unanswered
\* What is known while the switch waits for an answer to its request.
LEMMA AskingKnown ==
    ASSUME IInv, Sending, role = "rrq", Asking
    PROVE  /\ Typed /\ PeerReceiving /\ Serving /\ exists /\ us \in [Sessions -> SessionType]
           /\ peer \in PeerType /\ peer.tries \in Nat /\ peer.sid = 0 /\ peer.block = 1
           /\ faults \in Nat /\ Retries \in Nat /\ faults < Retries /\ size \in Nat /\ 1 \in 1..size
           /\ BlockNo(1) = 1 /\ \A s \in Sessions : us[s].tries \in Nat
           /\ Opened \subseteq Sessions /\ IsFiniteSet(Opened) /\ Cardinality(Opened) \in Nat
           /\ IsFiniteSet(Sessions) /\ Cardinality(Sessions) = MaxSessions /\ MaxSessions \in Nat
           /\ \A s \in Sessions : us[s].block = 1
<1>1. Typed /\ Lockstep
  BY DEF IInv
<1>2. PeerReceiving /\ Serving /\ exists /\ faults < Retries
  BY DEF PeerReceiving, Serving, Sending
<1>3. us \in [Sessions -> SessionType] /\ faults \in Nat /\ Retries \in Nat /\ MaxSessions \in Nat
      /\ \A s \in Sessions : us[s].tries \in Nat
  BY <1>1, TftpAssumption DEF Typed, SessionType
<1>4. peer \in PeerType /\ peer.tries \in Nat /\ size \in Nat /\ 1 \in 1..size
      /\ peer.sid = 0 /\ peer.block = 1
  BY PeerKnown DEF PeerType, Asking
<1>5. BlockNo(1) = 1
  <2>1. 1 \in 0..size
    BY <1>4
  <2>2. QED
    BY <1>1, <2>1, NoWrap
<1>6. IsFiniteSet(Sessions) /\ Cardinality(Sessions) = MaxSessions
  <2>1. 1 \in Int /\ MaxSessions \in Int /\ ~(1 > MaxSessions) /\ MaxSessions - 1 + 1 = MaxSessions
    BY TftpAssumption
  <2>2. QED
    BY <2>1, FS_Interval DEF Sessions
<1>7. Opened \subseteq Sessions /\ IsFiniteSet(Opened) /\ Cardinality(Opened) \in Nat
  BY <1>6, Smaller DEF Opened
<1>8. \A s \in Sessions : us[s].block = 1
  <2>1. 0 \notin Sessions
    BY DEF Sessions
  <2>2. QED
    BY <1>1, <1>2, <1>4, <2>1 DEF Lockstep
<1>9. QED
  BY <1>1, <1>2, <1>3, <1>4, <1>5, <1>6, <1>7, <1>8

\* What is under way then.
LEMMA AskingWire ==
    ASSUME Asking, NEW m \in net
    PROVE  \/ m = Request("us") /\ m.kind = "REQ" /\ m.to = "us" /\ m.sid = 0
           \/ /\ m.sid \in Opened /\ m = Data("peer", m.sid, 1)
              /\ m.kind = "DATA" /\ m.to = "peer" /\ m.n = BlockNo(1) /\ m.chunk = 1
BY DatagramSays DEF Asking

\* A request opens a session: there is one to open, as no fault has yet
\* paid for as many requests as there are sessions.
LEMMA SessionOpened ==
    ASSUME MaxSessions >= Retries, IInv, Sending, role = "rrq", Asking,
           NEW m \in net, ServeLoop(m)
    PROVE  Asking'
<1>1. m = Request("us") /\ Cardinality(Opened) <= faults
  BY DEF ServeLoop, Asking
<1>0. /\ peer.st = "asking" /\ peer.tries <= faults
      /\ \A t \in Opened : us[t].st = "wait" /\ us[t].block = 1 /\ us[t].tries <= faults
      /\ \A t \in Sessions \ Opened : us[t].tries = 0
      /\ net \subseteq {Request("us")} \cup {Data("peer", t, 1) : t \in Opened}
  BY DEF Asking
<1>2. Unopened # {}
  <2>1. Opened # Sessions
    BY <1>1, AskingKnown
  <2>2. QED
    BY <2>1 DEF Opened, Unopened
<1>3. PICK s \in Unopened : /\ us' = [us EXCEPT ![s].st = "wait"]
                            /\ Exchange(m, {Data("peer", s, 1)})
  BY <1>2, AskingKnown DEF ServeLoop
<1>4. s \in Sessions /\ s \notin Opened /\ us[s].tries = 0 /\ us[s].block = 1
  BY <1>3, AskingKnown DEF Unopened, Opened, Asking
<1>5. us'[s].st = "wait" /\ us'[s].tries = 0 /\ us'[s].block = 1
      /\ \A t \in Sessions : t # s => us'[t] = us[t]
  BY <1>3, <1>4, AskingKnown DEF SessionType
<1>6. Opened' = Opened \cup {s} /\ peer' = peer
  BY <1>4, <1>5 DEF Opened, ServeLoop
<1>7. Cardinality(Opened') \in Nat /\ Cardinality(Opened') <= Cardinality(Opened) + 1
  BY <1>6, AskingKnown, OneMore
<1>8. /\ Data("peer", s, 1) \in net' /\ net' \subseteq net \cup {Data("peer", s, 1)}
      /\ faults' \in {faults, faults + 1}
      /\ Request("us") \in net' => faults' = faults + 1
  BY <1>1, <1>3, DatagramSays DEF Exchange
<1>9. peer'.st = "asking" /\ peer'.tries <= faults'
  BY <1>0, <1>6, <1>8, AskingKnown
<1>10. ASSUME NEW t \in Opened'
       PROVE  us'[t].st = "wait" /\ us'[t].block = 1 /\ us'[t].tries <= faults'
  <2>1. faults <= faults' /\ 0 <= faults' /\ faults' \in Nat
    BY <1>8, AskingKnown
  <2>2. CASE t = s
    BY <1>5, <2>1, <2>2
  <2>3. CASE t # s
    <3>1. t \in Opened /\ t \in Sessions /\ us'[t] = us[t] /\ us[t].tries \in Nat
      BY <1>5, <1>6, <1>10, <2>3, AskingKnown
    <3>2. QED
      BY <1>0, <2>1, <3>1, AskingKnown
  <2>4. QED
    BY <2>2, <2>3
<1>11. \A t \in Sessions \ Opened' : us'[t].tries = 0
  BY <1>0, <1>5, <1>6
<1>12. net' \subseteq {Request("us")} \cup {Data("peer", t, 1) : t \in Opened'}
  BY <1>0, <1>6, <1>8
<1>13. Cardinality(Opened') <= faults' + 1 /\ net' # {}
       /\ (Request("us") \in net' => Cardinality(Opened') <= faults')
  BY <1>1, <1>7, <1>8, AskingKnown
<1>14. QED
  BY <1>9, <1>10, <1>11, <1>12, <1>13 DEF Asking

\* A session sends the first block again.
LEMMA FirstBlockRepeated ==
    ASSUME IInv, Sending, Sending', role = "rrq", Asking, NEW s \in Sessions, TimesOut(s)
    PROVE  Asking'
<1>1. s \in Opened /\ us[s].st = "wait" /\ us[s].block = 1 /\ us[s].tries <= faults
      /\ (net = {} => us[s].tries + 1 <= faults)
  BY DEF TimesOut, Reading, Opened, Asking
<1>2. OnTimeout(s, us[s]) = Retry(s, us[s])
  BY <1>1 DEF OnTimeout
<1>3. us' = [us EXCEPT ![s] = Retry(s, us[s]).next] /\ WindowCloses(Retry(s, us[s]).out) /\ peer' = peer
  BY <1>2 DEF TimesOut, Enter
<1>4. us[s].tries + 1 <= faults' /\ us[s].tries + 1 < Retries /\ faults' \in {faults, faults + 1}
  <2>1. (net = {} /\ faults' = faults) \/ faults' = faults + 1
    BY <1>3 DEF WindowCloses
  <2>2. faults' < Retries
    BY DEF Sending
  <2>3. QED
    BY <1>1, <2>1, <2>2, AskingKnown
<1>5. Retry(s, us[s]) = [next |-> [us[s] EXCEPT !.tries = @ + 1], out |-> {Data("peer", s, 1)}]
  BY <1>1, <1>4 DEF Retry, Then
<1>6. us'[s].st = "wait" /\ us'[s].block = 1 /\ us'[s].tries = us[s].tries + 1
      /\ \A t \in Sessions : t # s => us'[t] = us[t]
  <2>1. us' = [us EXCEPT ![s] = [us[s] EXCEPT !.tries = @ + 1]]
    BY <1>3, <1>5
  <2>2. QED
    BY <1>1, <2>1, AskingKnown DEF SessionType
<1>7. net' = net \cup {Data("peer", s, 1)}
  BY <1>3, <1>5 DEF WindowCloses
<1>8. Opened' = Opened
  BY <1>1, <1>6 DEF Opened
<1>9. Request("us") \in net' => Request("us") \in net
  BY <1>7, DatagramSays
<1>10. peer'.tries <= faults' /\ \A t \in Opened' : us'[t].st = "wait" /\ us'[t].block = 1 /\ us'[t].tries <= faults'
  BY <1>3, <1>4, <1>6, <1>8, AskingKnown DEF Asking
<1>11. \A t \in Sessions \ Opened' : us'[t].tries = 0
  BY <1>1, <1>6, <1>8 DEF Asking
<1>12. net' \subseteq {Request("us")} \cup {Data("peer", t, 1) : t \in Opened'}
  BY <1>1, <1>7, <1>8 DEF Asking
<1>13. Cardinality(Opened') <= faults' + 1
       /\ (net' = {} \/ Request("us") \in net' => Cardinality(Opened') <= faults')
  BY <1>4, <1>7, <1>8, <1>9, AskingKnown DEF Asking
<1>14. QED
  BY <1>3, <1>7, <1>10, <1>11, <1>12, <1>13 DEF Asking

\* The switch sends its request again.
LEMMA RequestRepeated ==
    ASSUME IInv, Sending, Sending', role = "rrq", Asking, PeerTimesOut
    PROVE  Asking'
<1>1. us' = us /\ \E out : WindowCloses(out)
  BY DEF PeerTimesOut, PeerEnters
<1>2. peer.tries + 1 <= faults' /\ peer.tries + 1 < Retries
      /\ ((net = {} /\ faults' = faults) \/ faults' = faults + 1)
  <2>1. (net = {} /\ faults' = faults) \/ faults' = faults + 1
    BY <1>1 DEF WindowCloses
  <2>2. faults' < Retries
    BY DEF Sending
  <2>3. QED
    BY <2>1, <2>2, AskingKnown DEF Asking
<1>3. WindowCloses({Request("us")}) /\ peer' = [peer EXCEPT !.tries = @ + 1]
  BY <1>2 DEF PeerTimesOut, PeerEnters, PeerRepeats, Asking
<1>4. peer'.st = "asking" /\ peer'.tries = peer.tries + 1
  BY <1>3, AskingKnown DEF PeerType, Asking
<1>5. net' = net \cup {Request("us")}
  BY <1>3 DEF WindowCloses
<1>6. Opened' = Opened
  BY <1>1 DEF Opened
<1>7. \A t \in Opened : us[t].tries <= faults'
  <2>1. \A t \in Opened : us[t].tries <= faults /\ us[t].tries \in Nat
    BY AskingKnown DEF Asking
  <2>2. QED
    BY <1>2, <2>1, AskingKnown
<1>8. Cardinality(Opened) <= faults'
  BY <1>2, AskingKnown DEF Asking
<1>9. QED
  BY <1>1, <1>2, <1>4, <1>5, <1>6, <1>7, <1>8, AskingKnown DEF Asking

\* A request or a first block is lost.
LEMMA FirstBlockLost ==
    ASSUME IInv, Sending, role = "rrq", Asking, NEW m \in net, Lose(m) \/ Discard(m)
    PROVE  Asking'
<1>1. ~Discard(m)
  <2>1. CASE m.kind = "REQ" /\ m.to = "us"
    BY <2>1 DEF Discard
  <2>2. CASE m.kind = "DATA" /\ m.to = "peer" /\ m = Data("peer", m.sid, 1)
    <3>1. PeerUses(m)
      BY <2>2, AskingKnown DEF PeerUses, Asking
    <3>2. QED
      BY <2>2, <3>1 DEF Discard
  <2>3. QED
    BY <2>1, <2>2, AskingWire
<1>2. us' = us /\ peer' = peer /\ net' \subseteq net /\ faults' = faults + 1
  BY <1>1 DEF Lose
<1>3. Opened' = Opened
  BY <1>2 DEF Opened
<1>4. /\ \A t \in Opened : us[t].tries <= faults' /\ us[t].tries + 1 <= faults'
      /\ peer.tries <= faults' /\ peer.tries + 1 <= faults'
      /\ Cardinality(Opened) <= faults' + 1 /\ Cardinality(Opened) <= faults'
  BY <1>2, AskingKnown DEF Asking
<1>5. QED
  BY <1>2, <1>3, <1>4 DEF Asking

\* The switch takes a first block, and works with its session from then on.
LEMMA SessionChosen ==
    ASSUME IInv, IInv', NetBounded, Sending, role = "rrq", Asking, NEW m \in net, PeerTakesData(m)
    PROVE  Working'
<1>0. Typed' /\ Held'
  BY DEF IInv
<1>1. m.kind = "DATA"
  BY DEF PeerTakesData
<1>2. m.sid \in Opened /\ m = Data("peer", m.sid, 1) /\ m.n = 1 /\ m.chunk = 1
  BY <1>1, AskingWire, AskingKnown
<1>3. /\ us' = us /\ role' = role /\ size' = size /\ Exchange(m, {Ack("us", m.sid, 1)})
      /\ peer' = PeerAt(IF m.chunk = size THEN "ok" ELSE "wait", peer.block + 1,
                        Append(peer.got, m.chunk), 0, m.sid)
  BY <1>2, AskingKnown DEF PeerTakesData, PeerEnters, Unaffected, Asking
<1>4. peer'.st \in {"wait", "ok"} /\ peer'.sid = m.sid /\ peer'.tries = 0
  BY <1>3 DEF PeerAt
<1>5. Ack("us", m.sid, 1) \in net' /\ net' \subseteq net \cup {Ack("us", m.sid, 1)}
      /\ faults' \in {faults, faults + 1}
  BY <1>3 DEF Exchange
<1>6. us[m.sid].st = "wait" /\ us[m.sid].block = 1 /\ us[m.sid].tries <= faults /\ m.sid \in Sessions
  BY <1>2, AskingKnown DEF Asking
<1>7. \A d \in net' : d.kind # "ERROR"
  BY <1>5, AskingWire, DatagramSays
<1>8. ASSUME NEW c, c = m.sid
      PROVE  Going(c)'
  <2>1. Current(c)' = {Data("peer", c, 1), Ack("us", c, 1)}
    BY <1>3, <1>6, <1>8 DEF Current
  <2>2. Stale(c)' = {}
    <3>1. ASSUME NEW d \in Stale(c)'
          PROVE  FALSE
      <4>1. d \in net' /\ d.sid = c /\ d # Data("peer", c, 1) /\ d # Ack("us", c, 1)
        BY <1>3, <2>1, <3>1 DEF Stale, Concerns
      <4>2. d \in net
        BY <1>5, <1>8, <4>1
      <4>3. c # 0
        BY <1>6, <1>8 DEF Sessions
      <4>4. QED
        BY <4>1, <4>2, <4>3, AskingWire
    <3>2. QED
      BY <3>1
  <2>3. Cardinality(Stale(c)') = 0
    BY <2>2, FS_EmptySet
  <2>4. us'[c].tries \in Nat /\ us'[c].tries <= faults'
    BY <1>3, <1>5, <1>6, <1>8, AskingKnown
  <2>5. Patient(c)'
    BY <1>5, <1>8, <2>1, <2>3, <2>4 DEF Patient
  <2>6. 0 <= faults'
    BY <1>5, AskingKnown
  <2>7. PeerPatient(c)'
    BY <1>4, <1>5, <1>8, <2>6, DatagramSays DEF PeerPatient
  <2>8. QED
    BY <1>3, <1>4, <1>6, <1>7, <1>8, <2>5, <2>7 DEF Going
<1>9. QED
  BY <1>4, <1>6, <1>8 DEF Working

\* The switch has a session to work with, or goes on asking.
LEMMA AskingRides ==
    ASSUME MaxSessions >= Retries, IInv, IInv', NetBounded, Sending, Sending', role = "rrq", Asking,
           [Next]_vars
    PROVE  (Asking \/ Working)'
<1>1. \A s \in Sessions, m \in net :
        ~GetReceives(s, m) /\ ~PutReceives(s, m) /\ ~RrqReceives(s, m) /\ ~WrqReceives(s, m)
  <2>1. \A m \in net : m.kind = "REQ" \/ m.to = "peer"
    BY AskingWire
  <2>2. QED
    BY <2>1 DEF GetReceives, PutReceives, RrqReceives, WrqReceives, Mine
<1>2. \A s \in Sessions : ~StorePut(s)
  BY DEF StorePut, Asking, Opened
<1>3. \A m \in net : ~PeerIsAsked(m) /\ ~PeerIsAcknowledged(m) /\ ~PeerIsRefused(m)
  <2>1. \A m \in net : m.to = "us" \/ m.kind = "DATA"
    BY AskingWire
  <2>2. QED
    BY <2>1 DEF PeerIsAsked, PeerIsAcknowledged, PeerIsRefused, PeerUses
<1>4. ~PeerAborts
  BY DEF PeerAborts, Asking
<1>5. CASE UNCHANGED vars
  <2>1. Opened' = Opened
    BY <1>5 DEF vars, Opened
  <2>2. QED
    BY <1>5, <2>1 DEF vars, Asking
<1>6. CASE OurStep
  BY <1>1, <1>2, <1>6, SessionOpened, FirstBlockRepeated DEF OurStep
<1>7. CASE PeerStep
  BY <1>3, <1>7, RequestRepeated, SessionChosen DEF PeerStep
<1>8. ASSUME NEW m \in net, Lose(m) \/ Discard(m)
      PROVE  Asking'
  BY <1>8, FirstBlockLost
<1>9. QED
  BY <1>4, <1>5, <1>6, <1>7, <1>8 DEF Next, Done
-----------------------------------------------------------------------------
(* The account as an invariant, and what follows *)

LEMMA RidesBegin == Init => Rides
<1> SUFFICES ASSUME Init
             PROVE  Rides
  OBVIOUS
<1>0. IInv
  BY InitIInv
<1>1. faults = 0 /\ role \in Roles /\ 1 \in Sessions
      /\ net = {Request(IF Serving THEN "us" ELSE "peer")}
  BY TftpAssumption DEF Init, Sessions
<1>2. \A s \in Sessions : /\ us[s].st = (IF s = 1 /\ ~Serving THEN "asked" ELSE "none")
                          /\ us[s].block = 1 /\ us[s].tries = 0
  BY DEF Init, At, Idle
<1>3. /\ peer.st = (IF Serving THEN "asking" ELSE "idle") /\ peer.block = 1
      /\ peer.tries = 0 /\ peer.sid = 0
  BY DEF Init, PeerAt
<1>4. NetBounded
  <2>1. IsFiniteSet(net) /\ Cardinality(net) = 1
    BY <1>1, FS_Singleton
  <2>2. QED
    BY <1>1, <2>1 DEF NetBounded
<1>5. PutRides
  <2>1. role = "put" => PeerPatient(1) /\ Asked
    BY <1>1, <1>2, <1>3 DEF PeerPatient, Asked, Serving
  <2>2. QED
    BY <2>1 DEF PutRides
<1>6. RrqRides
  <2>1. SUFFICES ASSUME role = "rrq"
                 PROVE  Asking
    BY DEF RrqRides
  <2>2. Opened = {} /\ Cardinality(Opened) = 0
    BY <1>2, <2>1, FS_EmptySet DEF Opened, Serving
  <2>3. QED
    BY <1>1, <1>2, <1>3, <2>1, <2>2 DEF Asking, Serving
<1>7. Calm
  <2>1. role \in {"get", "wrq"} => RequestOut
    BY <1>1, <1>2, <1>3 DEF RequestOut, Serving
  <2>2. \A s \in Sessions \ {1} : us[s].st = "none"
    BY <1>2
  <2>3. QED
    BY <2>1, <2>2 DEF Calm
<1>8. QED
  BY <1>4, <1>5, <1>6, <1>7 DEF Rides

\* What was not yet aborted, nor had its fill of faults, never was before.
LEMMA StillSending ==
    ASSUME IInv, [Next]_vars, Sending'
    PROVE  Sending
<1>1. Typed
  BY DEF IInv
<1>2. faults \in Nat /\ faults' \in {faults, faults + 1} /\ role' = role /\ exists' = exists
  BY <1>1, FaultsGrow
<1>3. faults < Retries /\ role \in {"put", "rrq"} /\ exists
  BY <1>2, TftpAssumption DEF Sending
<1>4. peer.st = "aborted" => peer'.st = "aborted"
  <2>1. SUFFICES ASSUME peer.st = "aborted"
                 PROVE  peer' = peer
    OBVIOUS
  <2>2. \A m : ~PeerUses(m)
    BY <2>1 DEF PeerUses
  <2>3. QED
    BY <2>1, <2>2
       DEF Next, OurStep, ServeLoop, GetReceives, PutReceives, RrqReceives, WrqReceives, Enter,
           TimesOut, StorePut, PeerStep, PeerIsAsked, PeerTakesData, PeerIsAcknowledged,
           PeerIsRefused, PeerTimesOut, PeerAborts, Lose, Discard, Done, vars
<1>5. QED
  BY <1>3, <1>4 DEF Sending

LEMMA RidesOn ==
    ASSUME MaxSessions >= Retries, IInv, IInv', Rides, [Next]_vars
    PROVE  Rides'
<1>1. NetBounded /\ NetBounded'
  BY NetStaysBounded DEF Rides
<1>2. Calm'
  BY StaysCalm DEF Rides
<1>3. role' = role
  BY PeerKnown, FaultsGrow
<1>4. ASSUME Sending, Sending', Working
      PROVE  Working'
  <2>1. PICK c \in Sessions : peer.sid = c /\ Going(c)
    BY <1>4 DEF Working
  <2>2. peer'.sid = c /\ Going(c)'
    BY <1>1, <1>4, <2>1, KeepsWorking
  <2>3. QED
    BY <2>2 DEF Working
<1>5. PutRides'
  <2>1. SUFFICES ASSUME role' = "put", Sending'
                 PROVE  (Asked \/ Unanswered \/ Working)'
    BY DEF PutRides
  <2>2. role = "put" /\ Sending
    BY <1>3, <2>1, StillSending
  <2>3. Asked \/ Unanswered \/ Working
    BY <2>2 DEF Rides, PutRides
  <2>4. QED
    BY <1>1, <1>4, <2>1, <2>2, <2>3, AskedRides, UnansweredStays
<1>6. RrqRides'
  <2>1. SUFFICES ASSUME role' = "rrq", Sending'
                 PROVE  (Asking \/ Working)'
    BY DEF RrqRides
  <2>2. role = "rrq" /\ Sending
    BY <1>3, <2>1, StillSending
  <2>3. Asking \/ Working
    BY <2>2 DEF Rides, RrqRides
  <2>4. QED
    BY <1>1, <1>4, <2>1, <2>2, <2>3, AskingRides
<1>7. QED
  BY <1>1, <1>2, <1>5, <1>6 DEF Rides

\* A sender that has settled has succeeded, unless it was not answered, and
\* so has a receiver that met no fault.
LEMMA RidingIsSuccess ==
    ASSUME IInv, Rides
    PROVE  RidesOut
<1>1. SUFFICES ASSUME Settled, exists, peer.st # "aborted", faults <= Tolerated,
                      faults = 0 \/ Answered
               PROVE  "ok" \in OurVerdict /\ (faults = 0 => peer.st = "ok")
  BY DEF RidesOut
<1>2. Typed /\ 1 \in Sessions /\ role \in Roles
  BY TftpAssumption DEF IInv, Typed, Sessions
<1>3. ASSUME NEW c \in Sessions, us[c].st = "ok"
      PROVE  "ok" \in OurVerdict
  BY <1>3 DEF OurVerdict
<1>4. ASSUME role \in {"put", "rrq"}
      PROVE  \E c \in Sessions : us[c].st = "ok" /\ peer.st = "ok"
  <2>1. PeerReceiving /\ Lockstep
    BY <1>4 DEF PeerReceiving, IInv
  <2>2. Sending
    BY <1>1, <1>2, <1>4, TftpAssumption DEF Sending, Tolerated, Typed
  <2>3. ~Asked /\ ~Asking
    BY <1>1, <1>2 DEF Settled, Asked, Asking
  <2>4. ~(role = "put" /\ Unanswered)
    BY <1>1 DEF Unanswered, Answered
  <2>5. Working
    BY <1>4, <2>2, <2>3, <2>4 DEF Rides, PutRides, RrqRides
  <2>6. PICK c \in Sessions : peer.sid = c /\ Going(c)
    BY <2>5 DEF Working
  <2>7. us[c].st = "ok"
    BY <1>1, <2>6 DEF Settled, Going
  <2>8. QED
    BY <2>1, <2>7 DEF Lockstep
<1>5. ASSUME role \in {"get", "wrq"}
      PROVE  us[1].st = "ok" /\ peer.st = "ok"
  <2>1. faults = 0
    BY <1>1, <1>2, <1>5 DEF Tolerated, Typed
  <2>2. RequestOut \/ OpeningOut \/ BlockOut \/ AckOut \/ AllOver
    BY <1>5, <2>1 DEF Rides, Calm
  <2>3. us[1].st \in {"none", "ok", "unsaved", "failed"} /\ peer.st \in {"idle", "ok", "failed", "aborted"}
    BY <1>1, <1>2 DEF Settled
  <2>4. QED
    BY <2>2, <2>3 DEF RequestOut, OpeningOut, BlockOut, AckOut, AllOver
<1>6. QED
  BY <1>2, <1>3, <1>4, <1>5 DEF Roles

\* A sender of ours that met fewer faults than it makes attempts succeeds,
\* whatever they were and whenever (kindRRQ; TFTPPut once its request is
\* answered). A receiver of ours is promised nothing beyond a transfer
\* without faults (TFTPGet, kindWRQ).  The code opens a session for each
\* request; here as many as there are attempts are needed.
THEOREM FaultsAreRiddenOut ==
    ASSUME MaxSessions >= Retries
    PROVE  Spec => []RidesOut
<1>1. Init => Rides
  BY RidesBegin
<1>2. IInv /\ IInv' /\ Rides /\ [Next]_vars => Rides'
  BY RidesOn
<1>3. IInv /\ Rides => RidesOut
  BY RidingIsSuccess
<1>4. QED
  BY <1>1, <1>2, <1>3, Inductive, PTL DEF Spec
===============================================================================
