-------------------------------- MODULE Tftp --------------------------------
(***************************************************************************)
(* fastpath/tftp.go and fastpath/tftpserver.go: one transfer of one file   *)
(* between this code ("us") and the switch ("peer"), over a network that   *)
(* loses, delays, reorders and duplicates datagrams.  There are four       *)
(* roles for our code, two of which send and two of which receive:         *)
(*   get  TFTPGet reads from the server of the switch;                     *)
(*   put  TFTPPut writes to the server of the switch;                      *)
(*   wrq  TFTPServer takes what the switch pushes (it saves);              *)
(*   rrq  TFTPServer serves what the switch pulls (it restores).           *)
(* The peer is not in this repository.  It is a lockstep implementation    *)
(* that retransmits, answers duplicates, and may abort with an ERROR.      *)
(***************************************************************************)
EXTENDS Naturals, Sequences, FiniteSets

CONSTANTS
    Mod,          \* block numbers wrap at Mod; 2^16 in the code
    MaxBlocks,    \* bound: blocks of a file, the last of them short
    Retries,      \* TFTPConfig.Retries, TFTPServer.retries, and the peer's
    MaxSessions,  \* bound: sessions that our server opens
    MaxFaults     \* bound: datagrams lost, late or duplicated, aborts, failed Puts

ASSUME TftpAssumption ==
    /\ {MaxBlocks, Retries, MaxSessions} \subseteq Nat \ {0}
    /\ MaxFaults \in Nat
    /\ Mod \in Nat /\ Mod > MaxBlocks

VARIABLES
    role,     \* which of the four we play
    size,     \* blocks of the file
    exists,   \* TFTPFileStore.Get finds the file (rrq)
    us,       \* our sessions; a client has one
    peer,     \* the switch
    net,      \* datagrams under way
    faults,
    stored    \* what TFTPFileStore.Put has taken, one entry per event

vars == <<role, size, exists, us, peer, net, faults, stored>>

Roles == {"get", "put", "wrq", "rrq"}
Serving == role \in {"wrq", "rrq"}
Sessions == 1..MaxSessions
File == [i \in 1..size |-> i]

\* The block number on the wire.
BlockNo(i) == i % Mod

-----------------------------------------------------------------------------
(* Datagrams.  sid names our socket; a request to our server has none.     *)

Datagram(to, s, kind, n, chunk) ==
    [to |-> to, sid |-> s, kind |-> kind, n |-> n, chunk |-> chunk]
Request(to) == Datagram(to, 0, "REQ", 0, 0)
Data(to, s, i) == Datagram(to, s, "DATA", BlockNo(i), i)
Ack(to, s, n) == Datagram(to, s, "ACK", n, 0)
Error(to, s) == Datagram(to, s, "ERROR", 0, 0)

\* m is delivered and out is sent; a duplicate of m may still be under way.
Exchange(m, out) ==
    /\ m \in net
    /\ \/ /\ net' = (net \ {m}) \cup out
          /\ UNCHANGED faults
       \/ /\ faults < MaxFaults
          /\ faults' = faults + 1
          /\ net' = net \cup out

\* A read deadline passes: because nothing is under way, or too early.
WindowCloses(out) ==
    /\ \/ net = {} /\ UNCHANGED faults
       \/ net # {} /\ faults < MaxFaults /\ faults' = faults + 1
    /\ net' = net \cup out

Unaffected == UNCHANGED <<role, size, exists>>

-----------------------------------------------------------------------------
(* Our code.                                                               *)


(* A session is where its code stands: "asked" (a client that has sent its *)
(* request), "wait" (in the loop), "bye" (sendError, which reads once      *)
(* more), "put" (all is received, the store has yet to be called),         *)
(* "unsaved" (the store refused the file).  What the code does with a      *)
(* datagram is its next place and what it sends.                           *)
At(st, block, got, tries) ==
    [st |-> st, block |-> block, got |-> got, tries |-> tries]
Idle == At("none", 1, <<>>, 0)

Then(u, out) == [next |-> u, out |-> out]
Stop(u, st) == Then([u EXCEPT !.st = st], {})

\* The next block is kept; what comes after the last is "st".
Keep(u, m, st) ==
    At(IF m.chunk = size THEN st ELSE "wait", u.block + 1, Append(u.got, m.chunk), 0)

\* TFTPGet: whatever block arrives is acknowledged, the next one is kept.
GetOn(u, m) ==
    IF m.kind # "DATA" THEN Stop(u, "failed")
    ELSE Then(IF m.n = BlockNo(u.block) THEN Keep(u, m, "ok") ELSE u,
              {Ack("peer", m.sid, m.n)})

\* A slip: attempts are not counted.
RetryForEver(s, u) == Then(u, {Data("peer", s, u.block)})

\* One more attempt at the block, if one is left.
Retry(s, u) ==
    IF u.tries + 1 < Retries
    THEN Then([u EXCEPT !.tries = @ + 1], {Data("peer", s, u.block)})
    ELSE Stop(u, "failed")

\* The block is acknowledged: the next one, or the end.
Advance(s, u) ==
    IF u.block = size THEN Stop(u, "ok")
    ELSE Then(At("wait", u.block + 1, <<>>, 0), {Data("peer", s, u.block + 1)})

\* A slip: an acknowledgement is taken for that of the block, whatever its number.
AnyAccepted(u, m) == m.kind = "ACK"

Accepted(u, m) == m.kind = "ACK" /\ m.n = BlockNo(u.block)

\* A slip: TFTPPut takes a wrong answer for a failure.
PutOnImpatient(s, u, m) ==
    IF m.kind # "ACK" \/ (u.st = "asked" /\ m.n # 0) THEN Stop(u, "failed")
    ELSE IF u.st = "asked" THEN Then([u EXCEPT !.st = "wait"], {Data("peer", s, 1)})
    ELSE IF Accepted(u, m) THEN Advance(s, u) ELSE Stop(u, "failed")

\* TFTPPut: the request must be answered by ACK 0 and is never repeated; in
\* the loop any answer but the acknowledgement uses up an attempt.
PutOn(s, u, m) ==
    IF m.kind = "ERROR" THEN Stop(u, "failed")
    ELSE IF u.st = "asked"
    THEN IF m.kind = "ACK" /\ m.n = 0
         THEN Then([u EXCEPT !.st = "wait"], {Data("peer", s, 1)})
         ELSE Stop(u, "failed")
    ELSE IF Accepted(u, m) THEN Advance(s, u) ELSE Retry(s, u)

\* kindRRQ: as TFTPPut, but an ERROR too only uses up an attempt.
RrqOn(s, u, m) ==
    IF u.st = "bye" THEN Stop(u, "failed")
    ELSE IF Accepted(u, m) THEN Advance(s, u) ELSE Retry(s, u)

\* kindWRQ: the next block is kept, for anything else the last
\* acknowledgement is repeated, with a fresh budget of reads.
WrqOn(s, u, m) ==
    IF m.kind = "ERROR" THEN Stop(u, "failed")
    ELSE IF m.kind = "DATA" /\ m.n = BlockNo(u.block)
    THEN Then(Keep(u, m, "put"), {Ack("peer", s, m.n)})
    ELSE Then([u EXCEPT !.tries = 0], {Ack("peer", s, BlockNo(u.block - 1))})

\* A slip: a session whose peer went silent stores what it has.
OnTimeoutStores(s, u) ==
    IF role # "wrq" THEN Retry(s, u)
    ELSE Then([u EXCEPT !.tries = @ + 1,
                        !.st = IF u.tries + 1 < Retries THEN "wait" ELSE "put"],
              {Ack("peer", s, BlockNo(u.block - 1))})

\* A read that timed out: TFTPGet gives up, and so does a request of ours;
\* kindWRQ repeats its acknowledgement, even with the last of its budget.
OnTimeout(s, u) ==
    IF role = "get" \/ u.st \in {"asked", "bye"} THEN Stop(u, "failed")
    ELSE IF role = "wrq"
    THEN Then([u EXCEPT !.tries = @ + 1,
                        !.st = IF u.tries + 1 < Retries THEN "wait" ELSE "failed"],
              {Ack("peer", s, BlockNo(u.block - 1))})
    ELSE Retry(s, u)

Reading(s) == us[s].st \in {"asked", "wait", "bye"}
Enter(s, r) == us' = [us EXCEPT ![s] = r.next] /\ UNCHANGED <<peer, stored>> /\ Unaffected

Mine(s, m) == Reading(s) /\ m.to = "us" /\ m.sid = s /\ m.kind # "REQ"

GetReceives(s, m) ==
    /\ role = "get" /\ Mine(s, m)
    /\ Exchange(m, GetOn(us[s], m).out)
    /\ Enter(s, GetOn(us[s], m))

PutReceives(s, m) ==
    /\ role = "put" /\ Mine(s, m)
    /\ Exchange(m, PutOn(s, us[s], m).out)
    /\ Enter(s, PutOn(s, us[s], m))

RrqReceives(s, m) ==
    /\ role = "rrq" /\ Mine(s, m)
    /\ Exchange(m, RrqOn(s, us[s], m).out)
    /\ Enter(s, RrqOn(s, us[s], m))

WrqReceives(s, m) ==
    /\ role = "wrq" /\ Mine(s, m)
    /\ Exchange(m, WrqOn(s, us[s], m).out)
    /\ Enter(s, WrqOn(s, us[s], m))

TimesOut(s) ==
    /\ Reading(s)
    /\ WindowCloses(OnTimeout(s, us[s]).out)
    /\ Enter(s, OnTimeout(s, us[s]))

Unopened == {s \in Sessions : us[s].st = "none"}

\* serveLoop: each request, a repeated one too, opens a session on a socket
\* of its own.  MaxSessions bounds how many do.
ServeLoop(m) ==
    /\ Serving /\ m = Request("us")
    /\ \/ /\ Unopened = {}
          /\ Exchange(m, {}) /\ UNCHANGED us
       \/ \E s \in Unopened :
            /\ \A t \in Unopened : s <= t
            /\ IF role = "wrq"
               THEN /\ us' = [us EXCEPT ![s].st = "wait"]
                    /\ Exchange(m, {Ack("peer", s, 0)})
               ELSE /\ us' = [us EXCEPT ![s].st = IF exists THEN "wait" ELSE "bye"]
                    /\ Exchange(m, {IF exists THEN Data("peer", s, 1) ELSE Error("peer", s)})
    /\ UNCHANGED <<peer, stored>> /\ Unaffected

\* The end of kindWRQ, after the last acknowledgement.  When the store
\* refuses the file the session ends as silently, and sends no ERROR.
StorePut(s) ==
    /\ us[s].st = "put"
    /\ \/ /\ us' = [us EXCEPT ![s].st = "ok"]
          /\ stored' = Append(stored, us[s].got)
          /\ UNCHANGED faults
       \/ /\ faults < MaxFaults
          /\ faults' = faults + 1
          /\ us' = [us EXCEPT ![s].st = "unsaved"]
          /\ UNCHANGED stored
    /\ UNCHANGED <<peer, net>> /\ Unaffected

-----------------------------------------------------------------------------
(* The switch (external).  It is "asking" when it is the client, "idle"    *)
(* when it is the server and has had no request.  A client keeps to the    *)
(* socket that answered it first (sid).  A receiver goes on acknowledging  *)
(* repeated blocks after the last one.                                     *)

PeerAt(st, block, got, tries, sid) ==
    [st |-> st, block |-> block, got |-> got, tries |-> tries, sid |-> sid]
PeerReceiving == role \in {"put", "rrq"}
PeerEnters(p) == peer' = p /\ UNCHANGED <<us, stored>> /\ Unaffected

\* A datagram the peer has a use for in its present place.
PeerUses(m) ==
    /\ m.to = "peer"
    /\ IF m.kind = "REQ" THEN peer.st \in {"idle", "wait"} /\ peer.block = 1
       ELSE /\ peer.sid \in {0, m.sid}
            /\ \/ peer.st = "wait"
               \/ peer.st = "asking" /\ (m.kind = "ERROR" \/ m = Ack("peer", m.sid, 0)
                                                          \/ m = Data("peer", m.sid, 1))
               \/ peer.st = "ok" /\ m.kind = "DATA"

\* A request reaches its server.  A repeated one is answered again.
PeerIsAsked(m) ==
    /\ PeerUses(m) /\ m.kind = "REQ"
    /\ PeerEnters(PeerAt("wait", 1, <<>>, peer.tries, 1))
    /\ Exchange(m, {IF PeerReceiving THEN Ack("us", 1, 0) ELSE Data("us", 1, 1)})

PeerTakesData(m) ==
    /\ PeerUses(m) /\ m.kind = "DATA"
    /\ PeerEnters(IF peer.st = "ok" \/ m.n # BlockNo(peer.block) THEN peer
                  ELSE PeerAt(IF m.chunk = size THEN "ok" ELSE "wait", peer.block + 1,
                              Append(peer.got, m.chunk), 0, m.sid))
    /\ Exchange(m, {Ack("us", m.sid, m.n)})

PeerIsAcknowledged(m) ==
    /\ PeerUses(m) /\ m.kind = "ACK"
    /\ \/ /\ peer.st = "asking"
          /\ PeerEnters(PeerAt("wait", 1, <<>>, 0, m.sid))
          /\ Exchange(m, {Data("us", m.sid, 1)})
       \/ /\ peer.st = "wait" /\ m.n = BlockNo(peer.block)
          /\ PeerEnters(IF peer.block = size THEN [peer EXCEPT !.st = "ok"]
                        ELSE PeerAt("wait", peer.block + 1, <<>>, 0, m.sid))
          /\ Exchange(m, {Data("us", m.sid, i) : i \in {peer.block + 1} \cap 1..size})
       \/ /\ peer.st = "wait" /\ m.n # BlockNo(peer.block)
          /\ PeerEnters(peer)
          /\ Exchange(m, {}) \/ Exchange(m, {Data("us", m.sid, peer.block)})

PeerIsRefused(m) ==
    /\ PeerUses(m) /\ m.kind = "ERROR"
    /\ PeerEnters([peer EXCEPT !.st = "failed"])
    /\ Exchange(m, {})

\* What it sent last is sent again, a limited number of times.
PeerRepeats ==
    IF peer.st = "asking" THEN Request("us")
    ELSE IF PeerReceiving THEN Ack("us", peer.sid, BlockNo(peer.block - 1))
    ELSE Data("us", peer.sid, peer.block)

PeerTimesOut ==
    /\ peer.st \in {"asking", "wait"}
    /\ IF peer.tries + 1 < Retries
       THEN WindowCloses({PeerRepeats}) /\ PeerEnters([peer EXCEPT !.tries = @ + 1])
       ELSE WindowCloses({}) /\ PeerEnters([peer EXCEPT !.st = "failed"])

PeerAborts ==
    /\ peer.st = "wait" /\ faults < MaxFaults
    /\ faults' = faults + 1
    /\ net' = net \cup {Error("us", peer.sid)}
    /\ PeerEnters([peer EXCEPT !.st = "aborted"])

-----------------------------------------------------------------------------
(* The network.                                                            *)

Lose(m) ==
    /\ faults < MaxFaults
    /\ faults' = faults + 1
    /\ net' = net \ {m}
    /\ UNCHANGED <<us, peer, stored>> /\ Unaffected

\* Nobody reads the socket any more, or the peer has no use for it.
Discard(m) ==
    /\ IF m.to = "peer" THEN ~PeerUses(m) ELSE m.kind # "REQ" /\ ~Reading(m.sid)
    /\ net' = net \ {m}
    /\ UNCHANGED <<us, peer, stored, faults>> /\ Unaffected

-----------------------------------------------------------------------------
(* A client of ours has sent its request; a client of the switch likewise. *)
Init ==
    /\ role \in Roles
    /\ size \in 1..MaxBlocks
    /\ exists \in IF role = "rrq" THEN BOOLEAN ELSE {TRUE}
    /\ us = [s \in Sessions |-> IF s = 1 /\ ~Serving THEN At("asked", 1, <<>>, 0) ELSE Idle]
    /\ peer = PeerAt(IF Serving THEN "asking" ELSE "idle", 1, <<>>, 0, 0)
    /\ net = {Request(IF Serving THEN "us" ELSE "peer")}
    /\ faults = 0
    /\ stored = <<>>

Settled ==
    /\ \A s \in Sessions : us[s].st \in {"none", "ok", "unsaved", "failed"}
    /\ peer.st \in {"idle", "ok", "failed", "aborted"}

Done == Settled /\ net = {} /\ UNCHANGED vars

OurStep ==
    \/ \E m \in net : ServeLoop(m)
    \/ \E s \in Sessions :
        \/ \E m \in net : GetReceives(s, m) \/ PutReceives(s, m)
                          \/ RrqReceives(s, m) \/ WrqReceives(s, m)
        \/ TimesOut(s) \/ StorePut(s)

PeerStep ==
    \/ \E m \in net : \/ PeerIsAsked(m) \/ PeerTakesData(m)
                      \/ PeerIsAcknowledged(m) \/ PeerIsRefused(m)
    \/ PeerTimesOut

Next ==
    \/ OurStep
    \/ PeerStep
    \/ PeerAborts
    \/ \E m \in net : Lose(m) \/ Discard(m)
    \/ Done

Progress == OurStep \/ PeerStep \/ \E m \in net : Discard(m)

Spec == Init /\ [][Next]_vars /\ WF_vars(Progress)

-----------------------------------------------------------------------------
(* Properties.                                                             *)

SessionStates == {"none", "asked", "wait", "bye", "put", "ok", "unsaved", "failed"}
Datagrams ==
    [to : {"us", "peer"}, sid : 0..MaxSessions, kind : {"REQ", "DATA", "ACK", "ERROR"},
     n : 0..Mod - 1, chunk : 0..size]

\* Types.  A receiver holds the blocks before the one it expects, and only
\* blocks of the file are ever asked for or sent.
TypeOK ==
    /\ role \in Roles /\ size \in 1..MaxBlocks /\ exists \in BOOLEAN
    /\ \A s \in Sessions : /\ us[s].st \in SessionStates
                           /\ us[s].block \in 1..size + 1
                           /\ us[s].tries \in 0..Retries
                           /\ us[s].got \in Seq(1..size)
    /\ peer.st \in {"idle", "asking", "wait", "ok", "failed", "aborted"}
    /\ peer.sid \in 0..MaxSessions
    /\ net \subseteq Datagrams
    /\ faults \in 0..MaxFaults
    /\ stored \in Seq(Seq(1..size))

(* The refinement.  Of several sessions of our server the peer works with  *)
(* one; our server is a sender that is content as soon as any session is.  *)
AsVerdict(st) ==
    IF st \in {"put", "ok", "unsaved"} THEN "ok"
    ELSE IF st \in {"failed", "aborted"} THEN "failed" ELSE "busy"

ServerSent == IF \E s \in Sessions : us[s].st = "ok" THEN "ok" ELSE "busy"
Chosen == IF role = "wrq" /\ peer.sid # 0 THEN us[peer.sid] ELSE us[1]

Have ==
    IF PeerReceiving THEN peer.got
    ELSE IF role = "wrq" /\ peer.sid = 0 THEN <<>> ELSE Chosen.got
Sender ==
    IF role = "put" THEN AsVerdict(us[1].st)
    ELSE IF role = "rrq" THEN ServerSent ELSE AsVerdict(peer.st)
Receiver ==
    IF PeerReceiving THEN AsVerdict(peer.st)
    ELSE IF role = "wrq" /\ peer.sid = 0 THEN "busy" ELSE AsVerdict(Chosen.st)

T == INSTANCE Transfer WITH file <- File, have <- Have, sender <- Sender, receiver <- Receiver

\* Whatever the network does, a transfer in any of the four roles keeps the
\* promise of Transfer: blocks in order and once each, and success told to
\* the sender only when the receiver has them all (tftp.go, tftpserver.go).
TransferSpec == T!Spec

\* The store is given whole files only, and one for each upload of the
\* switch: not what a session has that was abandoned, or that a repeated
\* request opened (kindWRQ, serveLoop).
SavedWhole == stored \in {<<>>, <<File>>}

\* The faults that the role is meant to ride out: none for TFTPGet, which
\* repeats nothing, nor for kindWRQ, whose patience may be over before the
\* first repetition of the switch; fewer than the attempts for the senders.
Tolerated == IF role \in {"put", "rrq"} THEN Retries - 1 ELSE 0
Answered == role = "put" => us[1].block > 1 \/ us[1].tries > 0 \/ us[1].st = "ok"
OurVerdict == {us[s].st : s \in Sessions}

\* A transfer that met no more faults than it is meant to ride out succeeds:
\* although each duplicate acknowledgement uses up an attempt and causes a
\* repetition that is acknowledged twice, block after block (TFTPPut, kindRRQ).
\* TFTPPut is only as patient once its request is answered.
RidesOut ==
    Settled /\ exists /\ peer.st # "aborted" /\ faults <= Tolerated /\ (faults = 0 \/ Answered)
        => "ok" \in OurVerdict /\ (faults = 0 => peer.st = "ok")

\* Every transfer comes to an end on our side, and what the switch believes
\* saved is in the store then, although it is told so before (kindWRQ): only a
\* store that refuses the file keeps it out, and the switch never learns of it.
Ending ==
    <>[](/\ OurVerdict \subseteq {"none", "ok", "unsaved", "failed"}
         /\ role = "wrq" /\ peer.st = "ok" =>
                stored = <<File>> \/ "unsaved" \in OurVerdict)
=============================================================================
