------------------------------ MODULE DeviceLock ------------------------------
(***************************************************************************)
(* How the operations of one provider process share its switches           *)
(* (internal/provider/provider.go, nsdp_client.go,                         *)
(* textcfg_switch_transport.go and data_source_switch_config.go).          *)
(*                                                                         *)
(* Terraform runs many operations at once, on behalf of provider blocks.   *)
(* An operation takes the mutex of its block's device key, waits until the *)
(* last operation under the key started long enough ago, gets the block's  *)
(* cached clients or makes them, and works. No client bears two operations *)
(* at once, and a failed operation may close one. What an operation does   *)
(* with its clients is in the modules of the channels.                     *)
(***************************************************************************)
EXTENDS Integers

CONSTANTS
    Operations,     \* what Terraform runs at once
    Blocks,         \* the provider blocks
    Keys,           \* normalized MACs and canonical hosts; "" is none
    MAC, Host,      \* what each block is configured with
    Models,         \* and for which model
    Spacing,        \* its request_spacing, in ticks
    MaxAge          \* bound: longer ago than this is as good as never

ASSUME DeviceLockAssumption ==
    /\ Blocks # {}
    /\ MAC \in [Blocks -> Keys] /\ Host \in [Blocks -> Keys]
    /\ Models \in [Blocks -> {"gs108ev3", "gs108tv2"}]
    /\ MaxAge \in Nat /\ Spacing \in [Blocks -> 1 .. MaxAge]

VARIABLES
    at,         \* where an operation is
    block,      \* the block it belongs to
    kind,       \* the channel it takes
    holder,     \* the operation that holds the mutex of a key, {} if none
    age,        \* time since the last start under a key (lastRun)
    cached,     \* the clients that a block keeps, at most one a channel
    rested      \* time since the last start for a block or another of its switch

vars == <<at, block, kind, holder, age, cached, rested>>

Channels == {"nsdp", "http", "textcfg"}

\* The choice of withSwitchTransport, and "download" for the data source that
\* logs in for itself.
Kinds(b) ==
    {k \in Channels \cup {"download"} :
        /\ k = "nsdp" => MAC[b] # ""
        /\ k = "http" => Models[b] = "gs108ev3" /\ MAC[b] = "" /\ Host[b] # ""
        /\ k \in {"textcfg", "download"} => Models[b] = "gs108tv2" /\ Host[b] # ""}

\* A slip: the key is the host, also where there is a MAC.
HostKey(b) == Host[b]

\* deviceLockKey
DeviceKey(b) == IF MAC[b] # "" THEN MAC[b] ELSE Host[b]

\* A slip: each channel locks what it addresses.
ChannelKey(o) == IF kind[o] = "nsdp" THEN MAC[block[o]] ELSE Host[block[o]]

Key(o) == DeviceKey(block[o])

\* Two blocks name their switch in the same way.
Agree(b, c) == MAC[b] = MAC[c] /\ (MAC[b] = "" => Host[b] = Host[c])

\* A slip: a text-config operation always asks for the serial number.
NeedsIdentity(o) ==
    {c \in Channels : c = kind[o] \/ (c = "nsdp" /\ kind[o] = "textcfg")}

\* A text-config operation reads the serial number over the NSDP client. A
\* download needs none of the block's clients.
Needs(o) ==
    {c \in Channels :
        c = kind[o] \/ (c = "nsdp" /\ kind[o] = "textcfg" /\ MAC[block[o]] # "")}

\* Of an operation that is over.
AnyBlock == CHOOSE b \in Blocks : TRUE

Init ==
    /\ at = [o \in Operations |-> "idle"]
    /\ block = [o \in Operations |-> AnyBlock]
    /\ kind = [o \in Operations |-> "download"]
    /\ holder = [k \in Keys |-> {}]
    /\ age = [k \in Keys |-> MaxAge]
    /\ cached = [b \in Blocks |-> {}]
    /\ rested = [b \in Blocks |-> MaxAge]

-----------------------------------------------------------------------------
Begin(o) ==
    /\ at[o] = "idle"
    /\ \E b \in Blocks : \E k \in Kinds(b) :
          block' = [block EXCEPT ![o] = b] /\ kind' = [kind EXCEPT ![o] = k]
    /\ at' = [at EXCEPT ![o] = "lock"]
    /\ UNCHANGED <<holder, age, cached, rested>>

Lock(o) ==
    /\ at[o] = "lock" /\ holder[Key(o)] = {}
    /\ holder' = [holder EXCEPT ![Key(o)] = {o}]
    /\ at' = [at EXCEPT ![o] = "pace"]
    /\ UNCHANGED <<block, kind, age, cached, rested>>

\* A slip: a cancelled wait returns without the mutex being given back.
FreedUnlessWaiting(o) == IF at[o] = "pace" THEN holder[Key(o)] ELSE {}

Freed(o) == {}

\* The deferred Unlock, on every way out.
Leave(o) ==
    /\ at' = [at EXCEPT ![o] = "idle"]
    /\ holder' = [holder EXCEPT ![Key(o)] = Freed(o)]
    /\ block' = [block EXCEPT ![o] = AnyBlock]
    /\ kind' = [kind EXCEPT ![o] = "download"]

\* A slip: the pacer keeps the spacing of the block that made it.
WaitOverForAny(o) == \E b \in Blocks : age[Key(o)] >= Spacing[b]

\* waitForDeviceOperation
WaitOver(o) == age[Key(o)] >= Spacing[block[o]]

\* The context is cancelled while the timer runs: that was no start.
Cancelled(o) ==
    /\ at[o] = "pace" /\ ~WaitOver(o)
    /\ Leave(o)
    /\ UNCHANGED <<age, cached, rested>>

Start(o) ==
    /\ at[o] = "pace" /\ WaitOver(o)
    /\ at' = [at EXCEPT ![o] = "clients"]
    /\ age' = [age EXCEPT ![Key(o)] = 0]
    /\ rested' = [b \in Blocks |-> IF Agree(b, block[o]) THEN 0 ELSE rested[b]]
    /\ UNCHANGED <<block, kind, holder, cached>>

Keeps(o, channels) == cached' = [cached EXCEPT ![block[o]] = channels]

\* driverForConfig, textcfgDriverForConfig, nsdpClient: cached or new.
GetClients(o) ==
    /\ at[o] = "clients"
    /\ Keeps(o, cached[block[o]] \cup Needs(o))
    /\ at' = [at EXCEPT ![o] = "work"]
    /\ UNCHANGED <<block, kind, holder, age, rested>>

\* A client cannot be made; one made before it stays cached.
NoClient(o) ==
    /\ at[o] = "clients"
    /\ \E missing \in Needs(o) \ cached[block[o]] :
          Keeps(o, cached[block[o]] \cup ((Needs(o) \cap {"textcfg"}) \ {missing}))
    /\ Leave(o)
    /\ UNCHANGED <<age, rested>>

\* ShouldInvalidateSession, and the new NSDP client that cannot be made.
Closes(o) == {{}} \cup {{c} : c \in {kind[o]} \cap {"http", "nsdp"}}

Return(o) ==
    /\ at[o] = "work"
    /\ \E closed \in Closes(o) : Keeps(o, cached[block[o]] \ closed)
    /\ Leave(o)
    /\ UNCHANGED <<age, rested>>

Older(a) == IF a < MaxAge THEN a + 1 ELSE a

Tick ==
    /\ \E k \in Keys : age[k] < MaxAge
    /\ age' = [k \in Keys |-> Older(age[k])]
    /\ rested' = [b \in Blocks |-> Older(rested[b])]
    /\ UNCHANGED <<at, block, kind, holder, cached>>

Continue(o) == Start(o) \/ GetClients(o) \/ Return(o)

Next ==
    \/ \E o \in Operations :
          Begin(o) \/ Lock(o) \/ Cancelled(o) \/ Continue(o) \/ NoClient(o)
    \/ Tick

\* Operations go on, time passes, and a Go mutex does not starve a goroutine.
Spec ==
    /\ Init /\ [][Next]_vars /\ WF_vars(Tick)
    /\ \A o \in Operations : WF_vars(Continue(o)) /\ SF_vars(Lock(o))

-----------------------------------------------------------------------------
TypeOK ==
    /\ at \in [Operations -> {"idle", "lock", "pace", "clients", "work"}]
    /\ block \in [Operations -> Blocks]
    /\ kind \in [Operations -> Channels \cup {"download"}]
    /\ holder \in [Keys -> SUBSET Operations]
    /\ age \in [Keys -> 0 .. MaxAge] /\ rested \in [Blocks -> 0 .. MaxAge]
    /\ cached \in [Blocks -> SUBSET Channels]
    /\ \A b \in Blocks : cached[b] \subseteq Kinds(b)

Busy(o) == at[o] \in {"clients", "work"}

\* Two operations on blocks that name their switch in the same way are never
\* at it together, whatever their channels ("ONE device key", Configure).
Exclusive ==
    \A o, p \in Operations : o # p /\ Busy(o) /\ Busy(p) => ~Agree(block[o], block[p])

\* No operation has a client of its closed under it by another one (the
\* clients "are NOT safe for concurrent use", nsdp_client.go).
ClientsStayOpen ==
    \A o \in Operations : at[o] = "work" => Needs(o) \subseteq cached[block[o]]

\* An operation starts no sooner than its own spacing after the last start on
\* its switch, even if that was for a block with a shorter one.
Spaced ==
    [][\A o \in Operations : Start(o) => rested[block[o]] >= Spacing[block[o]]]_vars

\* Every operation is served or cancelled, however many there are.
Served == \A o \in Operations : at[o] # "idle" ~> at[o] = "idle"

\* "The provider serializes operations per host" (docs/index.md:116).
SerializedPerHost ==
    \A o, p \in Operations :
        o # p /\ Busy(o) /\ Busy(p) /\ Host[block[o]] # "" =>
            Host[block[o]] # Host[block[p]]
=============================================================================
