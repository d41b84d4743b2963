--------------------------- MODULE DeviceLockProofs ---------------------------
(***************************************************************************)
(* Proofs about DeviceLock, for any blocks, keys, operations and spacings. *)
(***************************************************************************)
EXTENDS DeviceLock, TLAPS

\* The type invariant, the mutexes, and what they protect: the clients of a
\* working operation are there, and the clock of a key is not ahead of the
\* time that has passed for its blocks.
Holds(o) == at[o] \in {"pace", "clients", "work"}

LockHeld == \A o \in Operations : Holds(o) => holder[Key(o)] = {o}

KindFits == \A o \in Operations : at[o] # "idle" => kind[o] \in Kinds(block[o])

NotAhead == \A b \in Blocks : age[DeviceKey(b)] <= rested[b]

IInv == TypeOK /\ LockHeld /\ KindFits /\ ClientsStayOpen /\ NotAhead

-----------------------------------------------------------------------------
(* Lemmas about the operators *)

LEMMA KeyType == \A b \in Blocks : DeviceKey(b) \in Keys
BY DeviceLockAssumption DEF DeviceKey

LEMMA AnyBlockType == AnyBlock \in Blocks
BY DeviceLockAssumption DEF AnyBlock

\* Blocks that agree have one key.
LEMMA AgreeKey ==
    ASSUME NEW b \in Blocks, NEW c \in Blocks, Agree(b, c)
    PROVE  DeviceKey(b) = DeviceKey(c)
BY DEF Agree, DeviceKey

\* An operation needs clients of channels that its block has.
LEMMA NeedsFit ==
    ASSUME NEW o \in Operations, kind[o] \in Kinds(block[o])
    PROVE  Needs(o) \subseteq Channels /\ Needs(o) \subseteq Kinds(block[o])
BY DEF Needs, Kinds, Channels

\* Two operations that hold a mutex have two keys, and so two blocks.
LEMMA HoldersDiffer ==
    ASSUME LockHeld, NEW o \in Operations, NEW p \in Operations, o # p, Holds(o), Holds(p)
    PROVE  Key(o) # Key(p) /\ block[o] # block[p]
BY DEF LockHeld, Key

-----------------------------------------------------------------------------
(* The invariant *)

LEMMA Initially == Init => IInv
<1> SUFFICES ASSUME Init PROVE IInv OBVIOUS
<1>1. TypeOK BY DeviceLockAssumption, AnyBlockType DEF Init, TypeOK, Channels
<1>2. LockHeld /\ KindFits /\ ClientsStayOpen
    BY DEF Init, LockHeld, Holds, KindFits, ClientsStayOpen
<1>3. NotAhead BY DeviceLockAssumption, KeyType DEF Init, NotAhead
<1> QED BY <1>1, <1>2, <1>3 DEF IInv

\* What a step of one operation leaves to the others.
Others(o) ==
    \A p \in Operations \ {o} :
        at'[p] = at[p] /\ block'[p] = block[p] /\ kind'[p] = kind[p]

\* Another operation keeps its key and what it needs.
LEMMA OthersKeep ==
    ASSUME NEW o \in Operations, Others(o), NEW p \in Operations, p # o
    PROVE  Key(p)' = Key(p) /\ Needs(p)' = Needs(p) /\ Holds(p)' = Holds(p)
BY DEF Others, Key, DeviceKey, Needs, Holds

\* Leaving gives back the mutex and touches no other operation.
LEMMA LeaveKeeps ==
    ASSUME IInv, NEW o \in Operations, Holds(o), Leave(o)
    PROVE  /\ Others(o) /\ at'[o] = "idle" /\ LockHeld' /\ KindFits'
           /\ at' \in [Operations -> {"idle", "lock", "pace", "clients", "work"}]
           /\ block' \in [Operations -> Blocks]
           /\ kind' \in [Operations -> Channels \cup {"download"}]
           /\ holder' \in [Keys -> SUBSET Operations]
<1>1. TypeOK /\ LockHeld /\ KindFits BY DEF IInv
<1>2. Others(o) /\ at'[o] = "idle" BY <1>1 DEF Leave, Others, TypeOK
<1>3. Key(o) \in Keys BY <1>1, KeyType DEF Key, TypeOK
<1>4. holder' = [holder EXCEPT ![Key(o)] = {}] BY DEF Leave, Freed
<1>5. ASSUME NEW p \in Operations, Holds(p)' PROVE holder'[Key(p)'] = {p}
    <2>1. p # o /\ Holds(p) BY <1>2, <1>5, OthersKeep DEF Holds
    <2>2. Key(p)' = Key(p) /\ Key(p) # Key(o)
        BY <1>1, <1>2, <2>1, OthersKeep, HoldersDiffer
    <2>3. holder[Key(p)] = {p} BY <1>1, <2>1 DEF LockHeld
    <2>4. Key(p) \in Keys BY <1>1, KeyType DEF Key, TypeOK
    <2> QED BY <1>1, <1>4, <2>2, <2>3, <2>4 DEF TypeOK
<1>6. LockHeld' BY <1>5 DEF LockHeld
<1>7. KindFits'
    <2> SUFFICES ASSUME NEW p \in Operations, at'[p] # "idle"
                 PROVE  kind'[p] \in Kinds(block'[p])
        BY DEF KindFits, Kinds
    <2>1. p # o /\ kind[p] \in Kinds(block[p]) BY <1>1, <1>2 DEF KindFits, Others
    <2> QED BY <1>2, <2>1 DEF Others
<1> QED BY <1>1, <1>2, <1>3, <1>6, <1>7, AnyBlockType DEF Leave, Freed, TypeOK

\* A holder that changes the clients of its block closes none under another.
LEMMA ClientsOfOthers ==
    ASSUME IInv, NEW o \in Operations, Holds(o), Others(o), NEW channels,
           Keeps(o, channels)
    PROVE  \A p \in Operations \ {o} :
               at'[p] = "work" => Needs(p)' \subseteq cached'[block'[p]]
<1> SUFFICES ASSUME NEW p \in Operations \ {o}, at'[p] = "work"
             PROVE  Needs(p)' \subseteq cached'[block'[p]]
    OBVIOUS
<1>1. TypeOK /\ LockHeld /\ ClientsStayOpen BY DEF IInv
<1>2. at[p] = "work" /\ block'[p] = block[p] /\ Needs(p)' = Needs(p)
    BY OthersKeep DEF Others
<1>3. block[p] # block[o] BY <1>1, <1>2, HoldersDiffer DEF Holds
<1>4. cached'[block[p]] = cached[block[p]]
    BY <1>1, <1>3 DEF Keeps, TypeOK
<1> QED BY <1>1, <1>2, <1>4 DEF ClientsStayOpen

\* A holder that goes on keeps its mutex.
LEMMA GoingOnKeeps ==
    ASSUME IInv, NEW o \in Operations, Holds(o), NEW place \in {"clients", "work"},
           at' = [at EXCEPT ![o] = place], UNCHANGED <<block, kind, holder>>
    PROVE  /\ Others(o) /\ at'[o] = place /\ LockHeld' /\ KindFits'
           /\ at' \in [Operations -> {"idle", "lock", "pace", "clients", "work"}]
<1>1. TypeOK /\ LockHeld /\ KindFits BY DEF IInv
<1>2. Others(o) /\ at'[o] = place BY <1>1 DEF Others, TypeOK
<1>3. LockHeld' BY <1>1, <1>2 DEF LockHeld, Others, Holds, Key, DeviceKey
<1>4. KindFits'
    <2> SUFFICES ASSUME NEW p \in Operations, at'[p] # "idle"
                 PROVE  kind'[p] \in Kinds(block'[p])
        BY DEF KindFits, Kinds
    <2> QED BY <1>1, <1>2 DEF KindFits, Others, Holds
<1> QED BY <1>1, <1>2, <1>3, <1>4 DEF TypeOK

\* An operation that is not at work closes nothing by moving.
LEMMA ClientsUntouched ==
    ASSUME IInv, NEW o \in Operations, Others(o), at'[o] # "work", UNCHANGED cached
    PROVE  ClientsStayOpen'
<1>1. ASSUME NEW p \in Operations, at'[p] = "work"
      PROVE  Needs(p)' \subseteq cached'[block'[p]]
    <2>1. p # o /\ Needs(p)' = Needs(p) /\ block'[p] = block[p] /\ at[p] = "work"
        BY <1>1, OthersKeep DEF Others
    <2> QED BY <2>1 DEF IInv, ClientsStayOpen
<1> QED BY <1>1 DEF ClientsStayOpen

\* What a block keeps are clients it can have.
LEMMA KeepsType ==
    ASSUME TypeOK, NEW o \in Operations, NEW channels \in SUBSET Channels,
           channels \subseteq Kinds(block[o]), Keeps(o, channels)
    PROVE  /\ cached' \in [Blocks -> SUBSET Channels]
           /\ \A b \in Blocks : cached'[b] \subseteq Kinds(b)
           /\ cached'[block[o]] = channels
<1>1. cached \in [Blocks -> SUBSET Channels] /\ block[o] \in Blocks BY DEF TypeOK
<1>2. cached' = [cached EXCEPT ![block[o]] = channels] BY DEF Keeps
<1>3. \A b \in Blocks : cached'[b] = IF b = block[o] THEN channels ELSE cached[b]
    BY <1>1, <1>2
<1>4. \A b \in Blocks : cached[b] \subseteq Kinds(b) BY DEF TypeOK
<1> QED BY <1>1, <1>2, <1>3, <1>4

\* The clocks stand still.
LEMMA ClocksStay ==
    ASSUME IInv, UNCHANGED <<age, rested>>
    PROVE  NotAhead' /\ age' \in [Keys -> 0 .. MaxAge] /\ rested' \in [Blocks -> 0 .. MaxAge]
BY DEF IInv, NotAhead, DeviceKey, TypeOK

\* The types after a step that keeps the clients and the clocks.
LEMMA TypesStay ==
    ASSUME TypeOK, UNCHANGED <<age, rested, cached>>,
           at' \in [Operations -> {"idle", "lock", "pace", "clients", "work"}],
           block' \in [Operations -> Blocks],
           kind' \in [Operations -> Channels \cup {"download"}],
           holder' \in [Keys -> SUBSET Operations]
    PROVE  TypeOK'
<1>1. \A b \in Blocks : cached'[b] \subseteq Kinds(b) BY DEF TypeOK
<1>2. /\ age' \in [Keys -> 0 .. MaxAge] /\ rested' \in [Blocks -> 0 .. MaxAge]
      /\ cached' \in [Blocks -> SUBSET Channels]
    BY DEF TypeOK
<1> QED BY <1>1, <1>2 DEF TypeOK, Kinds

-----------------------------------------------------------------------------
(* One lemma an action *)

LEMMA BeginKeeps ==
    ASSUME IInv, NEW o \in Operations, Begin(o)
    PROVE  IInv'
<1> PICK b \in Blocks : \E k \in Kinds(b) :
        block' = [block EXCEPT ![o] = b] /\ kind' = [kind EXCEPT ![o] = k]
    BY DEF Begin
<1>1. PICK k \in Kinds(b) :
          block' = [block EXCEPT ![o] = b] /\ kind' = [kind EXCEPT ![o] = k]
    OBVIOUS
<1>2. TypeOK /\ LockHeld /\ KindFits BY DEF IInv
<1>3. k \in Channels \cup {"download"} BY DEF Kinds
<1>4. at' = [at EXCEPT ![o] = "lock"] BY DEF Begin
<1>5. Others(o) /\ at'[o] = "lock" /\ block'[o] = b /\ kind'[o] = k
    BY <1>1, <1>2, <1>4 DEF Others, TypeOK
<1>6. TypeOK'
    <2>1. /\ at' \in [Operations -> {"idle", "lock", "pace", "clients", "work"}]
          /\ block' \in [Operations -> Blocks]
          /\ kind' \in [Operations -> Channels \cup {"download"}]
          /\ holder' \in [Keys -> SUBSET Operations]
        BY <1>1, <1>2, <1>3, <1>4 DEF TypeOK, Begin
    <2> QED BY <1>2, <2>1, TypesStay DEF Begin
<1>7. LockHeld'
    <2> SUFFICES ASSUME NEW p \in Operations, Holds(p)' PROVE holder'[Key(p)'] = {p}
        BY DEF LockHeld
    <2>1. p # o BY <1>5 DEF Holds
    <2> QED BY <1>2, <1>5, <2>1, OthersKeep DEF LockHeld, Begin
<1>8. KindFits'
    <2> SUFFICES ASSUME NEW p \in Operations, at'[p] # "idle"
                 PROVE  kind'[p] \in Kinds(block'[p])
        BY DEF KindFits, Kinds
    <2> QED BY <1>2, <1>5 DEF KindFits, Others
<1>9. ClientsStayOpen' BY <1>5, ClientsUntouched DEF Begin
<1>10. NotAhead' BY ClocksStay DEF Begin
<1> QED BY <1>6, <1>7, <1>8, <1>9, <1>10 DEF IInv

LEMMA LockKeeps ==
    ASSUME IInv, NEW o \in Operations, Lock(o)
    PROVE  IInv'
<1>1. TypeOK /\ LockHeld /\ KindFits BY DEF IInv
<1>2. at' = [at EXCEPT ![o] = "pace"] /\ holder' = [holder EXCEPT ![Key(o)] = {o}]
    BY DEF Lock
<1>3. Others(o) /\ at'[o] = "pace" /\ Key(o) \in Keys
    BY <1>1, <1>2, KeyType DEF Lock, Others, Key, TypeOK
<1>4. TypeOK'
    <2>1. /\ at' \in [Operations -> {"idle", "lock", "pace", "clients", "work"}]
          /\ holder' \in [Keys -> SUBSET Operations]
        BY <1>1, <1>2, <1>3 DEF TypeOK
    <2>2. UNCHANGED <<block, kind, age, rested, cached>> BY DEF Lock
    <2>3. block' \in [Operations -> Blocks]
          /\ kind' \in [Operations -> Channels \cup {"download"}]
        BY <1>1, <2>2 DEF TypeOK
    <2> QED BY <1>1, <2>1, <2>2, <2>3, TypesStay
<1>5. LockHeld'
    <2> SUFFICES ASSUME NEW p \in Operations, Holds(p)' PROVE holder'[Key(p)'] = {p}
        BY DEF LockHeld
    <2>1. Key(p)' = Key(p) BY DEF Lock, Key, DeviceKey
    <2>2. CASE p = o BY <1>1, <1>2, <1>3, <2>1, <2>2 DEF TypeOK
    <2>3. CASE p # o
        <3>1. holder[Key(p)] = {p} BY <1>1, <1>3, <2>3, OthersKeep DEF LockHeld
        <3>2. Key(p) # Key(o) BY <3>1 DEF Lock
        <3>3. Key(p) \in Keys BY <1>1, KeyType DEF Key, TypeOK
        <3> QED BY <1>1, <1>2, <2>1, <3>1, <3>2, <3>3 DEF TypeOK
    <2> QED BY <2>2, <2>3
<1>6. KindFits'
    <2> SUFFICES ASSUME NEW p \in Operations, at'[p] # "idle"
                 PROVE  kind'[p] \in Kinds(block'[p])
        BY DEF KindFits, Kinds
    <2> QED BY <1>1, <1>3 DEF KindFits, Others, Lock
<1>7. ClientsStayOpen' BY <1>3, ClientsUntouched DEF Lock
<1>8. NotAhead' BY ClocksStay DEF Lock
<1> QED BY <1>4, <1>5, <1>6, <1>7, <1>8 DEF IInv

LEMMA CancelledKeeps ==
    ASSUME IInv, NEW o \in Operations, Cancelled(o)
    PROVE  IInv'
<1>1. Holds(o) /\ Leave(o) BY DEF Cancelled, Holds
<1>2. TypeOK' BY <1>1, LeaveKeeps, TypesStay DEF IInv, Cancelled
<1>3. ClientsStayOpen' BY <1>1, LeaveKeeps, ClientsUntouched DEF Cancelled
<1>4. NotAhead' BY ClocksStay DEF Cancelled
<1> QED BY <1>1, <1>2, <1>3, <1>4, LeaveKeeps DEF IInv

LEMMA StartKeeps ==
    ASSUME IInv, NEW o \in Operations, Start(o)
    PROVE  IInv'
<1>1. Holds(o) /\ at' = [at EXCEPT ![o] = "clients"] /\ UNCHANGED <<block, kind, holder>>
    BY DEF Start, Holds
<1>2. TypeOK /\ NotAhead BY DEF IInv
<1>3. Key(o) \in Keys /\ block[o] \in Blocks BY <1>2, KeyType DEF Key, TypeOK
<1>4. age' \in [Keys -> 0 .. MaxAge] /\ rested' \in [Blocks -> 0 .. MaxAge]
    <2>1. 0 \in 0 .. MaxAge BY DeviceLockAssumption
    <2>2. age' = [age EXCEPT ![Key(o)] = 0]
          /\ rested' = [b \in Blocks |-> IF Agree(b, block[o]) THEN 0 ELSE rested[b]]
        BY DEF Start
    <2> QED BY <1>2, <2>1, <2>2 DEF TypeOK
<1>5. TypeOK' BY <1>1, <1>2, <1>4, GoingOnKeeps DEF Start, TypeOK, Kinds
<1>6. NotAhead'
    <2> SUFFICES ASSUME NEW b \in Blocks PROVE age'[DeviceKey(b)] <= rested'[b]
        BY DEF NotAhead, DeviceKey
    <2>1. DeviceKey(b) \in Keys BY KeyType
    <2>2. CASE DeviceKey(b) = Key(o)
        <3>1. age'[DeviceKey(b)] = 0 BY <1>2, <2>1, <2>2 DEF Start, TypeOK
        <3> QED BY <1>4, <3>1, DeviceLockAssumption
    <2>3. CASE DeviceKey(b) # Key(o)
        <3>1. ~Agree(b, block[o]) BY <1>3, <2>3, AgreeKey DEF Key
        <3>2. age'[DeviceKey(b)] = age[DeviceKey(b)] /\ rested'[b] = rested[b]
            BY <1>2, <2>1, <2>3, <3>1 DEF Start, TypeOK
        <3> QED BY <1>2, <3>2 DEF NotAhead
    <2> QED BY <2>2, <2>3
<1>7. ClientsStayOpen' BY <1>1, GoingOnKeeps, ClientsUntouched DEF Start
<1> QED BY <1>1, <1>5, <1>6, <1>7, GoingOnKeeps DEF IInv

LEMMA GetClientsKeeps ==
    ASSUME IInv, NEW o \in Operations, GetClients(o)
    PROVE  IInv'
<1> DEFINE channels == cached[block[o]] \cup Needs(o)
<1>1. Holds(o) /\ at' = [at EXCEPT ![o] = "work"] /\ UNCHANGED <<block, kind, holder>>
    BY DEF GetClients, Holds
<1>2. TypeOK /\ KindFits BY DEF IInv
<1>3. Needs(o) \subseteq Channels /\ Needs(o) \subseteq Kinds(block[o])
    BY <1>2, NeedsFit DEF KindFits, GetClients
<1>4. channels \in SUBSET Channels /\ channels \subseteq Kinds(block[o])
    BY <1>2, <1>3 DEF TypeOK
<1>5. Keeps(o, channels) BY DEF GetClients
<1> HIDE DEF channels
<1>6. /\ cached' \in [Blocks -> SUBSET Channels]
      /\ \A b \in Blocks : cached'[b] \subseteq Kinds(b)
      /\ cached'[block[o]] = channels
    BY <1>2, <1>4, <1>5, KeepsType
<1>7. TypeOK' BY <1>1, <1>2, <1>6, GoingOnKeeps DEF GetClients, TypeOK, Kinds
<1>8. ClientsStayOpen'
    <2> SUFFICES ASSUME NEW p \in Operations, at'[p] = "work"
                 PROVE  Needs(p)' \subseteq cached'[block'[p]]
        BY DEF ClientsStayOpen
    <2>1. CASE p = o
        <3>1. Needs(o)' = Needs(o) BY <1>1 DEF Needs
        <3> QED BY <1>1, <1>6, <2>1, <3>1 DEF channels
    <2>2. CASE p # o BY <1>1, <1>5, <2>2, GoingOnKeeps, ClientsOfOthers
    <2> QED BY <2>1, <2>2
<1>9. NotAhead' BY ClocksStay DEF GetClients
<1> QED BY <1>1, <1>7, <1>8, <1>9, GoingOnKeeps DEF IInv

\* The end of an operation, whatever clients its block then keeps.
LEMMA EndKeeps ==
    ASSUME IInv, NEW o \in Operations, Holds(o), Leave(o), UNCHANGED <<age, rested>>,
           NEW channels \in SUBSET Channels, channels \subseteq Kinds(block[o]),
           Keeps(o, channels)
    PROVE  IInv'
<1>1. TypeOK BY DEF IInv
<1>2. TypeOK' BY <1>1, LeaveKeeps, KeepsType DEF TypeOK, Kinds
<1>3. ClientsStayOpen'
    <2> SUFFICES ASSUME NEW p \in Operations, at'[p] = "work"
                 PROVE  Needs(p)' \subseteq cached'[block'[p]]
        BY DEF ClientsStayOpen
    <2>1. p # o BY LeaveKeeps
    <2> QED BY <2>1, LeaveKeeps, ClientsOfOthers
<1>4. NotAhead' BY ClocksStay
<1> QED BY <1>2, <1>3, <1>4, LeaveKeeps DEF IInv

LEMMA NoClientKeeps ==
    ASSUME IInv, NEW o \in Operations, NoClient(o)
    PROVE  IInv'
<1>1. Holds(o) /\ Leave(o) /\ UNCHANGED <<age, rested>> BY DEF NoClient, Holds
<1>2. TypeOK /\ KindFits BY DEF IInv
<1>3. PICK missing \in Needs(o) \ cached[block[o]] :
          Keeps(o, cached[block[o]] \cup ((Needs(o) \cap {"textcfg"}) \ {missing}))
    BY DEF NoClient
<1> DEFINE channels == cached[block[o]] \cup ((Needs(o) \cap {"textcfg"}) \ {missing})
<1>4. Needs(o) \subseteq Channels /\ Needs(o) \subseteq Kinds(block[o])
    BY <1>2, NeedsFit DEF KindFits, NoClient
<1>5. cached[block[o]] \in SUBSET Channels /\ cached[block[o]] \subseteq Kinds(block[o])
    BY <1>2 DEF TypeOK
<1>6. channels \in SUBSET Channels /\ channels \subseteq Kinds(block[o]) BY <1>4, <1>5
<1> QED BY <1>1, <1>3, <1>6, EndKeeps

LEMMA ReturnKeeps ==
    ASSUME IInv, NEW o \in Operations, Return(o)
    PROVE  IInv'
<1>1. Holds(o) /\ Leave(o) /\ UNCHANGED <<age, rested>> BY DEF Return, Holds
<1>2. PICK closed \in Closes(o) : Keeps(o, cached[block[o]] \ closed) BY DEF Return
<1>3. cached[block[o]] \in SUBSET Channels /\ cached[block[o]] \subseteq Kinds(block[o])
    BY DEF IInv, TypeOK
<1>4. cached[block[o]] \ closed \in SUBSET Channels
      /\ cached[block[o]] \ closed \subseteq Kinds(block[o])
    BY <1>3
<1> QED BY <1>1, <1>2, <1>4, EndKeeps

LEMMA TickKeeps ==
    ASSUME IInv, Tick
    PROVE  IInv'
<1>1. TypeOK /\ NotAhead /\ MaxAge \in Nat BY DeviceLockAssumption DEF IInv
<1>2. \A a \in 0 .. MaxAge : Older(a) \in 0 .. MaxAge BY <1>1 DEF Older
<1>3. TypeOK' BY <1>1, <1>2 DEF Tick, TypeOK, Kinds
<1>4. NotAhead'
    <2> SUFFICES ASSUME NEW b \in Blocks PROVE age'[DeviceKey(b)] <= rested'[b]
        BY DEF NotAhead, DeviceKey
    <2>1. age'[DeviceKey(b)] = Older(age[DeviceKey(b)]) /\ rested'[b] = Older(rested[b])
        BY KeyType DEF Tick
    <2>2. age[DeviceKey(b)] \in 0 .. MaxAge /\ rested[b] \in 0 .. MaxAge
        BY <1>1, KeyType DEF TypeOK
    <2> QED BY <1>1, <2>1, <2>2 DEF NotAhead, Older
<1>5. LockHeld' BY DEF IInv, Tick, LockHeld, Holds, Key, DeviceKey
<1>6. KindFits' /\ ClientsStayOpen'
    BY DEF IInv, Tick, KindFits, ClientsStayOpen, Needs, Kinds
<1> QED BY <1>3, <1>4, <1>5, <1>6 DEF IInv

LEMMA Preserved == IInv /\ [Next]_vars => IInv'
<1> SUFFICES ASSUME IInv, [Next]_vars PROVE IInv' OBVIOUS
<1>1. ASSUME NEW o \in Operations, Begin(o) PROVE IInv' BY <1>1, BeginKeeps
<1>2. ASSUME NEW o \in Operations, Lock(o) PROVE IInv' BY <1>2, LockKeeps
<1>3. ASSUME NEW o \in Operations, Cancelled(o) PROVE IInv' BY <1>3, CancelledKeeps
<1>4. ASSUME NEW o \in Operations, Start(o) PROVE IInv' BY <1>4, StartKeeps
<1>5. ASSUME NEW o \in Operations, GetClients(o) PROVE IInv' BY <1>5, GetClientsKeeps
<1>6. ASSUME NEW o \in Operations, NoClient(o) PROVE IInv' BY <1>6, NoClientKeeps
<1>7. ASSUME NEW o \in Operations, Return(o) PROVE IInv' BY <1>7, ReturnKeeps
<1>8. CASE Tick BY <1>8, TickKeeps
<1>9. CASE UNCHANGED vars
    BY <1>9 DEF vars, IInv, TypeOK, LockHeld, Holds, Key, DeviceKey, KindFits,
                Kinds, ClientsStayOpen, Needs, NotAhead
<1> QED BY <1>1, <1>2, <1>3, <1>4, <1>5, <1>6, <1>7, <1>8, <1>9 DEF Next, Continue

LEMMA Invariant == Spec => []IInv
BY Initially, Preserved, PTL DEF Spec

-----------------------------------------------------------------------------
(* What it gives *)

\* The state keeps its types, and no block keeps a client it has no use for.
THEOREM TypeCorrect == Spec => []TypeOK
<1>1. IInv => TypeOK BY DEF IInv
<1> QED BY <1>1, Invariant, PTL

\* The mutex of the device key keeps apart the operations of blocks that name
\* their switch in the same way, however many operations and blocks there are.
THEOREM Exclusion == Spec => []Exclusive
<1>1. IInv => Exclusive
    <2> SUFFICES ASSUME IInv, NEW o \in Operations, NEW p \in Operations, o # p,
                        Busy(o), Busy(p), Agree(block[o], block[p])
                 PROVE  FALSE
        BY DEF Exclusive
    <2>1. LockHeld /\ Holds(o) /\ Holds(p) BY DEF IInv, Busy, Holds
    <2>2. block[o] \in Blocks /\ block[p] \in Blocks BY DEF IInv, TypeOK
    <2>3. Key(o) = Key(p) BY <2>2, AgreeKey DEF Key
    <2> QED BY <2>1, <2>3, HoldersDiffer
<1> QED BY <1>1, Invariant, PTL

\* "The provider serializes operations per host" (docs/index.md:116) as far as
\* the blocks that name a host agree on what they call its switch: the one way
\* around the lock is a block with the MAC next to one without, or another MAC.
THEOREM HostsSerialized ==
    (\A b, c \in Blocks : Host[b] # "" /\ Host[b] = Host[c] => Agree(b, c)) =>
        (Spec => []SerializedPerHost)
<1> SUFFICES ASSUME \A b, c \in Blocks : Host[b] # "" /\ Host[b] = Host[c] => Agree(b, c)
             PROVE  Spec => []SerializedPerHost
    OBVIOUS
<1>1. TypeOK /\ Exclusive => SerializedPerHost
    <2> SUFFICES ASSUME TypeOK, Exclusive, NEW o \in Operations, NEW p \in Operations, o # p,
                        Busy(o), Busy(p), Host[block[o]] # "", Host[block[o]] = Host[block[p]]
                 PROVE  FALSE
        BY DEF SerializedPerHost
    <2>1. block[o] \in Blocks /\ block[p] \in Blocks BY DEF TypeOK
    <2>2. Agree(block[o], block[p]) BY <2>1
    <2> QED BY <2>2 DEF Exclusive
<1> QED BY <1>1, TypeCorrect, Exclusion, PTL

\* A client that is shared through its block is closed under nobody.
THEOREM ClientsOpen == Spec => []ClientsStayOpen
<1>1. IInv => ClientsStayOpen BY DEF IInv
<1> QED BY <1>1, Invariant, PTL

\* The spacing of an operation's own block is kept, because the clock of its key
\* is never ahead of the time since the last start on its switch.
THEOREM StartsSpaced == Spec => Spaced
<1>1. ASSUME IInv, NEW o \in Operations, Start(o)
      PROVE  rested[block[o]] >= Spacing[block[o]]
    <2>1. block[o] \in Blocks BY <1>1 DEF IInv, TypeOK
    <2>2. age[Key(o)] <= rested[block[o]] BY <1>1, <2>1 DEF IInv, NotAhead, Key
    <2>3. age[Key(o)] \in Int /\ rested[block[o]] \in Int /\ Spacing[block[o]] \in Int
        BY <1>1, <2>1, KeyType, DeviceLockAssumption DEF IInv, TypeOK, Key
    <2> QED BY <1>1, <2>2, <2>3 DEF Start, WaitOver
<1>2. IInv => [\A o \in Operations : Start(o) => rested[block[o]] >= Spacing[block[o]]]_vars
    BY <1>1
<1> QED BY <1>2, Invariant, PTL DEF Spaced
=============================================================================
