--------------------------- MODULE NsdpSessionProofs ---------------------------
(***************************************************************************)
(* Proofs about NsdpSession, for any settings, attempts, strikes and       *)
(* numbers, and any number of faults.                                      *)
(***************************************************************************)
EXTENDS NsdpSession, TLAPS, FiniteSetTheorems

Phases == {"idle", "read", "apply", "verify", "correct", "recheck"}

Stages == {"none", "capability", "nonce", "login", "refresh", "set", "get"}

\* Types of what the proofs speak about.
Typed ==
    /\ faults \in Nat /\ strikes \in Nat /\ logins \in Nat
    /\ wrong \subseteq Settings /\ phase \in Phases
    /\ IsFiniteSet(requests)
    /\ \A m \in requests \cup replies : m.seq \in Seqs
    /\ call \in [stage : Stages, attempt : Nat, seq : Seqs \cup {0}]
    /\ call.stage = "none" => call = NoCall
    /\ client.loggedIn \in BOOLEAN
    /\ client = [loggedIn |-> client.loggedIn, token |-> client.token]

\* No exchange without an operation, and GETs only in the phases that read.
Placed ==
    /\ phase = "idle" => todo = {} /\ call = NoCall
    /\ phase # "idle" => outcome = "running"
    /\ call # NoCall => (Reading <=> call.stage = "get")

\* The request of the exchange under way; the others have been given up.
CurrentRequest ==
    [seq |-> call.seq, stage |-> call.stage, setting |-> Setting,
     token |-> IF call.stage \in Sets THEN client.token ELSE 0]

\* A datagram with the number of the exchange is its request, or its answer
\* once the request has arrived.
Matched ==
    /\ \A r \in requests : Matches(r) => r = CurrentRequest
    /\ \A r \in replies : Matches(r) => \A q \in requests : ~Matches(q)

\* SETs given up on that may still arrive: each was a fault.
GivenUp == {r \in requests : r.stage \in Sets /\ ~Matches(r)}

\* The exchange has, or is about to be given, a token the switch will refuse.
StaleToken ==
    \/ /\ call.stage \in {"nonce", "refresh"}
       /\ \E r \in replies : Matches(r) /\ r.body # nonce
    \/ call.stage \in Sets /\ call.seq = 0 /\ client.token # nonce
    \/ \E r \in requests : Matches(r) /\ r.stage \in Sets /\ r.token # nonce

\* The exchange is about to learn that its token was refused.
RefusalArrived == \E r \in replies : Matches(r) /\ r.status = "auth"

\* The second run that the operation has had, or is about to have.
Reruns == (IF RefusalArrived THEN 1 ELSE 0) + (IF again THEN 1 ELSE 0)

\* Every strike, and every datagram that may still become one, is a fault's;
\* and so is every second run.
Charged ==
    right =>
        /\ strikes + Cardinality(GivenUp) + (IF StaleToken THEN 1 ELSE 0) <= faults
        /\ Reruns + Cardinality(GivenUp) + (IF StaleToken THEN 1 ELSE 0) <= faults

\* A run of a strict operation logs in once: before its login it is not logged
\* in, and an unanswered or refused login ends the run.
LoginSpent == client.loggedIn \/ (call.stage = "login" /\ call.seq # 0)

LoginsPaid ==
    ~tolerant =>
        /\ logins <= 2
        /\ phase # "idle" => logins <= (IF again THEN 1 ELSE 0) + (IF LoginSpent THEN 1 ELSE 0)

LoginFirst == call.stage \in {"capability", "nonce", "login"} => ~client.loggedIn

\* What a phase has read right is right.
ReadRight ==
    ~touched =>
        /\ Reading => wrong \subseteq todo \cup differing
        /\ call.stage = "get" =>
               \A r \in replies : Matches(r) /\ r.body = 0 => Setting \notin wrong

IInv ==
    Typed /\ Placed /\ Matched /\ Charged /\ LoginFirst /\ LoginsPaid /\ ReadRight /\ Verified
-----------------------------------------------------------------------------
(* Counting the requests given up on *)

\* The cardinality of a subset, of one that misses an element, and of a set
\* with one element more at most.
LEMMA Counting ==
    ASSUME NEW S, IsFiniteSet(S), NEW T
    PROVE  /\ Cardinality(S) \in Nat
           /\ T \subseteq S => Cardinality(T) \in Nat /\ Cardinality(T) <= Cardinality(S)
           /\ \A x \in S : T \subseteq S \ {x} =>
                  Cardinality(T) \in Nat /\ Cardinality(T) <= Cardinality(S) - 1
           /\ \A x : T \subseteq S \cup {x} =>
                  Cardinality(T) \in Nat /\ Cardinality(T) <= Cardinality(S) + 1
<1>1. Cardinality(S) \in Nat
  BY FS_CardinalityType
<1>2. \A U : IsFiniteSet(U) /\ T \subseteq U =>
        Cardinality(T) \in Nat /\ Cardinality(T) <= Cardinality(U)
  BY FS_Subset, FS_CardinalityType
<1>3. \A x \in S : IsFiniteSet(S \ {x}) /\ Cardinality(S \ {x}) = Cardinality(S) - 1
  BY FS_RemoveElement
<1>4. \A x : IsFiniteSet(S \cup {x}) /\ Cardinality(S \cup {x}) <= Cardinality(S) + 1
  BY <1>1, FS_AddElement
<1>5. T \subseteq S => Cardinality(T) \in Nat /\ Cardinality(T) <= Cardinality(S)
  BY <1>2
<1>6. ASSUME NEW x \in S, T \subseteq S \ {x}
      PROVE  Cardinality(T) \in Nat /\ Cardinality(T) <= Cardinality(S) - 1
  <2>1. Cardinality(T) \in Nat /\ Cardinality(T) <= Cardinality(S \ {x})
    BY <1>2, <1>3, <1>6
  <2>2. QED
    BY <2>1, <1>3
<1>7. ASSUME NEW x, T \subseteq S \cup {x}
      PROVE  Cardinality(T) \in Nat /\ Cardinality(T) <= Cardinality(S) + 1
  <2>1. Cardinality(T) \in Nat /\ Cardinality(T) <= Cardinality(S \cup {x})
    BY <1>2, <1>4, <1>7
  <2>2. IsFiniteSet(S \cup {x}) /\ Cardinality(S \cup {x}) <= Cardinality(S) + 1
    BY <1>4
  <2>3. Cardinality(S \cup {x}) \in Nat
    BY <2>2, FS_CardinalityType
  <2>4. QED
    BY <2>1, <2>2, <2>3, <1>1
<1>8. QED
  BY <1>1, <1>5, <1>6, <1>7

\* There are finitely many requests given up on.
LEMMA GivenUpFinite ==
    ASSUME Typed
    PROVE  IsFiniteSet(GivenUp)
BY FS_Subset DEF Typed, GivenUp

\* Runs are a number.
LEMMA RerunsCounted ==
    Reruns \in Nat /\ Reruns' \in Nat
BY DEF Reruns

\* A step charges nothing when no request is given up on, no strike added and no
\* token made stale.
LEMMA ChargesNothing ==
    ASSUME Typed, Typed', Charged, right' = right,
           strikes' <= strikes, Reruns' <= Reruns, faults' >= faults,
           GivenUp' \subseteq GivenUp, StaleToken' => StaleToken
    PROVE  Charged'
<1>1. Cardinality(GivenUp) \in Nat /\ Cardinality(GivenUp') \in Nat
      /\ Cardinality(GivenUp') <= Cardinality(GivenUp)
  BY GivenUpFinite, Counting
<1>2. QED
  BY <1>1, RerunsCounted DEF Charged, Typed

\* A fault pays for a token made stale.
LEMMA FaultPays ==
    ASSUME Typed, Typed', Charged, right' = right,
           strikes' <= strikes, Reruns' <= Reruns, faults' = faults + 1,
           GivenUp' \subseteq GivenUp
    PROVE  Charged'
<1>1. Cardinality(GivenUp) \in Nat /\ Cardinality(GivenUp') \in Nat
      /\ Cardinality(GivenUp') <= Cardinality(GivenUp)
  BY GivenUpFinite, Counting
<1>2. QED
  BY <1>1, RerunsCounted DEF Charged, Typed

\* A fault pays for a request given up on.
LEMMA FaultPaysRequest ==
    ASSUME Typed, Typed', Charged, right' = right,
           strikes' <= strikes, Reruns' <= Reruns, faults' = faults + 1, ~StaleToken',
           NEW r, GivenUp' \subseteq GivenUp \cup {r}
    PROVE  Charged'
<1>1. Cardinality(GivenUp) \in Nat /\ Cardinality(GivenUp') \in Nat
      /\ Cardinality(GivenUp') <= Cardinality(GivenUp) + 1
  BY GivenUpFinite, Counting
<1>2. QED
  BY <1>1, RerunsCounted DEF Charged, Typed

\* A request given up on pays, when it arrives, for one strike or for a stale
\* token.
LEMMA RequestPays ==
    ASSUME Typed, Typed', Charged, right' = right,
           NEW r \in GivenUp, GivenUp' \subseteq GivenUp \ {r}, faults' >= faults,
           Reruns' <= Reruns,
           \/ strikes' <= strikes
           \/ strikes' = strikes + 1 /\ (StaleToken' => StaleToken)
    PROVE  Charged'
<1>1. Cardinality(GivenUp) \in Nat /\ Cardinality(GivenUp') \in Nat
      /\ Cardinality(GivenUp') <= Cardinality(GivenUp) - 1
  BY GivenUpFinite, Counting
<1>2. QED
  BY <1>1, RerunsCounted DEF Charged, Typed

\* A stale token pays for the strike it is.
LEMMA StaleTokenPays ==
    ASSUME Typed, Typed', Charged, right' = right, faults' = faults,
           GivenUp' \subseteq GivenUp, strikes' = strikes + 1, Reruns' <= Reruns + 1,
           StaleToken, ~StaleToken'
    PROVE  Charged'
<1>1. Cardinality(GivenUp) \in Nat /\ Cardinality(GivenUp') \in Nat
      /\ Cardinality(GivenUp') <= Cardinality(GivenUp)
  BY GivenUpFinite, Counting
<1>2. QED
  BY <1>1, RerunsCounted DEF Charged, Typed

-----------------------------------------------------------------------------
(* The steps *)

\* Only a refusal makes a second run, which it then is.
LEMMA RunsNoMore ==
    ASSUME Typed,
           \/ StartOperation \/ Client \/ AnswerGet \/ TakeSet \/ IgnoreSet
           \/ Lost \/ Elsewhere \/ Unlocks
    PROVE  Reruns' <= Reruns
<1>1. ASSUME RefusalArrived' => RefusalArrived, again' => again
      PROVE  Reruns' <= Reruns
  BY <1>1 DEF Reruns
<1>2. CASE Refused
  <2>1. ~RefusalArrived'
    BY <1>2, NsdpSessionAssumption DEF Typed, RefusalArrived, Refused, Answer, Fail, NoCall, Matches
  <2>2. again' => again \/ RefusalArrived
    BY <1>2 DEF RefusalArrived, Refused, Answer, Fail, Retried
  <2>3. QED
    BY <2>1, <2>2 DEF Reruns
<1>3. CASE Send
  <2>1. ~RefusalArrived'
    <3>1. PICK n \in FreeSeqs : call' = [call EXCEPT !.seq = n]
      BY <1>3 DEF Send
    <3>2. call'.seq = n /\ replies' = replies
      BY <1>3, <3>1 DEF Typed, Send
    <3>3. QED
      BY <3>2 DEF RefusalArrived, Matches, FreeSeqs
  <2>2. again' = again
    BY <1>3 DEF Send
  <2>3. QED
    BY <1>1, <2>1, <2>2
<1>4. CASE Client /\ ~Refused /\ ~Send /\ ~Dropped
  <2>1. call'.seq = 0 /\ replies' \subseteq replies
    <3>1. CASE Retry
      <4>1. call' = [call EXCEPT !.attempt = call.attempt + 1, !.seq = 0]
        BY <3>1 DEF Retry
      <4>2. QED
        BY <3>1, <4>1 DEF Typed, Retry, netVars
    <3>2. CASE ~Retry
      BY <1>4, <3>2 DEF Client, StartCall, PhaseDone, GotCapability, GotNonce, GotSetting, LoggedIn,
         SettingTaken, NoReply, Answer, CallDone, Fail, Begin, NoCall, netVars
    <3>3. QED
      BY <3>1, <3>2
  <2>2. ~RefusalArrived'
    BY <2>1, NsdpSessionAssumption DEF Typed, RefusalArrived, Matches
  <2>3. again' => again
    BY <1>4 DEF Client, StartCall, PhaseDone, GotCapability, GotNonce, GotSetting, LoggedIn,
       SettingTaken, Retry, NoReply, Fail, Retried, opVars
  <2>4. QED
    BY <1>1, <2>2, <2>3
<1>5. CASE AnswerGet \/ TakeSet \/ IgnoreSet
  <2>1. PICK r \in requests, status \in {"ok", "locked"} :
          (\E body : Reply(r, status, body)) \/ replies' = replies
    BY <1>5 DEF AnswerGet, TakeSet, IgnoreSet
  <2>2. call' = call /\ again' = again
    BY <1>5 DEF AnswerGet, TakeSet, IgnoreSet, opVars
  <2>3. RefusalArrived' => RefusalArrived
    BY <2>1, <2>2 DEF RefusalArrived, Reply, Matches
  <2>4. QED
    BY <1>1, <2>2, <2>3
<1>6. CASE StartOperation \/ Dropped \/ Lost \/ Elsewhere \/ Unlocks
  <2>1. call' = call /\ replies' \subseteq replies /\ (again' => again)
    BY <1>6 DEF StartOperation, Dropped, Lost, Elsewhere, Unlocks, netVars, opVars
  <2>2. QED
    BY <1>1, <2>1 DEF RefusalArrived, Matches
<1>7. QED
  BY <1>2, <1>3, <1>4, <1>5, <1>6

\* A new operation starts with no request under way, and no login made.
LEMMA StartOperationKeeps ==
    ASSUME IInv, StartOperation
    PROVE  IInv'
<1>0. Typed /\ Placed /\ Matched /\ Charged /\ LoginFirst /\ LoginsPaid /\ ReadRight /\ Verified
  BY DEF IInv
<1>1. Typed'
  BY <1>0 DEF Typed, StartOperation, Phases, netVars
<1>2. Matched'
  BY DEF Matched, StartOperation, netVars
<1>3. Charged'
  <2>0. Reruns' <= Reruns
    BY <1>0, RunsNoMore
  <2>1. GivenUp' \subseteq GivenUp
    BY DEF GivenUp, StartOperation, netVars
  <2>2. StaleToken' => StaleToken
    BY DEF StaleToken, StartOperation, Matches, netVars
  <2>3. QED
    BY <2>0, <1>0, <1>1, <2>1, <2>2, ChargesNothing DEF Typed, StartOperation
<1>4. Placed' /\ LoginFirst' /\ LoginsPaid'
  BY <1>0 DEF Placed, LoginsPaid, LoginFirst, StartOperation
<1>5. ReadRight' /\ Verified'
  BY <1>0 DEF Placed, ReadRight, Verified, StartOperation, NoCall
<1>6. QED
  BY <1>1, <1>2, <1>3, <1>4, <1>5 DEF IInv

\* An exchange starts without a number.
LEMMA StartCallKeeps ==
    ASSUME IInv, StartCall
    PROVE  IInv'
<1>0. Typed /\ Placed /\ Matched /\ Charged /\ LoginFirst /\ LoginsPaid /\ ReadRight /\ Verified
  BY DEF IInv
<1>1. Typed'
  BY <1>0 DEF Typed, StartCall, Stages, Begin, FirstStage, switchVars, netVars, opVars
<1>2. Matched'
  BY <1>0, NsdpSessionAssumption DEF Typed, Matched, StartCall, Matches, Begin, netVars
<1>3. Charged'
  <2>0. Reruns' <= Reruns
    BY <1>0, RunsNoMore DEF Client
  <2>1. GivenUp' \subseteq GivenUp
    BY DEF GivenUp, StartCall, NoCall, Matches, Begin, netVars
  <2>2. StaleToken' => StaleToken
    BY <1>0, NsdpSessionAssumption DEF Typed, StaleToken, StartCall, Matches, Sets, Begin,
         FirstStage, netVars
  <2>3. QED
    BY <2>0, <1>0, <1>1, <2>1, <2>2, ChargesNothing DEF Typed, StartCall, switchVars
<1>4. Placed' /\ LoginFirst' /\ LoginsPaid'
  BY <1>0 DEF Placed, LoginsPaid, LoginSpent, LoginFirst, StartCall, NoCall, Reading, Begin,
       FirstStage, opVars
<1>5. ReadRight' /\ Verified'
  BY <1>0, NsdpSessionAssumption DEF Typed, ReadRight, Verified, StartCall, Reading,
       Matches, Begin, switchVars, netVars, opVars
<1>6. QED
  BY <1>1, <1>2, <1>3, <1>4, <1>5 DEF IInv

\* A phase that ends the operation well has read every setting right.
LEMMA PhaseDoneKeeps ==
    ASSUME IInv, PhaseDone
    PROVE  IInv'
<1>0. Typed /\ Placed /\ Matched /\ Charged /\ LoginFirst /\ LoginsPaid /\ ReadRight /\ Verified
  BY DEF IInv
<1>1. Typed'
  BY <1>0 DEF Typed, PhaseDone, Phases, AfterPhase, switchVars, netVars
<1>2. Matched'
  BY <1>0, NsdpSessionAssumption DEF Typed, Matched, PhaseDone, NoCall, Matches, netVars
<1>3. Charged'
  <2>0. Reruns' <= Reruns
    BY <1>0, RunsNoMore DEF Client
  <2>1. GivenUp' \subseteq GivenUp
    BY DEF GivenUp, PhaseDone, Matches, netVars
  <2>2. StaleToken' => StaleToken
    BY DEF StaleToken, PhaseDone, Matches, switchVars, netVars
  <2>3. QED
    BY <2>0, <1>0, <1>1, <2>1, <2>2, ChargesNothing DEF Typed, PhaseDone, switchVars
<1>4. Placed' /\ LoginFirst' /\ LoginsPaid'
  BY <1>0 DEF Typed, Placed, LoginsPaid, LoginSpent, LoginFirst, PhaseDone, Phases,
       AfterPhase
<1>5. ReadRight'
  BY <1>0 DEF Typed, ReadRight, PhaseDone, NoCall, Reading, switchVars
<1>6. Verified'
  <2>1. CASE outcome' = "ok"
    <3>1. Reading /\ todo = {} /\ differing = {} /\ wrong' = wrong /\ touched' = touched
      BY <1>0, <2>1 DEF Typed, Placed, PhaseDone, Phases, Reading, AfterPhase, switchVars
    <3>2. QED
      BY <1>0, <3>1 DEF ReadRight, Verified
  <2>2. CASE outcome' # "ok"
    BY <2>2 DEF Verified
  <2>3. QED
    BY <2>1, <2>2
<1>7. QED
  BY <1>1, <1>2, <1>3, <1>4, <1>5, <1>6 DEF IInv

\* A request takes a number no datagram bears, and a login that is sent is
\* the first of its run.
LEMMA SendKeeps ==
    ASSUME IInv, Send
    PROVE  IInv'
<1>0. Typed /\ Placed /\ Matched /\ Charged /\ LoginFirst /\ LoginsPaid /\ ReadRight /\ Verified
  BY DEF IInv
<1>1. Typed'
  <2>1. PICK n \in FreeSeqs : /\ call' = [call EXCEPT !.seq = n]
                              /\ requests' = requests \cup {CurrentRequest'}
    BY DEF CurrentRequest, Setting, Send
  <2>2. IsFiniteSet(requests')
    BY <1>0, <2>1, FS_AddElement DEF Typed
  <2>3. n \in Seqs /\ CurrentRequest'.seq = n
    BY <2>1 DEF FreeSeqs, CurrentRequest
  <2>4. replies' = replies /\ faults' = faults /\ strikes' = strikes /\ logins' \in Nat /\ wrong' = wrong
        /\ phase' = phase /\ client' = client /\ call # NoCall
    BY <1>0 DEF Typed, Send, switchVars
  <2>5. call' \in [stage : Stages, attempt : Nat, seq : Seqs \cup {0}] /\ call'.stage = call.stage
    BY <1>0, <2>1, <2>3 DEF Typed
  <2>6. QED
    BY <1>0, <2>1, <2>2, <2>3, <2>4, <2>5 DEF Typed
<1>2. Matched'
  BY DEF Matched, CurrentRequest, Setting, Send, Matches, FreeSeqs
<1>3. Charged'
  <2>0. Reruns' <= Reruns
    BY <1>0, RunsNoMore DEF Client
  <2>1. GivenUp' \subseteq GivenUp
    BY <1>0, NsdpSessionAssumption DEF Typed, GivenUp, Send, Matches
  <2>2. StaleToken' => StaleToken
    BY DEF StaleToken, Send, Matches, FreeSeqs, switchVars
  <2>3. QED
    BY <2>0, <1>0, <1>1, <2>1, <2>2, ChargesNothing DEF Typed, Send, switchVars
<1>4. Placed' /\ LoginFirst' /\ LoginsPaid'
  BY <1>0, NsdpSessionAssumption DEF Typed, Placed, LoginsPaid, LoginSpent, LoginFirst,
       Send, Reading, FreeSeqs
<1>5. ReadRight' /\ Verified'
  BY <1>0 DEF ReadRight, Verified, Send, Reading, Matches, FreeSeqs, switchVars
<1>6. QED
  BY <1>1, <1>2, <1>3, <1>4, <1>5 DEF IInv

\* A datagram of another exchange is dropped.
LEMMA DroppedKeeps ==
    ASSUME IInv, Dropped
    PROVE  IInv'
<1>0. Typed /\ Placed /\ Matched /\ Charged /\ LoginFirst /\ LoginsPaid /\ ReadRight /\ Verified
  BY DEF IInv
<1>1. Typed'
  BY <1>0 DEF Typed, Dropped, switchVars, opVars
<1>2. Matched'
  BY <1>0 DEF Matched, CurrentRequest, Setting, Dropped, Matches, opVars
<1>3. Charged'
  <2>0. Reruns' <= Reruns
    BY <1>0, RunsNoMore DEF Client
  <2>1. GivenUp' \subseteq GivenUp
    BY DEF GivenUp, Dropped, Matches
  <2>2. StaleToken' => StaleToken
    BY DEF StaleToken, Dropped, Matches, switchVars
  <2>3. QED
    BY <2>0, <1>0, <1>1, <2>1, <2>2, ChargesNothing DEF Typed, Dropped, switchVars
<1>4. Placed' /\ LoginFirst' /\ LoginsPaid'
  BY <1>0 DEF Placed, LoginsPaid, LoginSpent, LoginFirst, Dropped, Reading, opVars
<1>5. ReadRight' /\ Verified'
  BY <1>0 DEF ReadRight, Verified, Setting, Dropped, Reading, Matches, switchVars, opVars
<1>6. QED
  BY <1>1, <1>2, <1>3, <1>4, <1>5 DEF IInv

\* A capability is answered.
LEMMA GotCapabilityKeeps ==
    ASSUME IInv, GotCapability
    PROVE  IInv'
<1>0. Typed /\ Placed /\ Matched /\ Charged /\ LoginFirst /\ LoginsPaid /\ ReadRight /\ Verified
  BY DEF IInv
<1>1. Typed'
  BY <1>0 DEF Typed, GotCapability, Stages, Answer, Begin, switchVars, opVars
<1>2. Matched'
  BY <1>0, NsdpSessionAssumption DEF Typed, Matched, GotCapability, Matches, Begin
<1>3. Charged'
  <2>0. Reruns' <= Reruns
    BY <1>0, RunsNoMore DEF Client
  <2>1. GivenUp' \subseteq GivenUp
    BY <1>0 DEF Matched, GivenUp, GotCapability, Answer
  <2>2. StaleToken' => StaleToken
    BY <1>0, NsdpSessionAssumption DEF Typed, StaleToken, GotCapability, Matches, Sets,
         Answer, Begin
  <2>3. QED
    BY <2>0, <1>0, <1>1, <2>1, <2>2, ChargesNothing DEF Typed, GotCapability, switchVars
<1>4. Placed' /\ LoginFirst' /\ LoginsPaid'
  BY <1>0 DEF Placed, LoginsPaid, LoginSpent, LoginFirst, GotCapability, NoCall, Reading,
       Awaiting, Begin, opVars
<1>5. ReadRight' /\ Verified'
  BY <1>0 DEF ReadRight, Verified, GotCapability, Reading, Begin, switchVars, opVars
<1>6. QED
  BY <1>1, <1>2, <1>3, <1>4, <1>5 DEF IInv

\* The token is stale when the nonce in the answer is.
LEMMA GotNonceKeeps ==
    ASSUME IInv, GotNonce
    PROVE  IInv'
<1>0. Typed /\ Placed /\ Matched /\ Charged /\ LoginFirst /\ LoginsPaid /\ ReadRight /\ Verified
  BY DEF IInv
<1>1. Typed'
  BY <1>0 DEF Typed, GotNonce, Stages, Answer, Begin, switchVars, opVars
<1>2. Matched'
  BY <1>0, NsdpSessionAssumption DEF Typed, Matched, GotNonce, Matches, Begin
<1>3. Charged'
  <2>0. Reruns' <= Reruns
    BY <1>0, RunsNoMore DEF Client
  <2>1. GivenUp' \subseteq GivenUp
    BY <1>0 DEF Matched, GivenUp, GotNonce, Answer
  <2>2. StaleToken' => StaleToken
    BY <1>0, NsdpSessionAssumption DEF Typed, StaleToken, GotNonce, Matches, Awaiting,
         Answer, Begin, switchVars
  <2>3. QED
    BY <2>0, <1>0, <1>1, <2>1, <2>2, ChargesNothing DEF Typed, GotNonce, switchVars
<1>4. Placed' /\ LoginFirst' /\ LoginsPaid'
  BY <1>0 DEF Placed, LoginsPaid, LoginSpent, LoginFirst, GotNonce, NoCall, Reading,
       Awaiting, Begin, opVars
<1>5. ReadRight' /\ Verified'
  BY <1>0 DEF ReadRight, Verified, GotNonce, Reading, Begin, switchVars, opVars
<1>6. QED
  BY <1>1, <1>2, <1>3, <1>4, <1>5 DEF IInv

\* The answer says whether the setting is right.
LEMMA GotSettingKeeps ==
    ASSUME IInv, GotSetting
    PROVE  IInv'
<1>0. Typed /\ Placed /\ Matched /\ Charged /\ LoginFirst /\ LoginsPaid /\ ReadRight /\ Verified
  BY DEF IInv
<1>1. Typed'
  BY <1>0 DEF Typed, GotSetting, Stages, NoCall, Answer, CallDone, switchVars
<1>2. Matched'
  BY <1>0, NsdpSessionAssumption DEF Typed, Matched, GotSetting, NoCall, Matches, CallDone
<1>3. Charged'
  <2>0. Reruns' <= Reruns
    BY <1>0, RunsNoMore DEF Client
  <2>1. GivenUp' \subseteq GivenUp
    BY <1>0 DEF Matched, GivenUp, GotSetting, Answer
  <2>2. StaleToken' => StaleToken
    BY <1>0, NsdpSessionAssumption DEF Typed, StaleToken, GotSetting, NoCall, Matches, Sets,
         CallDone
  <2>3. QED
    BY <2>0, <1>0, <1>1, <2>1, <2>2, ChargesNothing DEF Typed, GotSetting, switchVars
<1>4. Placed' /\ LoginFirst' /\ LoginsPaid'
  BY <1>0 DEF Placed, LoginsPaid, LoginSpent, LoginFirst, GotSetting, NoCall, Awaiting,
       CallDone
<1>5. ReadRight' /\ Verified'
  BY <1>0 DEF Placed, ReadRight, Verified, GotSetting, NoCall, Awaiting, Answer, CallDone,
       switchVars
<1>6. QED
  BY <1>1, <1>2, <1>3, <1>4, <1>5 DEF IInv

\* The one login of the run is spent.
LEMMA LoggedInKeeps ==
    ASSUME IInv, LoggedIn
    PROVE  IInv'
<1>0. Typed /\ Placed /\ Matched /\ Charged /\ LoginFirst /\ LoginsPaid /\ ReadRight /\ Verified
  BY DEF IInv
<1>1. Typed'
  BY <1>0, NsdpSessionAssumption DEF Typed, LoggedIn, Phases, Stages, NoCall, Awaiting,
       Answer, Matches, Begin, switchVars, opVars
<1>2. Matched'
  BY <1>0, NsdpSessionAssumption DEF Typed, Matched, LoggedIn, Matches, Begin
<1>3. Charged'
  <2>0. Reruns' <= Reruns
    BY <1>0, RunsNoMore DEF Client
  <2>1. GivenUp' \subseteq GivenUp
    BY <1>0 DEF Matched, GivenUp, LoggedIn, Answer
  <2>2. StaleToken' => StaleToken
    BY <1>0, NsdpSessionAssumption DEF Typed, StaleToken, LoggedIn, Matches, Sets, Answer,
         Begin
  <2>3. QED
    BY <2>0, <1>0, <1>1, <2>1, <2>2, ChargesNothing DEF Typed, LoggedIn, switchVars
<1>4. Placed' /\ LoginFirst' /\ LoginsPaid'
  BY <1>0 DEF Placed, LoginsPaid, LoginSpent, LoginFirst, LoggedIn, NoCall, Reading,
       Awaiting, Begin, opVars
<1>5. ReadRight' /\ Verified'
  BY <1>0 DEF ReadRight, Verified, LoggedIn, Reading, Begin, switchVars, opVars
<1>6. QED
  BY <1>1, <1>2, <1>3, <1>4, <1>5 DEF IInv

\* A SET is acknowledged.
LEMMA SettingTakenKeeps ==
    ASSUME IInv, SettingTaken
    PROVE  IInv'
<1>0. Typed /\ Placed /\ Matched /\ Charged /\ LoginFirst /\ LoginsPaid /\ ReadRight /\ Verified
  BY DEF IInv
<1>1. Typed'
  BY <1>0 DEF Typed, SettingTaken, Stages, NoCall, Answer, CallDone, switchVars
<1>2. Matched'
  BY <1>0, NsdpSessionAssumption DEF Typed, Matched, SettingTaken, NoCall, Matches, CallDone
<1>3. Charged'
  <2>0. Reruns' <= Reruns
    BY <1>0, RunsNoMore DEF Client
  <2>1. GivenUp' \subseteq GivenUp
    BY <1>0 DEF Matched, GivenUp, SettingTaken, Answer
  <2>2. StaleToken' => StaleToken
    BY <1>0, NsdpSessionAssumption DEF Typed, StaleToken, SettingTaken, NoCall, Matches,
         Sets, CallDone
  <2>3. QED
    BY <2>0, <1>0, <1>1, <2>1, <2>2, ChargesNothing DEF Typed, SettingTaken, switchVars
<1>4. Placed' /\ LoginFirst' /\ LoginsPaid'
  BY <1>0 DEF Placed, LoginsPaid, LoginSpent, LoginFirst, SettingTaken, NoCall, Awaiting,
       CallDone
<1>5. ReadRight' /\ Verified'
  BY <1>0 DEF Placed, ReadRight, Verified, SettingTaken, NoCall, Reading, Awaiting, CallDone
<1>6. QED
  BY <1>1, <1>2, <1>3, <1>4, <1>5 DEF IInv

\* A refusal ends the run; the second run starts with no login spent.
LEMMA RefusedKeeps ==
    ASSUME IInv, Refused
    PROVE  IInv'
<1>0. Typed /\ Placed /\ Matched /\ Charged /\ LoginFirst /\ LoginsPaid /\ ReadRight /\ Verified
  BY DEF IInv
<1>1. Typed'
  <2>1. call' = NoCall /\ NoCall \in [stage : Stages, attempt : Nat, seq : Seqs \cup {0}]
    BY DEF Refused, Stages, Fail, NoCall
  <2>2. client'.loggedIn \in BOOLEAN /\ client' = [loggedIn |-> client'.loggedIn, token |-> client'.token]
    <3>1. client' = client \/ client' = NewClient
      BY DEF Refused, Fail
    <3>2. CASE client' = client
      BY <1>0, <3>2 DEF Typed
    <3>3. CASE client' = NewClient
      BY <3>3 DEF NewClient
    <3>4. QED
      BY <3>1, <3>2, <3>3
  <2>3. phase' \in Phases
    BY DEF Refused, Phases, Fail
  <2>4. requests' = requests /\ replies' \subseteq replies
    BY DEF Refused, Answer
  <2>5. faults' = faults /\ strikes' = strikes /\ logins' = logins /\ wrong' = wrong
    BY DEF Refused, switchVars
  <2>6. QED
    BY <1>0, <2>1, <2>2, <2>3, <2>4, <2>5 DEF Typed
<1>2. Matched'
  BY <1>0, NsdpSessionAssumption DEF Typed, Matched, Refused, NoCall, Matches, Fail
<1>3. Charged'
  <2>0. Reruns' <= Reruns
    BY <1>0, RunsNoMore DEF Client
  <2>1. GivenUp' \subseteq GivenUp
    BY <1>0 DEF Matched, GivenUp, Refused, Answer
  <2>2. StaleToken' => StaleToken
    BY <1>0, NsdpSessionAssumption DEF Typed, StaleToken, Refused, NoCall, Matches, Sets,
         Fail
  <2>3. QED
    BY <2>0, <1>0, <1>1, <2>1, <2>2, ChargesNothing DEF Typed, Refused, switchVars
<1>4. Placed' /\ LoginFirst' /\ LoginsPaid'
  BY <1>0 DEF Typed, Placed, LoginsPaid, LoginFirst, Refused, NoCall, Awaiting, Fail,
       Retried
<1>5. ReadRight' /\ Verified'
  BY <1>0 DEF Typed, ReadRight, Verified, Refused, NoCall, Reading, Fail, switchVars
<1>6. QED
  BY <1>1, <1>2, <1>3, <1>4, <1>5 DEF IInv

\* A GET is sent again under a new number.
LEMMA RetryKeeps ==
    ASSUME IInv, Retry
    PROVE  IInv'
<1>0. Typed /\ Placed /\ Matched /\ Charged /\ LoginFirst /\ LoginsPaid /\ ReadRight /\ Verified
  BY DEF IInv
<1>1. Typed'
  <2>1. call' = [stage |-> call.stage, attempt |-> call.attempt + 1, seq |-> 0]
    BY <1>0 DEF Typed, Retry, Phases, Stages, NoCall, WindowOver, Awaiting, Gets, Sets,
         InFlight, TriesAgain, switchVars, netVars, opVars
  <2>2. call.stage # "none"
    BY DEF Retry, Gets, TriesAgain
  <2>3. faults' \in Nat
    BY <1>0 DEF Typed, Retry, WindowOver
  <2>4. QED
    BY <1>0, <2>1, <2>2, <2>3 DEF Typed, Retry, switchVars, netVars, opVars
<1>2. Matched'
  BY <1>0, NsdpSessionAssumption DEF Typed, Matched, Retry, Matches, netVars
<1>3. Charged'
  <2>0. Reruns' <= Reruns
    BY <1>0, RunsNoMore DEF Client
  <2>1. GivenUp' \subseteq GivenUp
    BY <1>0 DEF Matched, CurrentRequest, GivenUp, Retry, Sets, Gets, TriesAgain, netVars
  <2>2. StaleToken' => StaleToken
    BY <1>0, NsdpSessionAssumption DEF Typed, StaleToken, Retry, Matches, Sets, Gets,
         TriesAgain, netVars
  <2>3. QED
    BY <2>0, <1>0, <1>1, <2>1, <2>2, ChargesNothing DEF Typed, Retry, WindowOver, switchVars
<1>4. Placed' /\ LoginFirst' /\ LoginsPaid'
  BY <1>0 DEF Placed, LoginsPaid, LoginSpent, LoginFirst, Retry, NoCall, Reading, Gets,
       TriesAgain, opVars
<1>5. ReadRight' /\ Verified'
  BY <1>0, NsdpSessionAssumption DEF Typed, ReadRight, Verified, Retry, Reading, Matches,
       switchVars, netVars, opVars
<1>6. QED
  BY <1>1, <1>2, <1>3, <1>4, <1>5 DEF IInv

\* A SET whose window closes on it is given up on, at the price of a fault.
LEMMA NoReplyKeeps ==
    ASSUME IInv, NoReply
    PROVE  IInv'
<1>0. Typed /\ Placed /\ Matched /\ Charged /\ LoginFirst /\ LoginsPaid /\ ReadRight /\ Verified
  BY DEF IInv
<1>1. Typed'
  BY <1>0 DEF Typed, NoReply, Phases, Stages, NoCall, WindowOver, CallDone, Fail, Retried,
       switchVars, netVars
<1>2. Matched'
  BY <1>0, NsdpSessionAssumption DEF Typed, Matched, NoReply, NoCall, Matches, CallDone,
       Fail, netVars
<1>3. Charged'
  <2>0. Reruns' <= Reruns
    BY <1>0, RunsNoMore DEF Client
  <2>1. ~StaleToken'
    BY <1>0, NsdpSessionAssumption DEF Typed, StaleToken, NoReply, NoCall, Matches, Sets,
         CallDone, Fail, netVars
  <2>2. GivenUp' \subseteq GivenUp \cup {CurrentRequest}
    BY <1>0 DEF Matched, GivenUp, NoReply, netVars
  <2>3. CASE ~InFlight
    <3>1. GivenUp' \subseteq GivenUp
      BY <2>3 DEF GivenUp, NoReply, Matches, InFlight, netVars
    <3>2. QED
      BY <2>0, <1>0, <1>1, <2>1, <2>3, <3>1, ChargesNothing DEF Typed, NoReply, WindowOver,
           switchVars
  <2>4. CASE InFlight
    <3>1. right' = right /\ strikes' <= strikes /\ faults' = faults + 1
      BY <1>0, <2>4 DEF Typed, NoReply, WindowOver, switchVars
    <3>2. QED
      BY <2>0, <1>0, <1>1, <2>1, <2>2, <3>1, FaultPaysRequest
  <2>5. QED
    BY <2>3, <2>4
<1>4. Placed' /\ LoginFirst' /\ LoginsPaid'
  BY <1>0 DEF Placed, LoginsPaid, LoginFirst, NoReply, NoCall, CallDone, Fail, Retried
<1>5. ReadRight' /\ Verified'
  BY <1>0 DEF Placed, ReadRight, Verified, NoReply, NoCall, Reading, WindowOver, Awaiting,
       CallDone, Fail, Retried
<1>6. QED
  BY <1>1, <1>2, <1>3, <1>4, <1>5 DEF IInv

\* The answer to a GET tells the nonce, or the setting, as it is.
LEMMA AnswerGetKeeps ==
    ASSUME IInv, AnswerGet
    PROVE  IInv'
<1>0. Typed /\ Placed /\ Matched /\ Charged /\ LoginFirst /\ LoginsPaid /\ ReadRight /\ Verified
  BY DEF IInv
<1>1. Typed'
  BY <1>0, FS_Subset DEF Typed, AnswerGet, Reply, switchVars, opVars
<1>2. Matched'
  BY <1>0 DEF Matched, CurrentRequest, Setting, AnswerGet, Matches, Reply, opVars
<1>3. Charged'
  <2>0. Reruns' <= Reruns
    BY <1>0, RunsNoMore
  <2>1. GivenUp' \subseteq GivenUp
    BY DEF GivenUp, AnswerGet, Matches, Reply
  <2>2. StaleToken' => StaleToken
    BY <1>0 DEF Matched, CurrentRequest, StaleToken, AnswerGet, Matches, Reply, switchVars
  <2>3. QED
    BY <2>0, <1>0, <1>1, <2>1, <2>2, ChargesNothing DEF Typed, AnswerGet, switchVars
<1>4. Placed' /\ LoginFirst' /\ LoginsPaid'
  BY <1>0 DEF Placed, LoginsPaid, LoginSpent, LoginFirst, AnswerGet, Reading, opVars
<1>5. ReadRight' /\ Verified'
  BY <1>0 DEF Matched, ReadRight, Verified, CurrentRequest, Setting, AnswerGet, Reading,
       Matches, Reply, switchVars, opVars
<1>6. QED
  BY <1>1, <1>2, <1>3, <1>4, <1>5 DEF IInv

\* The nonce rolls. The SET was that of the exchange, which waits for no
\* token now, or one given up on, which pays for the token of the exchange.
LEMMA TakeSetKeeps ==
    ASSUME IInv, TakeSet
    PROVE  IInv'
<1>0. Typed /\ Placed /\ Matched /\ Charged /\ LoginFirst /\ LoginsPaid /\ ReadRight /\ Verified
  BY DEF IInv
<1>1. Typed'
  BY <1>0, FS_Subset DEF Typed, TakeSet, Reply, opVars
<1>2. Matched'
  BY <1>0 DEF Matched, CurrentRequest, Setting, TakeSet, Matches, Reply, opVars
<1>3. Charged'
  <2>0. Reruns' <= Reruns
    BY <1>0, RunsNoMore
  <2>1. PICK r \in requests : r.stage \in Sets /\ requests' = requests \ {r}
                               /\ replies' = replies \cup {[seq |-> r.seq, status |-> "ok", body |-> 0]}
    BY DEF TakeSet, Reply
  <2>2. right' = right /\ call' = call /\ client' = client /\ strikes' <= strikes /\ faults' >= faults
    BY <1>0 DEF Typed, TakeSet
  <2>3. CASE Matches(r)
    <3>1. GivenUp' \subseteq GivenUp
      BY <2>1, <2>2 DEF GivenUp, Matches
    <3>2. ~StaleToken'
      BY <1>0, <2>1, <2>2, <2>3, NsdpSessionAssumption DEF Typed, Matched, CurrentRequest,
           StaleToken, Matches, Sets
    <3>3. QED
      BY <2>0, <1>0, <1>1, <2>2, <3>1, <3>2, ChargesNothing
  <2>4. CASE ~Matches(r)
    <3>1. r \in GivenUp /\ GivenUp' \subseteq GivenUp \ {r}
      BY <2>1, <2>2, <2>4 DEF GivenUp, Matches
    <3>2. QED
      BY <2>0, <1>0, <1>1, <2>2, <3>1, RequestPays
  <2>5. QED
    BY <2>3, <2>4
<1>4. Placed' /\ LoginFirst' /\ LoginsPaid'
  BY <1>0 DEF Placed, LoginsPaid, LoginSpent, LoginFirst, TakeSet, Reading, opVars
<1>5. ReadRight' /\ Verified'
  BY <1>0 DEF Matched, ReadRight, Verified, CurrentRequest, Setting, TakeSet, Reading,
       Matches, Sets, Reply, opVars
<1>6. QED
  BY <1>1, <1>2, <1>3, <1>4, <1>5 DEF IInv

\* A strike is paid for by the stale token of the exchange, or by the
\* request given up on.
LEMMA RefuseSetKeeps ==
    ASSUME IInv, RefuseSet
    PROVE  IInv'
<1>0. Typed /\ Placed /\ Matched /\ Charged /\ LoginFirst /\ LoginsPaid /\ ReadRight /\ Verified
  BY DEF IInv
<1>1. Typed'
  BY <1>0, FS_Subset DEF Typed, RefuseSet, Reply, opVars
<1>2. Matched'
  BY <1>0 DEF Matched, CurrentRequest, Setting, RefuseSet, Matches, Reply, opVars
<1>3. Charged'
  <2>1. CASE ~right
    BY <2>1 DEF Charged, RefuseSet
  <2>2. CASE right
    <3>1. PICK r \in requests : r.stage \in Sets /\ r.token # nonce /\ requests' = requests \ {r}
                                 /\ replies' = replies \cup {[seq |-> r.seq, status |-> "auth", body |-> 0]}
      BY <2>2 DEF RefuseSet, Reply
    <3>2. /\ right' = right /\ call' = call /\ client' = client /\ nonce' = nonce
          /\ strikes' = strikes + 1 /\ faults' = faults
      BY DEF RefuseSet
    <3>3. CASE Matches(r)
      <4>1. GivenUp' \subseteq GivenUp
        BY <3>1, <3>2 DEF GivenUp, Matches
      <4>2. StaleToken
        BY <3>1, <3>3 DEF StaleToken
      <4>3. ~StaleToken'
        BY <1>0, <3>1, <3>2, <3>3, NsdpSessionAssumption DEF Typed, Matched, CurrentRequest,
             StaleToken, Matches, Sets
      <4>4. Reruns' <= Reruns + 1
        BY <3>2 DEF Reruns, RefuseSet, opVars
      <4>5. QED
        BY <1>0, <1>1, <3>2, <4>1, <4>2, <4>3, <4>4, StaleTokenPays
    <3>4. CASE ~Matches(r)
      <4>1. r \in GivenUp /\ GivenUp' \subseteq GivenUp \ {r}
        BY <3>1, <3>2, <3>4 DEF GivenUp, Matches
      <4>2. StaleToken' => StaleToken
        BY <3>1, <3>2, <3>4 DEF StaleToken, Matches
      <4>3. faults' >= faults
        BY <1>0, <3>2 DEF Typed
      <4>4. Reruns' <= Reruns
        <5>1. (RefusalArrived' => RefusalArrived) /\ again' = again
          BY <3>1, <3>2, <3>4 DEF RefusalArrived, RefuseSet, Matches, opVars
        <5>2. QED
          BY <5>1 DEF Reruns
      <4>5. QED
        BY <1>0, <1>1, <3>2, <4>1, <4>2, <4>3, <4>4, RequestPays
    <3>5. QED
      BY <3>3, <3>4
  <2>3. QED
    BY <2>1, <2>2
<1>4. Placed' /\ LoginFirst' /\ LoginsPaid'
  BY <1>0 DEF Placed, LoginsPaid, LoginSpent, LoginFirst, RefuseSet, Reading, opVars
<1>5. ReadRight' /\ Verified'
  BY <1>0 DEF Matched, ReadRight, Verified, CurrentRequest, Setting, RefuseSet, Reading,
       Matches, Sets, Reply, opVars
<1>6. QED
  BY <1>1, <1>2, <1>3, <1>4, <1>5 DEF IInv

\* A locked switch answers nothing but locked.
LEMMA IgnoreSetKeeps ==
    ASSUME IInv, IgnoreSet
    PROVE  IInv'
<1>0. Typed /\ Placed /\ Matched /\ Charged /\ LoginFirst /\ LoginsPaid /\ ReadRight /\ Verified
  BY DEF IInv
<1>1. Typed'
  BY <1>0, FS_Subset DEF Typed, IgnoreSet, Reply, switchVars, opVars
<1>2. Matched'
  BY <1>0 DEF Matched, CurrentRequest, Setting, IgnoreSet, Matches, Reply, opVars
<1>3. Charged'
  <2>0. Reruns' <= Reruns
    BY <1>0, RunsNoMore
  <2>1. GivenUp' \subseteq GivenUp
    BY DEF GivenUp, IgnoreSet, Matches, Reply
  <2>2. StaleToken' => StaleToken
    BY <1>0 DEF Matched, CurrentRequest, StaleToken, IgnoreSet, Matches, Sets, Reply,
         switchVars
  <2>3. QED
    BY <2>0, <1>0, <1>1, <2>1, <2>2, ChargesNothing DEF Typed, IgnoreSet, switchVars
<1>4. Placed' /\ LoginFirst' /\ LoginsPaid'
  BY <1>0 DEF Placed, LoginsPaid, LoginSpent, LoginFirst, IgnoreSet, Reading, opVars
<1>5. ReadRight' /\ Verified'
  BY <1>0 DEF Matched, ReadRight, Verified, CurrentRequest, Setting, IgnoreSet, Reading,
       Matches, Sets, Reply, switchVars, opVars
<1>6. QED
  BY <1>1, <1>2, <1>3, <1>4, <1>5 DEF IInv

\* A datagram is lost.
LEMMA LostKeeps ==
    ASSUME IInv, Lost
    PROVE  IInv'
<1>0. Typed /\ Placed /\ Matched /\ Charged /\ LoginFirst /\ LoginsPaid /\ ReadRight /\ Verified
  BY DEF IInv
<1>1. Typed'
  BY <1>0, FS_Subset DEF Typed, Lost, switchVars, opVars
<1>2. Matched'
  BY <1>0 DEF Matched, CurrentRequest, Setting, Lost, Matches, opVars
<1>3. Charged'
  <2>0. Reruns' <= Reruns
    BY <1>0, RunsNoMore
  <2>1. GivenUp' \subseteq GivenUp
    BY DEF GivenUp, Lost, Matches
  <2>2. StaleToken' => StaleToken
    BY DEF StaleToken, Lost, Matches, switchVars
  <2>3. QED
    BY <2>0, <1>0, <1>1, <2>1, <2>2, ChargesNothing DEF Typed, Lost, switchVars
<1>4. Placed' /\ LoginFirst' /\ LoginsPaid'
  BY <1>0 DEF Placed, LoginsPaid, LoginSpent, LoginFirst, Lost, Reading, opVars
<1>5. ReadRight' /\ Verified'
  BY <1>0 DEF ReadRight, Verified, Setting, Lost, Reading, Matches, switchVars, opVars
<1>6. QED
  BY <1>1, <1>2, <1>3, <1>4, <1>5 DEF IInv

\* Another manager spends a fault on a setting and on the nonce.
LEMMA ElsewhereKeeps ==
    ASSUME IInv, Elsewhere
    PROVE  IInv'
<1>0. Typed /\ Placed /\ Matched /\ Charged /\ LoginFirst /\ LoginsPaid /\ ReadRight /\ Verified
  BY DEF IInv
<1>1. Typed'
  BY <1>0 DEF Typed, Elsewhere, netVars
<1>2. Matched'
  BY <1>0 DEF Matched, CurrentRequest, Setting, Elsewhere, Matches, netVars
<1>3. Charged'
  <2>0. Reruns' <= Reruns
    BY <1>0, RunsNoMore
  <2>1. GivenUp' \subseteq GivenUp
    BY DEF GivenUp, Elsewhere, Matches, netVars
  <2>2. QED
    BY <2>0, <1>0, <1>1, <2>1, FaultPays DEF Typed, Elsewhere
<1>4. Placed' /\ LoginFirst' /\ LoginsPaid'
  BY <1>0 DEF Placed, LoginsPaid, LoginSpent, LoginFirst, Elsewhere, Reading
<1>5. ReadRight' /\ Verified'
  BY DEF ReadRight, Verified, Elsewhere
<1>6. QED
  BY <1>1, <1>2, <1>3, <1>4, <1>5 DEF IInv

\* The strikes are forgotten.
LEMMA UnlocksKeeps ==
    ASSUME IInv, Unlocks
    PROVE  IInv'
<1>0. Typed /\ Placed /\ Matched /\ Charged /\ LoginFirst /\ LoginsPaid /\ ReadRight /\ Verified
  BY DEF IInv
<1>1. Typed'
  BY <1>0 DEF Typed, Unlocks, netVars, opVars
<1>2. Matched'
  BY <1>0 DEF Matched, CurrentRequest, Setting, Unlocks, Matches, netVars, opVars
<1>3. Charged'
  <2>0. Reruns' <= Reruns
    BY <1>0, RunsNoMore
  <2>1. GivenUp' \subseteq GivenUp
    BY DEF GivenUp, Unlocks, Matches, netVars
  <2>2. StaleToken' => StaleToken
    BY DEF StaleToken, Unlocks, Matches, netVars
  <2>3. QED
    BY <2>0, <1>0, <1>1, <2>1, <2>2, ChargesNothing DEF Typed, Unlocks
<1>4. Placed' /\ LoginFirst' /\ LoginsPaid'
  BY <1>0 DEF Placed, LoginsPaid, LoginSpent, LoginFirst, Unlocks, Reading, opVars
<1>5. ReadRight' /\ Verified'
  BY <1>0 DEF ReadRight, Verified, Setting, Unlocks, Reading, Matches, netVars, opVars
<1>6. QED
  BY <1>1, <1>2, <1>3, <1>4, <1>5 DEF IInv

\* Nothing changes.
LEMMA StutterKeeps ==
    ASSUME IInv, UNCHANGED vars
    PROVE  IInv'
<1>1. Typed' /\ Placed' /\ Matched' /\ LoginFirst' /\ LoginsPaid' /\ ReadRight' /\ Verified'
  BY DEF IInv, Typed, Placed, Matched, CurrentRequest, Setting, LoginFirst, LoginsPaid,
       LoginSpent, ReadRight, Verified, Reading, Matches, vars, switchVars, netVars, opVars
<1>2. GivenUp' = GivenUp /\ (StaleToken' <=> StaleToken) /\ Reruns' = Reruns
  BY DEF GivenUp, StaleToken, Reruns, RefusalArrived, Matches, vars, switchVars, netVars, opVars
<1>3. Charged'
  BY <1>2 DEF IInv, Charged, vars, switchVars
<1>4. QED
  BY <1>1, <1>3 DEF IInv

-----------------------------------------------------------------------------
(* The theorems *)

\* At the start nothing is under way, and nothing has been paid.
LEMMA Starts ==
    ASSUME Init
    PROVE  IInv
<1>1. Typed /\ Placed /\ Matched /\ LoginFirst /\ LoginsPaid /\ ReadRight /\ Verified
  BY FS_EmptySet DEF Init, Typed, Placed, Matched, LoginFirst, LoginsPaid, ReadRight,
       Verified, Reading, NoCall, NewClient, Stages, Phases
<1>2. GivenUp = {} /\ ~StaleToken /\ Reruns = 0
  BY DEF Init, GivenUp, StaleToken, Reruns, RefusalArrived, NoCall, Sets
<1>3. Charged
  BY <1>2, FS_EmptySet DEF Init, Charged
<1>4. QED
  BY <1>1, <1>3 DEF IInv

\* The invariant is inductive.
LEMMA Inductive ==
    Spec => []IInv
<1>1. Init => IInv
  BY Starts
<1>2. IInv /\ [Next]_vars => IInv'
  <2>1. SUFFICES ASSUME IInv, [Next]_vars PROVE IInv'
    OBVIOUS
  <2>2. CASE StartOperation
    BY <2>1, <2>2, StartOperationKeeps
  <2>3. CASE Client
    BY <2>1, <2>3, StartCallKeeps, PhaseDoneKeeps, SendKeeps, DroppedKeeps,
         GotCapabilityKeeps, GotNonceKeeps, GotSettingKeeps, LoggedInKeeps,
         SettingTakenKeeps, RefusedKeeps, RetryKeeps, NoReplyKeeps DEF Client
  <2>4. CASE Switch
    BY <2>1, <2>4, AnswerGetKeeps, TakeSetKeeps, RefuseSetKeeps, IgnoreSetKeeps DEF Switch
  <2>5. CASE Lost
    BY <2>1, <2>5, LostKeeps
  <2>6. CASE Elsewhere
    BY <2>1, <2>6, ElsewhereKeeps
  <2>7. CASE Unlocks
    BY <2>1, <2>7, UnlocksKeeps
  <2>8. CASE UNCHANGED vars
    BY <2>1, <2>8, StutterKeeps
  <2>9. QED
    BY <2>1, <2>2, <2>3, <2>4, <2>5, <2>6, <2>7, <2>8 DEF Next
<1>3. QED
  BY <1>1, <1>2, PTL DEF Spec

\* An apply that reports success has left the switch as asked, unless another
\* manager wrote meanwhile, for any number of settings and of faults.
THEOREM SuccessIsVerified ==
    Spec => []Verified
<1>1. IInv => Verified
  BY DEF IInv
<1>2. QED
  BY <1>1, Inductive, PTL

\* With the right password the strikes never outnumber the datagrams lost or
\* late and the other managers' SETs, for any number of them.
THEOREM StrikesAreFaults ==
    Spec => []StrikesCostFaults
<1>1. IInv => StrikesCostFaults
  <2>1. SUFFICES ASSUME IInv, right PROVE strikes <= faults
    BY DEF StrikesCostFaults
  <2>2. Typed /\ Charged
    BY <2>1 DEF IInv
  <2>3. Cardinality(GivenUp) \in Nat
    BY <2>2, GivenUpFinite, FS_CardinalityType
  <2>4. QED
    BY <2>1, <2>2, <2>3 DEF Charged, Typed
<1>2. QED
  BY <1>1, Inductive, PTL

\* A strict operation logs in twice at most, for any number of settings, of
\* attempts and of faults.
THEOREM ReloginOnce ==
    Spec => []OneRelogin
<1>1. IInv => OneRelogin
  BY DEF IInv, LoginsPaid, OneRelogin
<1>2. QED
  BY <1>1, Inductive, PTL

-----------------------------------------------------------------------------
(* Types.  Every value the model chooses must exist: the setting that is   *)
(* next, and a nonce that nothing under way was made with.  There is one   *)
(* when the datagrams are few: the exchange has one under way, and each    *)
(* other was left there by a fault.                                        *)

UnderWay ==
    /\ IsFiniteSet(replies)
    /\ Cardinality(requests) + Cardinality(replies) <= faults + (IF InFlight THEN 1 ELSE 0)

Ready ==
    /\ call # NoCall => todo # {}
    /\ ~locked => strikes < StrikeLimit
    /\ call.stage \in {"nonce", "refresh"} =>
           \A r \in replies : Matches(r) => r.body \in Nonces

Ranged == TypeOK /\ UnderWay /\ Ready

\* A set of numbers has a least one.
LEMMA LeastOfSet ==
    ASSUME NEW S, S \subseteq Nat, S # {}
    PROVE  Least(S) \in S
<1> DEFINE R == {ss \in Nat \X Nat : ss[1] < ss[2]}
<1>1. IsWellFoundedOn(R, Nat)
  BY NatLessThanWellFounded DEF OpToRel
<1>2. PICK x \in S : \A y \in S : ~ (<<y, x>> \in R)
  <2> HIDE DEF R
  <2> QED
    BY <1>1, WFMin
<1>3. \A y \in S : x <= y
  <2>1. SUFFICES ASSUME NEW y \in S, y < x PROVE FALSE
    OBVIOUS
  <2>2. <<y, x>> \in Nat \X Nat /\ <<y, x>>[1] < <<y, x>>[2]
    BY <2>1
  <2>3. <<y, x>> \in R
    BY <2>2
  <2>4. QED
    BY <1>2, <2>3
<1>4. QED
  BY <1>2, <1>3 DEF Least

LEMMA SettingNext ==
    ASSUME todo \subseteq Settings, todo # {}
    PROVE  Setting \in Settings
BY LeastOfSet, NsdpSessionAssumption DEF Setting

\* The first nonce.
LEMMA NonceFirst ==
    Least(Nonces) \in Nonces
<1>1. Nonces # {}
  <2>1. SUFFICES ASSUME Nonces = {} PROVE FALSE
    OBVIOUS
  <2>2. IsFiniteSet(Nonces) /\ Cardinality(Nonces) = 0
    BY <2>1, FS_EmptySet
  <2>3. QED
    BY <2>2, NsdpSessionAssumption
<1>2. QED
  BY <1>1, LeastOfSet, NsdpSessionAssumption

\* What the elements of a set are marked with is no more than they are.
LEMMA Marks ==
    ASSUME NEW S, IsFiniteSet(S), NEW f \in [S -> Nat]
    PROVE  /\ IsFiniteSet({f[x] : x \in S})
           /\ Cardinality({f[x] : x \in S}) \in Nat
           /\ Cardinality({f[x] : x \in S}) <= Cardinality(S)
<1> DEFINE T == {f[x] : x \in S}
<1>1. f \in Surjection(S, T)
  BY DEF Surjection
<1> HIDE DEF T
<1>2. IsFiniteSet(T) /\ Cardinality(T) <= Cardinality(S)
  BY <1>1, FS_Surjection
<1>3. QED
  BY <1>2, FS_CardinalityType DEF T

\* A nonce for the switch to roll to.
LEMMA NonceLeft ==
    ASSUME TypeOK, IsFiniteSet(requests), IsFiniteSet(replies),
           Cardinality(requests) + Cardinality(replies) <= MaxFaults + 1
    PROVE  FreshNonce \in Nonces
<1> DEFINE f == [r \in requests |-> r.token]
           g == [r \in replies |-> r.body]
           A == {f[r] : r \in requests}
           B == {g[r] : r \in replies}
           C == {nonce, client.token}
<1>1. f \in [requests -> Nat] /\ g \in [replies -> Nat]
  <2>1. \A r \in requests : r.token \in Nonces \cup {0}
    BY DEF TypeOK
  <2>2. \A r \in replies : r.body \in Nonces \cup {0, 1}
    BY DEF TypeOK
  <2>3. (Nonces \cup {0}) \subseteq Nat /\ (Nonces \cup {0, 1}) \subseteq Nat
    BY NsdpSessionAssumption
  <2>4. (\A r \in requests : r.token \in Nat) /\ (\A r \in replies : r.body \in Nat)
    BY <2>1, <2>2, <2>3
  <2>5. QED
    BY <2>4
<1>2. /\ \A r \in requests : r.token \in A
      /\ \A r \in replies : r.body \in B
  OBVIOUS
<1> HIDE DEF f, g
<1>3. /\ IsFiniteSet(A) /\ Cardinality(A) \in Nat /\ Cardinality(A) <= Cardinality(requests)
      /\ IsFiniteSet(B) /\ Cardinality(B) \in Nat /\ Cardinality(B) <= Cardinality(replies)
  BY <1>1, Marks
<1>4. IsFiniteSet(C) /\ Cardinality(C) \in Nat /\ Cardinality(C) <= 2
  <2>1. IsFiniteSet({nonce}) /\ Cardinality({nonce}) = 1
    BY FS_Singleton
  <2>2. C = {nonce} \cup {client.token}
    OBVIOUS
  <2>3. IsFiniteSet(C) /\ Cardinality(C) = IF client.token \in {nonce} THEN 1 ELSE 1 + 1
    BY <2>1, <2>2, FS_AddElement
  <2>4. QED
    BY <2>3
<1> HIDE DEF A, B, C
<1>5. /\ IsFiniteSet(A \cup B) /\ Cardinality(A \cup B) \in Nat
      /\ Cardinality(A \cup B) <= Cardinality(A) + Cardinality(B)
  <2>1. /\ IsFiniteSet(A \cup B)
        /\ Cardinality(A \cup B) = Cardinality(A) + Cardinality(B) - Cardinality(A \cap B)
    BY <1>3, FS_Union
  <2>2. Cardinality(A \cap B) \in Nat
    BY <1>3, Counting
  <2>3. QED
    BY <1>3, <2>1, <2>2, FS_CardinalityType
<1>6. /\ IsFiniteSet(A \cup B \cup C) /\ Cardinality(A \cup B \cup C) \in Nat
      /\ Cardinality(A \cup B \cup C) <= Cardinality(A \cup B) + Cardinality(C)
  <2>1. /\ IsFiniteSet(A \cup B \cup C)
        /\ Cardinality(A \cup B \cup C)
             = Cardinality(A \cup B) + Cardinality(C) - Cardinality((A \cup B) \cap C)
    BY <1>4, <1>5, FS_Union
  <2>2. Cardinality((A \cup B) \cap C) \in Nat
    BY <1>5, Counting
  <2>3. QED
    BY <1>4, <1>5, <2>1, <2>2, FS_CardinalityType
<1>7. Cardinality(A \cup B \cup C) <= MaxFaults + 3
  <2>1. Cardinality(requests) \in Nat /\ Cardinality(replies) \in Nat /\ MaxFaults \in Nat
    BY FS_CardinalityType, NsdpSessionAssumption
  <2>2. QED
    BY <1>3, <1>4, <1>5, <1>6, <2>1
<1>8. PICK n \in Nonces : n \notin A \cup B \cup C
  <2>1. SUFFICES ASSUME Nonces \subseteq A \cup B \cup C PROVE FALSE
    OBVIOUS
  <2>2. /\ IsFiniteSet(Nonces) /\ Cardinality(Nonces) \in Nat
        /\ Cardinality(Nonces) <= Cardinality(A \cup B \cup C)
    BY <2>1, <1>6, FS_Subset, FS_CardinalityType
  <2>3. Cardinality(Nonces) >= MaxFaults + 4 /\ MaxFaults \in Nat
    BY <2>2, NsdpSessionAssumption
  <2>4. QED
    BY <1>6, <1>7, <2>2, <2>3
<1>9. /\ n \notin {nonce, client.token}
      /\ \A r \in requests : r.token # n
      /\ \A r \in replies : r.body # n
  BY <1>2, <1>8 DEF C
<1>10. QED
  BY <1>9 DEF FreshNonce

-----------------------------------------------------------------------------
(* The datagrams under way *)

\* There are finitely many of them.
LEMMA FewUnderWay ==
    ASSUME Typed, UnderWay
    PROVE  /\ IsFiniteSet(requests) /\ IsFiniteSet(replies) /\ faults \in Nat
           /\ Cardinality(requests) \in Nat /\ Cardinality(replies) \in Nat
           /\ Cardinality(requests) + Cardinality(replies) <= faults + 1
           /\ ~InFlight => Cardinality(requests) + Cardinality(replies) <= faults
<1>1. IsFiniteSet(requests) /\ IsFiniteSet(replies) /\ faults \in Nat
  BY DEF Typed, UnderWay
<1>2. Cardinality(requests) \in Nat /\ Cardinality(replies) \in Nat
  BY <1>1, FS_CardinalityType
<1>3. QED
  BY <1>1, <1>2 DEF UnderWay

\* No datagram is that of an exchange that has yet to send.
LEMMA NothingInFlight ==
    ASSUME Typed, call.seq = 0
    PROVE  ~InFlight
BY NsdpSessionAssumption DEF Typed, InFlight

\* Datagrams go; the one of the exchange may be left over for a fault, or be
\* the one that went.
LEMMA FewerUnderWay ==
    ASSUME Typed, Typed', UnderWay, requests' \subseteq requests, replies' \subseteq replies,
           faults' >= faults,
           \/ InFlight => InFlight'
           \/ faults' >= faults + 1
           \/ requests' # requests
           \/ replies' # replies
    PROVE  UnderWay'
<1>1. /\ IsFiniteSet(requests) /\ IsFiniteSet(replies) /\ faults \in Nat /\ faults' \in Nat
      /\ Cardinality(requests) \in Nat /\ Cardinality(replies) \in Nat
      /\ Cardinality(requests) + Cardinality(replies) <= faults + 1
      /\ ~InFlight => Cardinality(requests) + Cardinality(replies) <= faults
  BY FewUnderWay DEF Typed
<1>2. /\ IsFiniteSet(requests') /\ Cardinality(requests') <= Cardinality(requests)
      /\ Cardinality(requests) = Cardinality(requests') => requests = requests'
  BY <1>1, FS_Subset
<1>3. /\ IsFiniteSet(replies') /\ Cardinality(replies') <= Cardinality(replies)
      /\ Cardinality(replies) = Cardinality(replies') => replies = replies'
  BY <1>1, FS_Subset
<1>4. Cardinality(requests') \in Nat /\ Cardinality(replies') \in Nat
  BY <1>2, <1>3, FS_CardinalityType
<1>5. Cardinality(requests') + Cardinality(replies') <= faults' + (IF InFlight' THEN 1 ELSE 0)
  <2>1. CASE InFlight => InFlight'
    BY <1>1, <1>2, <1>3, <1>4, <2>1
  <2>2. CASE faults' >= faults + 1
    BY <1>1, <1>2, <1>3, <1>4, <2>2
  <2>3. CASE requests' # requests
    BY <1>1, <1>2, <1>3, <1>4, <2>3
  <2>4. CASE replies' # replies
    BY <1>1, <1>2, <1>3, <1>4, <2>4
  <2>5. QED
    BY <2>1, <2>2, <2>3, <2>4
<1>6. QED
  BY <1>3, <1>5 DEF UnderWay

\* A request arrives and is answered.
LEMMA AnsweredUnderWay ==
    ASSUME Typed, Typed', UnderWay, call' = call, faults' >= faults,
           NEW r \in requests, NEW status, NEW body, Reply(r, status, body)
    PROVE  UnderWay'
<1> DEFINE a == [seq |-> r.seq, status |-> status, body |-> body]
<1>0. requests' = requests \ {r} /\ replies' = replies \cup {a} /\ a.seq = r.seq
  BY DEF Reply
<1> HIDE DEF a
<1>1. /\ IsFiniteSet(requests) /\ IsFiniteSet(replies) /\ faults \in Nat /\ faults' \in Nat
      /\ Cardinality(requests) \in Nat /\ Cardinality(replies) \in Nat
  BY FewUnderWay DEF Typed
<1>2. Cardinality(requests') = Cardinality(requests) - 1
  BY <1>0, <1>1, FS_RemoveElement
<1>3. /\ IsFiniteSet(replies') /\ Cardinality(replies') <= Cardinality(replies) + 1
      /\ Cardinality(replies') \in Nat
  <2>1. IsFiniteSet(replies') /\ Cardinality(replies') \in
                                    {Cardinality(replies), Cardinality(replies) + 1}
    BY <1>0, <1>1, FS_AddElement
  <2>2. QED
    BY <1>1, <2>1
<1>4. InFlight' <=> InFlight
  <2>1. \A m \in (requests \cup replies) \ {r} : m \in (requests \cup replies)'
    BY <1>0
  <2>2. \A m \in (requests \cup replies)' : m \in requests \cup replies \/ m = a
    BY <1>0
  <2>3. a \in (requests \cup replies)'
    BY <1>0
  <2>4. QED
    BY <1>0, <2>1, <2>2, <2>3 DEF InFlight
<1>5. Cardinality(requests) + Cardinality(replies) <= faults + (IF InFlight THEN 1 ELSE 0)
  BY DEF UnderWay
<1>6. Cardinality(requests') + Cardinality(replies') <= faults' + (IF InFlight' THEN 1 ELSE 0)
  BY <1>1, <1>2, <1>3, <1>4, <1>5
<1>7. QED
  BY <1>3, <1>6 DEF UnderWay

\* The exchange sends its request.
LEMMA SendUnderWay ==
    ASSUME Typed, Typed', UnderWay, Send
    PROVE  UnderWay'
<1>1. PICK n \in FreeSeqs : /\ call' = [call EXCEPT !.seq = n]
                            /\ requests' = requests \cup {CurrentRequest'}
  BY DEF CurrentRequest, Setting, Send
<1>2. call'.seq = n /\ CurrentRequest'.seq = n /\ CurrentRequest' \in requests'
  BY <1>1 DEF Typed, CurrentRequest
<1>3. InFlight' /\ ~InFlight
  BY <1>2, NothingInFlight DEF InFlight, Send
<1>4. /\ IsFiniteSet(requests) /\ IsFiniteSet(replies) /\ faults \in Nat
      /\ Cardinality(requests) \in Nat /\ Cardinality(replies) \in Nat
      /\ Cardinality(requests) + Cardinality(replies) <= faults
  BY <1>3, FewUnderWay
<1>5. Cardinality(requests') \in {Cardinality(requests), Cardinality(requests) + 1}
  BY <1>1, <1>4, FS_AddElement
<1>6. replies' = replies /\ faults' = faults
  BY DEF Send
<1>7. Cardinality(requests') + Cardinality(replies') <= faults' + 1
  BY <1>4, <1>5, <1>6
<1>8. QED
  BY <1>3, <1>4, <1>6, <1>7 DEF UnderWay

\* A datagram for each fault, and one for the exchange.
LEMMA StepUnderWay ==
    ASSUME Typed, Typed', UnderWay, [Next]_vars
    PROVE  UnderWay'
<1>0. faults \in Nat /\ faults' \in Nat
  BY DEF Typed
<1>1. CASE StartOperation \/ StartCall \/ PhaseDone \/ Unlocks \/ UNCHANGED vars
  <2>1. requests' = requests /\ replies' = replies /\ faults' = faults
    BY <1>1 DEF StartOperation, StartCall, PhaseDone, Unlocks, vars, netVars
  <2>2. CASE call' = call
    BY <1>0, <2>1, <2>2, FewerUnderWay DEF InFlight
  <2>3. CASE call = NoCall
    BY <1>0, <2>1, <2>3, NothingInFlight, FewerUnderWay DEF NoCall
  <2>4. QED
    BY <1>1, <2>2, <2>3 DEF StartOperation, StartCall, PhaseDone, Unlocks, vars, opVars
<1>2. CASE Send
  BY <1>2, SendUnderWay
<1>3. CASE Dropped \/ GotCapability \/ GotNonce \/ GotSetting \/ LoggedIn \/ SettingTaken \/ Refused
  <2>1. \E r \in replies : replies' = replies \ {r}
    BY <1>3 DEF Dropped, GotCapability, GotNonce, GotSetting, LoggedIn, SettingTaken,
         Refused, Answer
  <2>2. requests' = requests /\ faults' = faults
    BY <1>3 DEF Dropped, GotCapability, GotNonce, GotSetting, LoggedIn, SettingTaken, Refused
  <2>3. QED
    BY <1>0, <2>1, <2>2, FewerUnderWay
<1>4. CASE Retry \/ NoReply
  <2>1. requests' = requests /\ replies' = replies
    BY <1>4 DEF Retry, NoReply, netVars
  <2>2. WindowOver
    BY <1>4 DEF Retry, NoReply
  <2>3. QED
    BY <1>0, <2>1, <2>2, FewerUnderWay DEF WindowOver
<1>5. CASE AnswerGet
  <2>1. PICK r \in requests : \E body : Reply(r, "ok", body)
    BY <1>5 DEF AnswerGet
  <2>2. call' = call /\ faults' = faults
    BY <1>5 DEF AnswerGet
  <2>3. QED
    BY <1>0, <2>1, <2>2, AnsweredUnderWay
<1>6. CASE TakeSet
  <2>1. PICK r \in requests : Reply(r, "ok", 0)
    BY <1>6 DEF TakeSet
  <2>2. call' = call /\ faults' \in {faults, faults + 1}
    BY <1>6 DEF TakeSet
  <2>3. QED
    BY <1>0, <2>1, <2>2, AnsweredUnderWay
<1>7. CASE RefuseSet
  <2>1. PICK r \in requests : Reply(r, "auth", 0)
    BY <1>7 DEF RefuseSet
  <2>2. call' = call /\ faults' = faults
    BY <1>7 DEF RefuseSet
  <2>3. QED
    BY <1>0, <2>1, <2>2, AnsweredUnderWay
<1>8. CASE IgnoreSet
  <2>1. call' = call /\ faults' = faults
    BY <1>8 DEF IgnoreSet
  <2>2. PICK r \in requests : \/ Reply(r, "locked", 0)
                              \/ requests' = requests \ {r} /\ replies' = replies
    BY <1>8 DEF IgnoreSet
  <2>3. CASE Reply(r, "locked", 0)
    BY <1>0, <2>1, <2>3, AnsweredUnderWay
  <2>4. CASE requests' = requests \ {r} /\ replies' = replies
    BY <1>0, <2>1, <2>4, FewerUnderWay
  <2>5. QED
    BY <2>2, <2>3, <2>4
<1>9. CASE Lost \/ Elsewhere
  <2>1. requests' \subseteq requests /\ replies' \subseteq replies /\ faults' = faults + 1
    BY <1>9 DEF Lost, Elsewhere, netVars
  <2>2. QED
    BY <1>0, <2>1, FewerUnderWay
<1>10. QED
  BY <1>1, <1>2, <1>3, <1>4, <1>5, <1>6, <1>7, <1>8, <1>9 DEF Next, Client, Switch

-----------------------------------------------------------------------------
(* What is ready when it is asked for *)

\* An exchange is about a setting that is still to be read or SET.
LEMMA StepHasSetting ==
    ASSUME Typed, Placed, call # NoCall => todo # {}, [Next]_vars
    PROVE  call' # NoCall => todo' # {}
<1>1. SUFFICES ASSUME call' # NoCall PROVE todo' # {}
  OBVIOUS
<1>2. CASE StartOperation
  BY <1>1, <1>2 DEF Placed, StartOperation
<1>3. CASE Client
  <2>1. CASE StartCall
    BY <2>1 DEF StartCall, opVars
  <2>2. CASE PhaseDone
    BY <1>1, <2>2 DEF PhaseDone
  <2>3. CASE Send \/ Retry
    BY <2>3 DEF Send, Retry, TriesAgain, Gets, NoCall, opVars
  <2>4. CASE Dropped
    BY <1>1, <2>4 DEF Dropped, opVars
  <2>5. CASE GotCapability \/ GotNonce \/ LoggedIn
    <3>1. todo' = todo /\ call.stage # "none"
      BY <2>5 DEF GotCapability, GotNonce, LoggedIn, Awaiting, opVars
    <3>2. QED
      BY <3>1 DEF NoCall
  <2>6. CASE GotSetting \/ SettingTaken
    BY <1>1, <2>6 DEF GotSetting, SettingTaken, CallDone
  <2>7. CASE Refused \/ NoReply
    BY <1>1, <2>7 DEF Refused, NoReply, Fail, CallDone
  <2>8. QED
    BY <1>3, <2>1, <2>2, <2>3, <2>4, <2>5, <2>6, <2>7 DEF Client
<1>4. CASE Switch
  BY <1>1, <1>4 DEF Switch, AnswerGet, TakeSet, RefuseSet, IgnoreSet, opVars
<1>5. CASE Lost \/ Elsewhere \/ Unlocks
  BY <1>1, <1>5 DEF Lost, Elsewhere, Unlocks, opVars
<1>6. CASE UNCHANGED vars
  BY <1>1, <1>6 DEF vars, opVars
<1>7. QED
  BY <1>2, <1>3, <1>4, <1>5, <1>6 DEF Next

\* A switch that is not locked has strikes left.
LEMMA StepStrikes ==
    ASSUME strikes \in 0 .. StrikeLimit, locked \in BOOLEAN,
           ~locked => strikes < StrikeLimit, [Next]_vars
    PROVE  /\ strikes' \in 0 .. StrikeLimit /\ locked' \in BOOLEAN
           /\ ~locked' => strikes' < StrikeLimit
<1>0. StrikeLimit \in Nat /\ 0 < StrikeLimit
  BY NsdpSessionAssumption
<1>1. CASE TakeSet
  <2>1. locked' = locked /\ ~locked /\ strikes' \in {0, strikes}
    BY <1>1 DEF TakeSet
  <2>2. QED
    BY <1>0, <2>1
<1>2. CASE RefuseSet
  <2>1. ~locked /\ strikes' = strikes + 1 /\ locked' = (strikes' = StrikeLimit)
    BY <1>2 DEF RefuseSet
  <2>2. strikes' \in 0 .. StrikeLimit
    BY <1>0, <2>1
  <2>3. locked' \in BOOLEAN
    BY <2>1
  <2>4. ~locked' => strikes' # StrikeLimit
    BY <2>1
  <2>5. QED
    BY <1>0, <2>2, <2>3, <2>4
<1>3. CASE Unlocks
  <2>1. strikes' = 0 /\ locked' = FALSE
    BY <1>3 DEF Unlocks
  <2>2. strikes' \in 0 .. StrikeLimit /\ strikes' < StrikeLimit
    BY <1>0, <2>1
  <2>3. locked' \in BOOLEAN
    BY <2>1
  <2>4. QED
    BY <2>2, <2>3
<1>4. CASE strikes' = strikes /\ locked' = locked
  BY <1>4
<1>5. QED
  BY <1>1, <1>2, <1>3, <1>4 DEF Next, Client, Switch, StartOperation, StartCall, PhaseDone,
     Send, Dropped, GotCapability, GotNonce, GotSetting, LoggedIn, SettingTaken, Refused,
     Retry, NoReply, AnswerGet, IgnoreSet, Lost, Elsewhere, switchVars, vars

\* An answer with a nonce is the switch's.
LEMMA StepTellsNonce ==
    ASSUME Typed, Matched, nonce \in Nonces, [Next]_vars,
           call.stage \in {"nonce", "refresh"} =>
               \A r \in replies : Matches(r) => r.body \in Nonces
    PROVE  call'.stage \in {"nonce", "refresh"} =>
               \A r \in replies' : Matches(r)' => r.body \in Nonces
<1>1. SUFFICES ASSUME call'.stage \in {"nonce", "refresh"}, NEW a \in replies', a.seq = call'.seq
               PROVE  a.body \in Nonces
  BY DEF Matches
<1>2. CASE call' = call /\ replies' \subseteq replies
  BY <1>1, <1>2 DEF Matches
<1>3. CASE replies' \subseteq replies /\ call'.seq = 0
  BY <1>1, <1>3, NsdpSessionAssumption DEF Typed
<1>4. CASE StartOperation \/ Lost \/ Elsewhere \/ Unlocks \/ UNCHANGED vars
  BY <1>2, <1>4 DEF StartOperation, Lost, Elsewhere, Unlocks, netVars, vars
<1>5. CASE Send
  <2>1. PICK n \in FreeSeqs : call' = [call EXCEPT !.seq = n] /\ replies' = replies
    BY <1>5 DEF Send
  <2>2. call'.seq = n
    BY <2>1 DEF Typed
  <2>3. QED
    BY <1>1, <2>1, <2>2 DEF FreeSeqs
<1>6. CASE Client
  <2>1. CASE Dropped
    BY <1>2, <2>1 DEF Dropped
  <2>2. CASE StartCall \/ PhaseDone
    BY <1>3, <2>2 DEF StartCall, PhaseDone, Begin, NoCall, netVars
  <2>3. CASE GotCapability \/ GotNonce \/ GotSetting \/ LoggedIn \/ SettingTaken \/ Refused
    <3>1. replies' \subseteq replies
      BY <2>3 DEF GotCapability, GotNonce, GotSetting, LoggedIn, SettingTaken, Refused, Answer
    <3>2. call'.seq = 0
      BY <2>3 DEF GotCapability, GotNonce, GotSetting, LoggedIn, SettingTaken, Refused,
           Begin, CallDone, Fail, NoCall
    <3>3. QED
      BY <1>3, <3>1, <3>2
  <2>4. CASE Retry \/ NoReply
    <3>1. replies' = replies
      BY <2>4 DEF Retry, NoReply, netVars
    <3>2. call'.seq = 0
      <4>1. CASE Retry
        <5>1. call' = [call EXCEPT !.attempt = call.attempt + 1, !.seq = 0]
          BY <4>1 DEF Retry
        <5>2. QED
          BY <5>1 DEF Typed
      <4>2. CASE NoReply
        BY <4>2 DEF NoReply, CallDone, Fail, NoCall
      <4>3. QED
        BY <2>4, <4>1, <4>2
    <3>3. QED
      BY <1>3, <3>1, <3>2
  <2>5. QED
    BY <1>5, <1>6, <2>1, <2>2, <2>3, <2>4 DEF Client
<1>7. CASE Switch
  <2>1. call' = call
    BY <1>7 DEF Switch, AnswerGet, TakeSet, RefuseSet, IgnoreSet
  <2>2. CASE a \in replies
    BY <1>1, <2>1, <2>2 DEF Matches
  <2>3. CASE AnswerGet /\ a \notin replies
    <3>1. PICK r \in requests :
            Reply(r, "ok", CASE r.stage = "capability" -> 0
                             [] r.stage = "get" -> IF r.setting \in wrong THEN 1 ELSE 0
                             [] OTHER -> nonce)
      BY <2>3 DEF AnswerGet
    <3>2. a.seq = r.seq
      BY <2>3, <3>1 DEF Reply
    <3>3. r.stage \in {"nonce", "refresh"}
      BY <1>1, <2>1, <3>2 DEF Matched, CurrentRequest, Matches
    <3>4. a.body = nonce
      BY <2>3, <3>1, <3>3 DEF Reply
    <3>5. QED
      BY <3>4
  <2>4. CASE (TakeSet \/ RefuseSet \/ IgnoreSet) /\ a \notin replies
    <3>1. PICK r \in requests : r.stage \in Sets /\ \E status : Reply(r, status, 0)
      BY <2>4 DEF TakeSet, RefuseSet, IgnoreSet
    <3>2. a.seq = r.seq
      BY <2>4, <3>1 DEF Reply
    <3>3. r.stage \in {"nonce", "refresh"}
      BY <1>1, <2>1, <3>2 DEF Matched, CurrentRequest, Matches
    <3>4. QED
      BY <3>1, <3>3 DEF Sets
  <2>5. QED
    BY <1>7, <2>2, <2>3, <2>4 DEF Switch
<1>8. QED
  BY <1>4, <1>6, <1>7 DEF Next

-----------------------------------------------------------------------------
(* The types *)

Statuses == {"ok", "auth", "locked"}

RequestType == [seq : Seqs, stage : Gets \cup Sets, setting : Settings, token : Nonces \cup {0}]
ReplyType == [seq : Seqs, status : Statuses, body : Nonces \cup {0, 1}]
CallType == [stage : Gets \cup Sets \cup {"none"}, attempt : 0 .. Attempts, seq : Seqs \cup {0}]
ClientType == [loggedIn : BOOLEAN, token : Nonces \cup {0}]

\* The parts of the type invariant.
SwitchTyped == wrong \subseteq Settings /\ nonce \in Nonces /\ right \in BOOLEAN
StrikesTyped == strikes \in 0 .. StrikeLimit /\ locked \in BOOLEAN
NetTyped == (\A r \in requests : r \in RequestType) /\ (\A r \in replies : r \in ReplyType)
CallTyped == call \in CallType /\ client \in ClientType
PlanTyped == differing \subseteq Settings /\ todo \subseteq Settings /\ phase \in Phases
RunTyped ==
    /\ tolerant \in BOOLEAN /\ again \in BOOLEAN /\ touched \in BOOLEAN
    /\ outcome \in Errors \cup {"none", "running", "ok"} /\ logins \in 0 .. LoginCap
FaultsTyped == faults \in 0 .. MaxFaults

LEMMA TypeParts ==
    /\ TypeOK <=> /\ SwitchTyped /\ StrikesTyped /\ NetTyped /\ CallTyped
                  /\ PlanTyped /\ RunTyped /\ FaultsTyped
    /\ TypeOK' <=> /\ SwitchTyped' /\ StrikesTyped' /\ NetTyped' /\ CallTyped'
                   /\ PlanTyped' /\ RunTyped' /\ FaultsTyped'
BY DEF TypeOK, SwitchTyped, StrikesTyped, NetTyped, RequestType, ReplyType, Statuses, CallTyped,
   CallType, ClientType, PlanTyped, Phases, RunTyped, FaultsTyped

LEMMA StepFaultsTyped ==
    ASSUME FaultsTyped, [Next]_vars
    PROVE  FaultsTyped'
<1>1. faults' = faults \/ (faults < MaxFaults /\ faults' = faults + 1)
  BY DEF Next, Client, Switch, StartOperation, StartCall, PhaseDone, Send, Dropped,
     GotCapability, GotNonce, GotSetting, LoggedIn, SettingTaken, Refused, Retry, NoReply,
     WindowOver, AnswerGet, TakeSet, RefuseSet, IgnoreSet, Lost, Elsewhere, Unlocks, vars
<1>2. QED
  BY <1>1, NsdpSessionAssumption DEF FaultsTyped

\* The switch rolls to a nonce there is.
LEMMA StepSwitchTyped ==
    ASSUME TypeOK, Typed, Typed', UnderWay, [Next]_vars
    PROVE  SwitchTyped'
<1>1. SwitchTyped
  BY TypeParts
<1>2. FreshNonce \in Nonces
  <2>1. faults <= MaxFaults /\ faults \in Nat /\ MaxFaults \in Nat
    BY NsdpSessionAssumption DEF TypeOK
  <2>2. QED
    BY <2>1, FewUnderWay, NonceLeft
<1>3. nonce' \in {nonce, FreshNonce}
  BY DEF Next, Client, Switch, StartOperation, StartCall, PhaseDone, Send, Dropped,
     GotCapability, GotNonce, GotSetting, LoggedIn, SettingTaken, Refused, Retry, NoReply,
     AnswerGet, TakeSet, RefuseSet, IgnoreSet, Lost, Elsewhere, Unlocks, switchVars, vars
<1>4. right' = right
  BY DEF Next, Client, Switch, StartOperation, StartCall, PhaseDone, Send, Dropped,
     GotCapability, GotNonce, GotSetting, LoggedIn, SettingTaken, Refused, Retry, NoReply,
     AnswerGet, TakeSet, RefuseSet, IgnoreSet, Lost, Elsewhere, Unlocks, switchVars, vars
<1>5. wrong' \subseteq Settings
  BY DEF Typed
<1>6. QED
  BY <1>1, <1>2, <1>3, <1>4, <1>5 DEF SwitchTyped

\* A request is about a setting, and has a token.
LEMMA StepNetTyped ==
    ASSUME TypeOK, Typed, Ready, [Next]_vars
    PROVE  NetTyped'
<1>1. SwitchTyped /\ NetTyped /\ CallTyped /\ PlanTyped
  BY TypeParts
<1>2. CASE requests' \subseteq requests /\ replies' \subseteq replies
  BY <1>1, <1>2 DEF NetTyped
<1>3. CASE Send
  <2>1. PICK n \in FreeSeqs : /\ call' = [call EXCEPT !.seq = n]
                              /\ requests' = requests \cup {CurrentRequest'}
    BY <1>3 DEF CurrentRequest, Setting, Send
  <2>2. /\ call'.seq \in Seqs /\ call'.stage = call.stage
    BY <2>1 DEF Typed, FreeSeqs
  <2>3. call # NoCall /\ client' = client /\ todo' = todo /\ replies' = replies
    BY <1>3 DEF Send
  <2>4. call.stage \in Gets \cup Sets
    BY <1>1, <2>3 DEF Typed, CallTyped, CallType
  <2>5. Setting \in Settings /\ Setting' = Setting
    BY <1>1, <2>3, SettingNext DEF Ready, PlanTyped, Setting
  <2>6. client.token \in Nonces \cup {0}
    BY <1>1 DEF CallTyped, ClientType
  <2>7. CurrentRequest' \in RequestType
    BY <2>2, <2>3, <2>4, <2>5, <2>6 DEF CurrentRequest, RequestType
  <2>8. QED
    BY <1>1, <2>1, <2>3, <2>7 DEF NetTyped
<1>4. ASSUME NEW r \in requests, NEW status \in Statuses, NEW body \in Nonces \cup {0, 1},
             Reply(r, status, body)
      PROVE  NetTyped'
  <2>1. [seq |-> r.seq, status |-> status, body |-> body] \in ReplyType
    BY <1>1, <1>4 DEF NetTyped, RequestType, ReplyType
  <2>2. QED
    BY <1>1, <1>4, <2>1 DEF NetTyped, Reply
<1>5. CASE AnswerGet
  <2>1. PICK r \in requests :
          Reply(r, "ok", CASE r.stage = "capability" -> 0
                           [] r.stage = "get" -> IF r.setting \in wrong THEN 1 ELSE 0
                           [] OTHER -> nonce)
    BY <1>5 DEF AnswerGet
  <2>2. PICK body \in Nonces \cup {0, 1} : Reply(r, "ok", body)
    BY <1>1, <2>1 DEF SwitchTyped
  <2>3. QED
    BY <1>4, <2>2 DEF Statuses
<1>6. CASE TakeSet \/ RefuseSet
  BY <1>4, <1>6 DEF TakeSet, RefuseSet, Statuses
<1>7. CASE IgnoreSet
  <2>1. PICK r \in requests : \/ Reply(r, "locked", 0)
                              \/ requests' = requests \ {r} /\ replies' = replies
    BY <1>7 DEF IgnoreSet
  <2>2. QED
    BY <1>2, <1>4, <2>1 DEF Statuses
<1>8. QED
  BY <1>2, <1>3, <1>5, <1>6, <1>7 DEF Next, Client, Switch, StartOperation, StartCall, PhaseDone,
     Dropped, GotCapability, GotNonce, GotSetting, LoggedIn, SettingTaken, Refused, Answer,
     Retry, NoReply, Lost, Elsewhere, Unlocks, netVars, vars

\* The client's token is one that it was told.
LEMMA StepCallTyped ==
    ASSUME TypeOK, Typed, Ready, [Next]_vars
    PROVE  CallTyped'
<1>1. CallTyped
  BY TypeParts
<1>2. Attempts \in Nat /\ 1 \in 0 .. Attempts
  BY NsdpSessionAssumption
<1>3. NewClient \in ClientType /\ NoCall \in CallType
  BY <1>2, NsdpSessionAssumption DEF NewClient, NoCall, ClientType, CallType
<1>4. \A stage \in Gets \cup Sets : Begin(stage) \in CallType
  BY <1>2 DEF Begin, CallType
<1>5. call' \in CallType
  <2>1. CASE StartCall
    BY <1>4, <2>1 DEF StartCall, FirstStage, Gets, Sets
  <2>2. CASE Send
    BY <1>1, <2>2 DEF CallTyped, CallType, Send, FreeSeqs
  <2>3. CASE GotCapability \/ GotNonce \/ LoggedIn
    BY <1>4, <2>3 DEF GotCapability, GotNonce, LoggedIn, Gets, Sets
  <2>4. CASE Retry
    <3>1. call.attempt \in 0 .. Attempts /\ call.attempt < Attempts
      BY <1>1, <2>4 DEF CallTyped, CallType, Retry, TriesAgain
    <3>2. call.attempt + 1 \in 0 .. Attempts
      BY <1>2, <3>1
    <3>3. call' = [call EXCEPT !.attempt = call.attempt + 1, !.seq = 0]
      BY <2>4 DEF Retry
    <3>4. QED
      BY <1>1, <3>2, <3>3 DEF CallTyped, CallType
  <2>5. CASE call' \in {call, NoCall}
    BY <1>1, <1>3, <2>5 DEF CallTyped
  <2>6. QED
    BY <2>1, <2>2, <2>3, <2>4, <2>5 DEF Next, Client, Switch, StartOperation, PhaseDone,
       Dropped, GotSetting, SettingTaken, Refused, NoReply, CallDone, Fail,
       AnswerGet, TakeSet, RefuseSet, IgnoreSet, Lost, Elsewhere, Unlocks, vars
<1>6. client' \in ClientType
  <2>1. CASE GotNonce
    <3>1. PICK r \in replies : Matches(r) /\ client' = [client EXCEPT !.token = r.body]
      BY <2>1 DEF GotNonce, Answer
    <3>2. r.body \in Nonces
      BY <2>1, <3>1 DEF Ready, GotNonce, Awaiting
    <3>3. QED
      BY <1>1, <3>1, <3>2 DEF CallTyped, ClientType
  <2>2. CASE LoggedIn
    BY <1>1, <2>2 DEF LoggedIn, CallTyped, ClientType
  <2>3. CASE client' \in {client, NewClient}
    BY <1>1, <1>3, <2>3 DEF CallTyped
  <2>4. QED
    BY <2>1, <2>2, <2>3 DEF Next, Client, Switch, StartOperation, StartCall, PhaseDone, Send,
       Dropped, GotCapability, GotSetting, SettingTaken, Refused, Retry, NoReply, Fail,
       AnswerGet, TakeSet, RefuseSet, IgnoreSet, Lost, Elsewhere, Unlocks, vars
<1>7. QED
  BY <1>5, <1>6 DEF CallTyped

\* What is read, SET, or found to differ is a setting.
LEMMA StepPlanTyped ==
    ASSUME TypeOK, Ready, [Next]_vars
    PROVE  PlanTyped'
<1>1. PlanTyped
  BY TypeParts
<1>2. CASE PhaseDone
  <2>1. phase' \in Phases
    BY <1>1, <1>2 DEF PlanTyped, PhaseDone, AfterPhase, Phases
  <2>2. todo' \in {{}, differing, Settings} /\ differing' = differing
    BY <1>2 DEF PhaseDone
  <2>3. QED
    BY <1>1, <2>1, <2>2 DEF PlanTyped
<1>3. CASE GotSetting
  <2>1. Setting \in Settings
    BY <1>1, <1>3, SettingNext DEF PlanTyped, Ready, GotSetting, Awaiting, NoCall
  <2>2. /\ differing' \in {differing \ {Setting}, differing \cup {Setting}}
        /\ todo' = todo \ {Setting} /\ phase' = phase
    BY <1>3 DEF GotSetting, CallDone
  <2>3. QED
    BY <1>1, <2>1, <2>2 DEF PlanTyped
<1>4. CASE StartOperation
  BY <1>4 DEF StartOperation, PlanTyped, Phases
<1>5. CASE SettingTaken \/ Refused \/ NoReply
  BY <1>1, <1>5 DEF SettingTaken, Refused, NoReply, CallDone, Fail, PlanTyped, Phases
<1>6. CASE UNCHANGED <<differing, todo, phase>>
  BY <1>1, <1>6 DEF PlanTyped
<1>7. QED
  BY <1>2, <1>3, <1>4, <1>5, <1>6 DEF Next, Client, Switch, StartCall, Send, Dropped,
     GotCapability, GotNonce, LoggedIn, Retry, AnswerGet, TakeSet, RefuseSet, IgnoreSet,
     Lost, Elsewhere, Unlocks, opVars, vars

\* How the operation goes.
LEMMA StepRunTyped ==
    ASSUME TypeOK, NetTyped, [Next]_vars
    PROVE  RunTyped'
<1>1. RunTyped
  BY TypeParts
<1>2. CASE StartOperation
  <2>1. logins' \in 0 .. LoginCap
    BY <1>2, NsdpSessionAssumption DEF StartOperation
  <2>2. tolerant' \in BOOLEAN /\ again' = FALSE /\ touched' = FALSE /\ outcome' = "running"
    BY <1>2 DEF StartOperation
  <2>3. QED
    BY <2>1, <2>2 DEF RunTyped
<1>3. CASE PhaseDone
  <2>1. outcome' \in {outcome, "ok", "drift"}
    BY <1>3 DEF PhaseDone
  <2>2. UNCHANGED <<tolerant, again, touched, logins>>
    BY <1>3 DEF PhaseDone
  <2>3. QED
    BY <1>1, <2>1, <2>2 DEF RunTyped, Errors
<1>4. CASE Send
  <2>1. logins' = logins \/ (logins < LoginCap /\ logins' = logins + 1)
    BY <1>4 DEF Send
  <2>2. logins' \in 0 .. LoginCap
    BY <1>1, <2>1, NsdpSessionAssumption DEF RunTyped
  <2>3. QED
    BY <1>1, <1>4, <2>2 DEF RunTyped, Send
<1>5. CASE Refused
  <2>1. PICK r \in replies : r.status # "ok" /\ Fail(r.status)
    BY <1>5 DEF Refused
  <2>2. r.status \in {"auth", "locked"}
    BY <2>1 DEF NetTyped, ReplyType, Statuses
  <2>3. outcome' \in {outcome, "auth", "locked"} /\ again' \in {again, TRUE}
    BY <2>1, <2>2 DEF Fail
  <2>4. UNCHANGED <<tolerant, touched, logins>>
    BY <1>5 DEF Refused
  <2>5. QED
    BY <1>1, <2>3, <2>4 DEF RunTyped, Errors
<1>6. CASE NoReply
  <2>1. outcome' \in {outcome, "noreply"} /\ again' \in {again, TRUE}
    BY <1>6 DEF NoReply, Fail
  <2>2. UNCHANGED <<tolerant, touched, logins>>
    BY <1>6 DEF NoReply
  <2>3. QED
    BY <1>1, <2>1, <2>2 DEF RunTyped, Errors
<1>7. CASE Elsewhere
  BY <1>1, <1>7 DEF Elsewhere, RunTyped
<1>8. CASE UNCHANGED <<tolerant, again, touched, outcome, logins>>
  BY <1>1, <1>8 DEF RunTyped
<1>9. QED
  BY <1>2, <1>3, <1>4, <1>5, <1>6, <1>7, <1>8 DEF Next, Client, Switch, StartCall, Dropped,
     GotCapability, GotNonce, GotSetting, LoggedIn, SettingTaken, Retry, AnswerGet, TakeSet,
     RefuseSet, IgnoreSet, Lost, Unlocks, opVars, vars

\* At the start.
LEMMA StartsRanged ==
    ASSUME Init
    PROVE  Ranged
<1>1. SwitchTyped
  BY NonceFirst DEF Init, SwitchTyped
<1>2. StrikesTyped /\ FaultsTyped
  <2>1. strikes \in 0 .. StrikeLimit /\ FaultsTyped
    BY NsdpSessionAssumption DEF Init, FaultsTyped
  <2>2. locked \in BOOLEAN
    BY DEF Init
  <2>3. QED
    BY <2>1, <2>2 DEF StrikesTyped
<1>3. NetTyped /\ PlanTyped
  BY DEF Init, NetTyped, PlanTyped, Phases
<1>4. CallTyped
  BY NsdpSessionAssumption DEF Init, CallTyped, CallType, ClientType, NoCall, NewClient
<1>5. RunTyped
  <2>1. logins \in 0 .. LoginCap
    BY NsdpSessionAssumption DEF Init
  <2>2. tolerant = FALSE /\ again = FALSE /\ touched = FALSE /\ outcome = "none"
    BY DEF Init
  <2>3. QED
    BY <2>1, <2>2 DEF RunTyped
<1>6. UnderWay
  BY FS_EmptySet DEF Init, UnderWay
<1>7. Ready
  BY NsdpSessionAssumption DEF Init, Ready, NoCall
<1>8. QED
  BY <1>1, <1>2, <1>3, <1>4, <1>5, <1>6, <1>7, TypeParts DEF Ranged

\* The choices can be made in every state.
LEMMA RangedAlways ==
    Spec => []Ranged
<1>1. Init => Ranged
  BY StartsRanged
<1>2. IInv /\ IInv' /\ Ranged /\ [Next]_vars => Ranged'
  <2>1. SUFFICES ASSUME IInv, IInv', Ranged, [Next]_vars PROVE Ranged'
    OBVIOUS
  <2>2. Typed /\ Typed' /\ Placed /\ Matched /\ TypeOK /\ UnderWay /\ Ready
    BY <2>1 DEF IInv, Ranged
  <2>3. SwitchTyped /\ StrikesTyped /\ NetTyped /\ FaultsTyped
    BY <2>2, TypeParts
  <2>4. /\ StrikesTyped'
        /\ ~locked' => strikes' < StrikeLimit
    BY <2>1, <2>2, <2>3, StepStrikes DEF StrikesTyped, Ready
  <2>5. SwitchTyped' /\ NetTyped' /\ CallTyped'
    BY <2>1, <2>2, StepSwitchTyped, StepNetTyped, StepCallTyped
  <2>6. PlanTyped' /\ RunTyped' /\ FaultsTyped'
    BY <2>1, <2>2, <2>3, StepPlanTyped, StepRunTyped, StepFaultsTyped
  <2>7. UnderWay'
    BY <2>1, <2>2, StepUnderWay
  <2>8. call' # NoCall => todo' # {}
    BY <2>1, <2>2, StepHasSetting DEF Ready
  <2>9. call'.stage \in {"nonce", "refresh"} =>
            \A r \in replies' : Matches(r)' => r.body \in Nonces
    BY <2>1, <2>2, <2>3, StepTellsNonce DEF Ready, SwitchTyped
  <2>10. Ready'
    BY <2>4, <2>8, <2>9 DEF Ready
  <2>11. TypeOK'
    BY <2>4, <2>5, <2>6, TypeParts
  <2>12. QED
    BY <2>7, <2>10, <2>11 DEF Ranged
<1>3. QED
  BY <1>1, <1>2, Inductive, PTL DEF Spec

\* Every value the model chooses exists, and everything is of its type: the
\* switch always has a nonce to roll to, and an exchange a setting to be about.
THEOREM TypesHold ==
    Spec => []TypeOK
<1>1. Ranged => TypeOK
  BY DEF Ranged
<1>2. QED
  BY <1>1, RangedAlways, PTL
-----------------------------------------------------------------------------
(* One fault is mended.  Before it strikes, what has been read and SET is  *)
(* right; after it the operation has a second chance, the second run or    *)
(* the corrective pass, and goes through that unharmed.                    *)

\* The switch does not lock for one fault.
Unlocked ==
    right /\ faults < 2 /\ StrikeLimit > 1 =>
        ~locked /\ \A r \in replies : r.status # "locked"

\* What OneFaultIsMended asks of the state.
Sound == right /\ faults < 2 /\ tolerant /\ Attempts > 1 /\ StrikeLimit > 1

SecondChance == again \/ phase \in {"correct", "recheck"}

\* No fault strikes from here on.
Unharmed == faults = 0 \/ SecondChance

\* The exchange waits for an answer that cannot come.
WindowLost == call.seq # 0 /\ ~InFlight

\* The one fault is spent on the first chance, or on one window.
Budget ==
    /\ SecondChance => faults = 1
    /\ call.attempt > 1 \/ WindowLost => faults = 1 /\ ~SecondChance
    /\ ~ (call.attempt > 1 /\ WindowLost)

\* What the answer to the exchange says of its setting.
ToldRight == call.stage = "get" /\ \E r \in replies : Matches(r) /\ r.body = 0
ToldWrong == call.stage = "get" /\ \E r \in replies : Matches(r) /\ r.body # 0
ToldTaken == call.stage = "set" /\ \E r \in replies : Matches(r) /\ r.status = "ok"

\* Every wrong setting is found, or will be.
AllFound == wrong \subseteq todo \cup differing /\ (ToldRight => Setting \notin wrong)

\* No setting is found wrong, and none will be.
NoneFound ==
    /\ differing \subseteq todo /\ ~ToldWrong
    /\ \A s \in wrong \cap todo : s = Setting /\ ToldRight

\* A read-back that the fault strikes finds all that is wrong, or nothing: it
\* is another manager's SET then, and comes after its setting was read.
Findings ==
    /\ Unharmed /\ phase = "read" => AllFound
    /\ Unharmed /\ phase \in {"verify", "recheck"} => wrong = {} /\ NoneFound
    /\ phase = "verify" => AllFound \/ NoneFound
    /\ Unharmed /\ phase \in {"apply", "correct"} =>
           wrong \subseteq todo /\ (ToldTaken => Setting \notin wrong)

Mended == Sound => Budget /\ Findings /\ outcome \notin Errors

\* A token refused was a fault, and the operation runs again for the first time.
LEMMA FaultsCharged ==
    ASSUME Typed, Charged, right
    PROVE  /\ strikes <= faults
           /\ again => faults > 0
           /\ RefusalArrived => faults > 0 /\ (faults < 2 => ~again)
<1>1. Cardinality(GivenUp) \in Nat
  BY GivenUpFinite, FS_CardinalityType
<1>2. /\ strikes \in Nat /\ faults \in Nat
      /\ strikes + Cardinality(GivenUp) + (IF StaleToken THEN 1 ELSE 0) <= faults
      /\ Reruns + Cardinality(GivenUp) + (IF StaleToken THEN 1 ELSE 0) <= faults
  BY DEF Typed, Charged
<1>3. strikes <= faults /\ Reruns <= faults /\ Reruns \in Nat
  BY <1>1, <1>2, RerunsCounted
<1>4. /\ again => Reruns >= 1
      /\ RefusalArrived => Reruns >= 1
      /\ RefusalArrived /\ again => Reruns = 2
  BY DEF Reruns
<1>5. QED
  BY <1>2, <1>3, <1>4

\* One strike does not lock the switch, and nothing else does.
LEMMA StepUnlocked ==
    ASSUME Typed, Typed', Charged', Unlocked, [Next]_vars
    PROVE  Unlocked'
<1>1. SUFFICES ASSUME right', faults' < 2, StrikeLimit > 1
               PROVE  ~locked' /\ \A r \in replies' : r.status # "locked"
  BY DEF Unlocked
<1>2. right /\ faults < 2
  <2>1. right' = right /\ faults' \in {faults, faults + 1}
    BY DEF Next, Client, Switch, StartOperation, StartCall, PhaseDone, Send, Dropped,
       GotCapability, GotNonce, GotSetting, LoggedIn, SettingTaken, Refused, Retry, NoReply,
       WindowOver, AnswerGet, TakeSet, RefuseSet, IgnoreSet, Lost, Elsewhere, Unlocks,
       switchVars, vars
  <2>2. faults \in Nat
    BY DEF Typed
  <2>3. QED
    BY <1>1, <2>1, <2>2
<1>3. ~locked /\ \A r \in replies : r.status # "locked"
  BY <1>1, <1>2 DEF Unlocked
<1>4. CASE RefuseSet
  <2>1. strikes' # StrikeLimit
    <3>1. IsFiniteSet(requests') /\ GivenUp' \subseteq requests'
      BY DEF Typed, GivenUp
    <3>2. Cardinality(GivenUp') \in Nat
      BY <3>1, FS_Subset, FS_CardinalityType
    <3>3. strikes' <= faults' /\ strikes' \in Nat /\ faults' \in Nat
      BY <1>1, <3>2 DEF Typed, Charged
    <3>4. QED
      BY <1>1, <3>3, NsdpSessionAssumption
  <2>2. \A r \in replies' : r \in replies \/ r.status = "auth"
    BY <1>4 DEF RefuseSet, Reply
  <2>3. QED
    BY <1>3, <1>4, <2>1, <2>2 DEF RefuseSet
<1>5. CASE AnswerGet \/ TakeSet
  <2>1. \A r \in replies' : r \in replies \/ r.status = "ok"
    BY <1>5 DEF AnswerGet, TakeSet, Reply
  <2>2. locked' = locked
    BY <1>5 DEF AnswerGet, TakeSet, switchVars
  <2>3. QED
    BY <1>3, <2>1, <2>2
<1>6. CASE IgnoreSet \/ Unlocks
  BY <1>3, <1>6 DEF IgnoreSet, Unlocks
<1>7. CASE locked' = locked /\ replies' \subseteq replies
  BY <1>3, <1>7
<1>8. QED
  BY <1>4, <1>5, <1>6, <1>7 DEF Next, Client, Switch, StartOperation, StartCall, PhaseDone, Send,
     Dropped, GotCapability, GotNonce, GotSetting, LoggedIn, SettingTaken, Refused, Answer,
     Retry, NoReply, Lost, Elsewhere, switchVars, netVars, vars
\* A step that is no fault keeps the budget, when it neither tries a GET again
\* nor takes a datagram away.
LEMMA BudgetKept ==
    ASSUME Budget, faults' = faults, UNCHANGED <<phase, again>>,
           call'.attempt > 1 => call.attempt > 1, WindowLost' => WindowLost
    PROVE  Budget'
BY DEF Budget, SecondChance

\* The fault strikes.
LEMMA BudgetSpent ==
    ASSUME Budget, faults = 0, faults' = 1, UNCHANGED <<phase, again>>,
           ~ (call'.attempt > 1 /\ WindowLost')
    PROVE  Budget'
BY DEF Budget, SecondChance

\* What is found stays found while nothing is written, read or answered.
LEMMA FindingsKept ==
    ASSUME Findings, faults' = faults,
           UNCHANGED <<wrong, differing, phase, todo, again>>,
           ToldRight' <=> ToldRight, ToldWrong' => ToldWrong, ToldTaken' => ToldTaken
    PROVE  Findings'
<1>1. Setting' = Setting /\ (Unharmed' <=> Unharmed)
  BY DEF Setting, Unharmed, SecondChance
<1>2. (AllFound => AllFound') /\ (NoneFound => NoneFound')
  BY <1>1 DEF AllFound, NoneFound
<1>3. QED
  BY <1>1, <1>2 DEF Findings

\* The fault leaves the operation its second chance.
LEMMA FindingsHarmed ==
    ASSUME Findings, Budget, faults = 0, faults' = 1, UNCHANGED <<phase, again>>,
           phase = "verify" /\ wrong = {} /\ NoneFound => AllFound' \/ NoneFound'
    PROVE  Findings'
<1>1. ~SecondChance /\ ~Unharmed' /\ Unharmed
  BY DEF Budget, SecondChance, Unharmed
<1>2. QED
  BY <1>1 DEF Findings

\* The exchange has no answer before it is sent.
LEMMA ToldNothing ==
    ASSUME Typed', call'.seq = 0
    PROVE  ~ToldRight' /\ ~ToldWrong' /\ ~ToldTaken' /\ ~WindowLost'
BY NsdpSessionAssumption DEF Typed, ToldRight, ToldWrong, ToldTaken, WindowLost, Matches

\* A new operation starts unharmed, or with its second chance left.
LEMMA StartOperationMends ==
    ASSUME IInv, IInv', Sound', StartOperation
    PROVE  Budget' /\ Findings' /\ outcome' \notin Errors
<1>1. call' = NoCall /\ phase' = "read" /\ again' = FALSE /\ todo' = Settings /\ outcome' = "running"
  BY DEF IInv, Placed, StartOperation
<1>2. Typed' /\ wrong' \subseteq Settings
  BY DEF IInv, Typed
<1>3. ~ToldRight' /\ ~WindowLost'
  BY <1>1, <1>2, ToldNothing DEF NoCall
<1>4. Budget'
  BY <1>1, <1>3 DEF Budget, SecondChance, NoCall
<1>5. Findings'
  BY <1>1, <1>2, <1>3 DEF Findings, AllFound
<1>6. QED
  BY <1>1, <1>4, <1>5 DEF Errors

\* A phase that is over has found what is wrong, and the next one mends it.
LEMMA PhaseDoneMends ==
    ASSUME IInv, IInv', Ranged, Budget, Findings, Sound, outcome \notin Errors, PhaseDone
    PROVE  Budget' /\ Findings' /\ outcome' \notin Errors
<1>1. /\ phase # "idle" /\ todo = {} /\ call = NoCall /\ call' = NoCall /\ tolerant
      /\ UNCHANGED <<wrong, differing, again, faults, replies>>
  BY DEF PhaseDone, Sound, switchVars, netVars
<1>2. /\ Typed' /\ wrong \subseteq Settings /\ differing \subseteq Settings
      /\ phase \in Phases /\ faults \in {0, 1}
  BY DEF IInv, Typed, Ranged, TypeOK, Sound
<1>3. ~ToldRight' /\ ~ToldWrong' /\ ~ToldTaken' /\ ~WindowLost' /\ ~ (call'.attempt > 1)
  BY <1>1, <1>2, ToldNothing DEF NoCall
<1>4. CASE phase = "read"
  <2>1. CASE differing = {}
    <3>1. phase' = "verify" /\ todo' = Settings /\ outcome' = outcome
      BY <1>4, <2>1 DEF PhaseDone, AfterPhase
    <3>2. AllFound'
      BY <1>1, <1>2, <1>3, <3>1 DEF AllFound
    <3>3. Unharmed => NoneFound' /\ wrong' = {}
      BY <1>1, <1>2, <1>3, <1>4, <2>1, <3>1 DEF Findings, AllFound, NoneFound
    <3>4. QED
      BY <1>1, <1>3, <1>4, <3>1, <3>2, <3>3 DEF Findings, Budget, Unharmed, SecondChance
  <2>2. CASE differing # {}
    <3>1. phase' = "apply" /\ todo' = differing /\ outcome' = outcome
      BY <1>4, <2>2 DEF PhaseDone, AfterPhase
    <3>2. Unharmed => wrong \subseteq differing
      BY <1>1, <1>4 DEF Findings, AllFound
    <3>3. QED
      BY <1>1, <1>3, <1>4, <3>1, <3>2 DEF Findings, Budget, Unharmed, SecondChance
  <2>3. QED
    BY <2>1, <2>2
<1>5. CASE phase \in {"apply", "correct"}
  <2>1. /\ phase' = (IF phase = "apply" THEN "verify" ELSE "recheck")
        /\ todo' = Settings /\ outcome' = outcome
    BY <1>5 DEF PhaseDone, AfterPhase
  <2>2. AllFound'
    BY <1>1, <1>2, <1>3, <2>1 DEF AllFound
  <2>3. Unharmed => NoneFound' /\ wrong' = {}
    BY <1>1, <1>2, <1>3, <1>5, <2>1 DEF Findings, NoneFound
  <2>4. SecondChance' <=> SecondChance
    BY <1>1, <1>5, <2>1 DEF SecondChance
  <2>5. QED
    BY <1>1, <1>3, <1>5, <2>1, <2>2, <2>3, <2>4 DEF Findings, Budget, Unharmed
<1>6. CASE phase = "verify"
  <2>1. CASE differing = {}
    <3>1. phase' = "idle" /\ outcome' = "ok"
      BY <1>6, <2>1 DEF PhaseDone, AfterPhase
    <3>2. QED
      BY <1>1, <1>3, <1>6, <3>1 DEF Findings, Budget, SecondChance, Errors
  <2>2. CASE differing # {}
    <3>1. phase' = "correct" /\ todo' = differing /\ outcome' = outcome
      BY <1>1, <1>6, <2>2 DEF PhaseDone, AfterPhase
    <3>2. ~NoneFound
      BY <1>1, <2>2 DEF NoneFound
    <3>3. wrong \subseteq differing /\ faults = 1
      BY <1>1, <1>2, <1>6, <3>2 DEF Findings, AllFound, Unharmed
    <3>4. QED
      BY <1>1, <1>3, <3>1, <3>3 DEF Findings, Budget
  <2>3. QED
    BY <2>1, <2>2
<1>7. CASE phase = "recheck"
  <2>1. differing = {}
    BY <1>1, <1>7 DEF Findings, NoneFound, Unharmed, SecondChance
  <2>2. phase' = "idle" /\ outcome' = "ok"
    BY <1>7, <2>1 DEF PhaseDone, AfterPhase
  <2>3. QED
    BY <1>1, <1>3, <1>7, <2>2 DEF Findings, Budget, SecondChance, Errors
<1>8. QED
  BY <1>1, <1>2, <1>4, <1>5, <1>6, <1>7 DEF Phases
\* The setting of an exchange is one that is still to be read or SET.
LEMMA SettingToDo ==
    ASSUME Ranged, call # NoCall
    PROVE  Setting \in todo
<1>1. todo \subseteq Nat /\ todo # {}
  BY NsdpSessionAssumption DEF Ranged, TypeOK, Ready
<1>2. QED
  BY <1>1, LeastOfSet DEF Setting

\* The answer moves its setting from what is to be read to what is found.
LEMMA GotSettingMends ==
    ASSUME IInv, IInv', Ranged, Budget, Findings, outcome \notin Errors, GotSetting
    PROVE  Budget' /\ Findings' /\ outcome' \notin Errors
<1>1. /\ call.stage = "get" /\ call # NoCall /\ call' = NoCall
      /\ UNCHANGED <<wrong, again, phase, faults, outcome>>
      /\ todo' = todo \ {Setting}
  BY DEF GotSetting, Awaiting, CallDone, NoCall, switchVars
<1>2. Setting \in todo /\ Reading
  BY <1>1, SettingToDo DEF IInv, Placed
<1>3. ~ToldRight' /\ ~ToldWrong' /\ ~ToldTaken' /\ ~WindowLost' /\ ~ (call'.attempt > 1)
  BY <1>1, ToldNothing DEF IInv, NoCall
<1>4. Budget'
  BY <1>1, <1>3 DEF Budget, SecondChance
<1>5. PICK r \in replies :
        /\ Matches(r)
        /\ differing' = IF r.body = 0 THEN differing \ {Setting} ELSE differing \cup {Setting}
  BY DEF GotSetting, Answer
<1>6. r.body = 0 => ToldRight
  BY <1>1, <1>5 DEF ToldRight
<1>7. r.body # 0 => ToldWrong
  BY <1>1, <1>5 DEF ToldWrong
<1>8. AllFound => AllFound'
  BY <1>1, <1>3, <1>5, <1>6 DEF AllFound
<1>9. NoneFound => NoneFound'
  BY <1>1, <1>3, <1>5, <1>7 DEF NoneFound
<1>10. Findings'
  BY <1>1, <1>2, <1>8, <1>9 DEF Findings, Unharmed, SecondChance, Reading
<1>11. QED
  BY <1>1, <1>4, <1>10

\* A SET that was taken leaves its setting right.
LEMMA SettingTakenMends ==
    ASSUME IInv, IInv', Budget, Findings, outcome \notin Errors, SettingTaken
    PROVE  Budget' /\ Findings' /\ outcome' \notin Errors
<1>1. /\ call.stage = "set" /\ call # NoCall /\ call' = NoCall
      /\ UNCHANGED <<wrong, again, phase, faults, outcome>>
      /\ todo' = todo \ {Setting}
  BY DEF SettingTaken, Awaiting, CallDone, NoCall, switchVars
<1>2. ~Reading
  BY <1>1 DEF IInv, Placed
<1>3. ~ToldTaken' /\ ~WindowLost' /\ ~ (call'.attempt > 1)
  BY <1>1, ToldNothing DEF IInv, NoCall
<1>4. Budget'
  BY <1>1, <1>3 DEF Budget, SecondChance
<1>5. ToldTaken
  BY <1>1 DEF SettingTaken, Answer, ToldTaken
<1>6. Findings'
  BY <1>1, <1>2, <1>3, <1>5 DEF Findings, Unharmed, SecondChance, Reading
<1>7. QED
  BY <1>1, <1>4, <1>6

\* A refusal is the one fault's, and the second run follows.
LEMMA RefusedMends ==
    ASSUME IInv, IInv', Ranged, Unlocked, Sound, outcome \notin Errors, Refused
    PROVE  Budget' /\ Findings' /\ outcome' \notin Errors
<1>1. PICK r \in replies : r.status # "ok" /\ Matches(r) /\ Fail(r.status)
  BY DEF Refused, Answer
<1>2. r.status = "auth"
  <2>1. r.status \in {"ok", "auth", "locked"}
    BY DEF Ranged, TypeOK
  <2>2. r.status # "locked"
    BY DEF Unlocked, Sound
  <2>3. QED
    BY <1>1, <2>1, <2>2
<1>3. faults = 1 /\ ~again
  <2>1. faults > 0 /\ ~again /\ faults < 2 /\ faults \in Nat
    BY <1>1, <1>2, FaultsCharged DEF IInv, RefusalArrived, Sound, Typed
  <2>2. QED
    BY <2>1
<1>4. /\ phase' = "read" /\ todo' = Settings /\ again' = TRUE /\ call' = NoCall
      /\ UNCHANGED <<wrong, faults, outcome>>
  BY <1>1, <1>2, <1>3 DEF Refused, Fail, Retried, switchVars
<1>5. ~ToldRight' /\ ~WindowLost' /\ ~ (call'.attempt > 1)
  BY <1>4, ToldNothing DEF IInv, NoCall
<1>6. Budget'
  BY <1>3, <1>4, <1>5 DEF Budget
<1>7. Findings'
  BY <1>4, <1>5 DEF Findings, AllFound, IInv, Typed
<1>8. QED
  BY <1>4, <1>6, <1>7

\* A GET is tried again, at the price of the fault.
LEMMA RetryMends ==
    ASSUME IInv, IInv', Budget, Findings, Sound, Sound', outcome \notin Errors, Retry
    PROVE  Budget' /\ Findings' /\ outcome' \notin Errors
<1>1. UNCHANGED <<wrong, differing, phase, todo, again, outcome, replies>>
  BY DEF Retry, switchVars, netVars, opVars
<1>2. call'.seq = 0 /\ call'.stage = call.stage /\ call.seq # 0
  <2>1. call' = [call EXCEPT !.attempt = call.attempt + 1, !.seq = 0]
    BY DEF Retry
  <2>2. QED
    BY <2>1 DEF IInv, Typed, Retry, WindowOver, Awaiting
<1>3. ~ToldRight' /\ ~ToldWrong' /\ ~ToldTaken' /\ ~WindowLost'
  BY <1>2, ToldNothing DEF IInv
<1>4. faults \in Nat /\ faults < 2 /\ faults' < 2
  BY DEF IInv, Typed, Sound
<1>5. CASE ~InFlight
  <2>1. faults' = faults
    BY <1>5 DEF Retry, WindowOver
  <2>2. faults = 1 /\ ~SecondChance
    BY <1>2, <1>5 DEF Budget, WindowLost
  <2>3. Budget'
    BY <1>1, <1>3, <2>1, <2>2 DEF Budget, SecondChance
  <2>4. ~ToldRight
    BY <1>5 DEF InFlight, ToldRight, Matches
  <2>5. Findings'
    BY <1>1, <1>3, <2>1, <2>4, FindingsKept
  <2>6. QED
    BY <1>1, <2>3, <2>5
<1>6. CASE InFlight
  <2>1. faults = 0 /\ faults' = 1
    BY <1>4, <1>6 DEF Retry, WindowOver
  <2>2. Budget'
    BY <1>1, <1>3, <2>1, BudgetSpent
  <2>3. wrong = {} => AllFound'
    BY <1>1, <1>3 DEF AllFound
  <2>4. Findings'
    BY <1>1, <2>1, <2>3, FindingsHarmed
  <2>5. QED
    BY <1>1, <2>2, <2>4
<1>7. QED
  BY <1>5, <1>6

\* An answer that does not come is the one fault: a GET is tried again, and
\* the corrective pass makes the SET again.
LEMMA NoReplyMends ==
    ASSUME IInv, IInv', Budget, Findings, Sound, Sound', outcome \notin Errors, NoReply
    PROVE  Budget' /\ Findings' /\ outcome' \notin Errors
<1>1. /\ WindowOver /\ ~TriesAgain /\ call' = NoCall /\ call # NoCall /\ call.seq # 0
      /\ UNCHANGED <<wrong, differing>> /\ tolerant
  BY DEF NoReply, CallDone, Fail, WindowOver, Awaiting, NoCall, Sound, switchVars
<1>2. faults \in Nat /\ faults < 2 /\ faults' < 2 /\ Attempts > 1
  BY DEF IInv, Typed, Sound
<1>3. faults' = 1 /\ ~SecondChance
  <2>1. CASE ~InFlight
    BY <1>1, <2>1 DEF Budget, WindowLost, WindowOver
  <2>2. CASE InFlight
    <3>1. faults = 0 /\ faults' = 1
      BY <1>1, <1>2, <2>2 DEF WindowOver
    <3>2. QED
      BY <3>1 DEF Budget
  <2>3. QED
    BY <2>1, <2>2
<1>4. ~Reading
  <2>1. SUFFICES ASSUME Reading PROVE FALSE
    OBVIOUS
  <2>2. call.stage = "get"
    BY <1>1, <2>1 DEF IInv, Placed
  <2>3. call.attempt > 1
    BY <1>1, <1>2, <2>2, NsdpSessionAssumption DEF TriesAgain, Gets, IInv, Typed
  <2>4. faults = 1 /\ InFlight
    BY <1>1, <2>3 DEF Budget, WindowLost
  <2>5. QED
    BY <1>1, <1>2, <2>4 DEF WindowOver
<1>5. UNCHANGED <<phase, again, outcome>>
  BY <1>1, <1>4 DEF NoReply
<1>6. ~WindowLost' /\ ~ (call'.attempt > 1)
  BY <1>1, ToldNothing DEF IInv, NoCall
<1>7. Budget'
  BY <1>3, <1>5, <1>6 DEF Budget, SecondChance
<1>8. phase \in {"apply", "correct"}
  BY <1>1, <1>4 DEF IInv, Typed, Phases, Placed, Reading
<1>9. Findings'
  BY <1>3, <1>5, <1>8 DEF Findings, Unharmed, SecondChance
<1>10. QED
  BY <1>5, <1>7, <1>9
\* A step of the exchange before its answer, or between its requests.
LEMMA ExchangeMends ==
    ASSUME IInv, IInv', Budget, Findings, outcome \notin Errors,
           StartCall \/ Send \/ Dropped \/ GotCapability \/ GotNonce \/ LoggedIn
    PROVE  Budget' /\ Findings' /\ outcome' \notin Errors
<1>1. UNCHANGED <<wrong, differing, phase, todo, again, outcome, faults>>
  BY DEF StartCall, Send, Dropped, GotCapability, GotNonce, LoggedIn, switchVars, opVars
<1>2. Typed /\ Typed'
  BY DEF IInv
<1>3. CASE Dropped
  <2>1. PICK d \in replies : /\ ~Matches(d) /\ replies' = replies \ {d}
                             /\ requests' = requests /\ call' = call
    BY <1>3 DEF Dropped
  <2>2. \A r : Matches(r)' <=> Matches(r)
    BY <2>1 DEF Matches
  <2>3. /\ ToldRight' <=> ToldRight
        /\ ToldWrong' => ToldWrong
        /\ ToldTaken' => ToldTaken
    BY <2>1, <2>2 DEF ToldRight, ToldWrong, ToldTaken
  <2>4. WindowLost' => WindowLost
    BY <2>1 DEF WindowLost, InFlight, Matches
  <2>5. Budget'
    BY <1>1, <2>1, <2>4, BudgetKept
  <2>6. Findings'
    BY <1>1, <2>3, FindingsKept
  <2>7. QED
    BY <1>1, <2>5, <2>6
<1>4. CASE Send
  <2>1. PICK n \in FreeSeqs : /\ call' = [call EXCEPT !.seq = n]
                              /\ requests' = requests \cup {CurrentRequest'}
    BY <1>4 DEF CurrentRequest, Setting, Send
  <2>2. call'.seq = n /\ call'.attempt = call.attempt /\ call.seq = 0 /\ replies' = replies
    BY <1>2, <1>4, <2>1 DEF Typed, Send
  <2>3. ~ToldRight /\ ~ToldRight' /\ ~ToldWrong' /\ ~ToldTaken'
    BY <1>2, <2>2, NsdpSessionAssumption
       DEF Typed, ToldRight, ToldWrong, ToldTaken, Matches, FreeSeqs
  <2>4. ~WindowLost'
    BY <2>1, <2>2 DEF WindowLost, InFlight, CurrentRequest
  <2>5. Budget'
    BY <1>1, <2>2, <2>4, BudgetKept
  <2>6. Findings'
    BY <1>1, <2>3, FindingsKept
  <2>7. QED
    BY <1>1, <2>5, <2>6
<1>5. CASE StartCall \/ GotCapability \/ GotNonce \/ LoggedIn
  <2>1. call'.seq = 0 /\ ~ (call'.attempt > 1) /\ call.stage # "get"
    BY <1>5 DEF StartCall, GotCapability, GotNonce, LoggedIn, Awaiting, Begin, NoCall
  <2>2. ~ToldRight' /\ ~ToldWrong' /\ ~ToldTaken' /\ ~WindowLost'
    BY <1>2, <2>1, ToldNothing
  <2>3. Budget'
    BY <1>1, <2>1, <2>2, BudgetKept
  <2>4. ~ToldRight
    BY <2>1 DEF ToldRight
  <2>5. Findings'
    BY <1>1, <2>2, <2>4, FindingsKept
  <2>6. QED
    BY <1>1, <2>3, <2>5
<1>6. QED
  BY <1>3, <1>4, <1>5

\* A request that arrives is answered: the window is not lost.
LEMMA AnsweredWindow ==
    ASSUME call' = call, NEW r \in requests, NEW status, NEW body, Reply(r, status, body)
    PROVE  WindowLost' => WindowLost
<1>1. [seq |-> r.seq, status |-> status, body |-> body] \in replies'
  BY DEF Reply
<1>2. \A m \in (requests \cup replies) \ {r} : m \in (requests \cup replies)'
  BY DEF Reply
<1>3. QED
  BY <1>1, <1>2 DEF WindowLost, InFlight

\* The switch tells whether the setting is right.
LEMMA AnswerGetMends ==
    ASSUME IInv, IInv', Ranged, Budget, Findings, outcome \notin Errors, AnswerGet
    PROVE  Budget' /\ Findings' /\ outcome' \notin Errors
<1>1. UNCHANGED <<call, wrong, differing, phase, todo, again, outcome, faults>>
  BY DEF AnswerGet, switchVars, opVars
<1>2. PICK q \in requests :
        /\ q.stage \in Gets
        /\ Reply(q, "ok", CASE q.stage = "capability" -> 0
                            [] q.stage = "get" -> IF q.setting \in wrong THEN 1 ELSE 0
                            [] OTHER -> nonce)
  BY DEF AnswerGet
<1>3. WindowLost' => WindowLost
  BY <1>1, <1>2, AnsweredWindow
<1>4. Budget'
  BY <1>1, <1>3, BudgetKept
<1>5. (\A r : Matches(r)' <=> Matches(r)) /\ Setting' = Setting
  BY <1>1 DEF Matches, Setting
<1>6. PICK a : /\ replies' = replies \cup {a} /\ a.seq = q.seq
               /\ q.stage = "get" => a.body = IF q.setting \in wrong THEN 1 ELSE 0
  <2>1. PICK body : Reply(q, "ok", body) /\
                    (q.stage = "get" => body = IF q.setting \in wrong THEN 1 ELSE 0)
    BY <1>2
  <2>2. PICK a : a = [seq |-> q.seq, status |-> "ok", body |-> body]
    OBVIOUS
  <2>3. replies' = replies \cup {a} /\ a.seq = q.seq /\ a.body = body
    BY <2>1, <2>2 DEF Reply
  <2>4. QED
    BY <2>1, <2>3
<1>7. CASE ~ (Matches(q) /\ call.stage = "get")
  <2>1. call.stage = "get" => ~Matches(a)
    BY <1>6, <1>7 DEF Matches
  <2>2. Matches(q) => q.stage = call.stage
    BY <1>2 DEF IInv, Matched, CurrentRequest
  <2>3. Matches(a) <=> Matches(q)
    BY <1>6 DEF Matches
  <2>4. ToldTaken' => ToldTaken
    BY <1>1, <1>2, <1>5, <1>6, <2>2, <2>3 DEF ToldTaken, Gets
  <2>5. (ToldRight' <=> ToldRight) /\ (ToldWrong' => ToldWrong)
    BY <1>1, <1>5, <1>6, <2>1 DEF ToldRight, ToldWrong
  <2>6. Findings'
    BY <1>1, <2>4, <2>5, FindingsKept
  <2>7. QED
    BY <1>1, <1>4, <2>6
<1>8. CASE Matches(q) /\ call.stage = "get"
  <2>1. q.setting = Setting /\ q.stage = "get" /\ Setting \in todo
    BY <1>8, SettingToDo DEF IInv, Matched, CurrentRequest, NoCall
  <2>2. \A r \in replies : ~Matches(r)
    BY <1>2, <1>8 DEF IInv, Matched
  <2>3. ~ToldRight /\ ~ToldWrong /\ ~ToldTaken'
    BY <1>1, <1>8, <2>2 DEF ToldRight, ToldWrong, ToldTaken
  <2>4. (ToldRight' => Setting \notin wrong) /\ (ToldWrong' => Setting \in wrong)
    BY <1>5, <1>6, <2>1, <2>2 DEF ToldRight, ToldWrong
  <2>5. AllFound => AllFound'
    BY <1>1, <1>5, <2>4 DEF AllFound
  <2>6. NoneFound => NoneFound'
    BY <1>1, <1>5, <2>1, <2>3, <2>4 DEF NoneFound
  <2>7. Findings'
    BY <1>1, <2>3, <2>5, <2>6 DEF Findings, Unharmed, SecondChance
  <2>8. QED
    BY <1>1, <1>4, <2>7
<1>9. QED
  BY <1>7, <1>8

\* A SET taken makes its setting right, unless that is the fault.
LEMMA TakeSetMends ==
    ASSUME IInv, IInv', Budget, Findings, Sound, Sound', outcome \notin Errors, TakeSet
    PROVE  Budget' /\ Findings' /\ outcome' \notin Errors
<1>1. UNCHANGED <<call, differing, phase, todo, again, outcome>> /\ wrong' \subseteq wrong
  BY DEF TakeSet, opVars
<1>2. PICK q \in requests :
        /\ q.stage \in Sets /\ Reply(q, "ok", 0)
        /\ q.stage = "set" /\ q.setting \in wrong' => faults' = faults + 1
  BY DEF TakeSet
<1>3. WindowLost' => WindowLost
  BY <1>1, <1>2, AnsweredWindow
<1>4. (\A r : Matches(r)' <=> Matches(r)) /\ Setting' = Setting
  BY <1>1 DEF Matches, Setting
<1>5. PICK a : replies' = replies \cup {a} /\ a.seq = q.seq
  <2>1. PICK a : a = [seq |-> q.seq, status |-> "ok", body |-> 0]
    OBVIOUS
  <2>2. replies' = replies \cup {a} /\ a.seq = q.seq
    BY <1>2, <2>1 DEF Reply
  <2>3. QED
    BY <2>2
<1>6. Matches(q) => q.stage = call.stage /\ q.setting = Setting
  BY DEF IInv, Matched, CurrentRequest
<1>7. Matches(a) => call.stage \in Sets
  BY <1>2, <1>5, <1>6 DEF Matches
<1>8. (ToldRight' <=> ToldRight) /\ (ToldWrong' <=> ToldWrong)
  BY <1>1, <1>4, <1>5, <1>7 DEF ToldRight, ToldWrong, Sets
<1>9. (AllFound => AllFound') /\ (NoneFound => NoneFound')
  BY <1>1, <1>4, <1>8 DEF AllFound, NoneFound
<1>10. faults \in Nat /\ faults < 2 /\ faults' < 2 /\ faults' \in {faults, faults + 1}
  BY DEF IInv, Typed, Sound, TakeSet
<1>11. CASE faults' = faults
  <2>1. Budget'
    BY <1>1, <1>3, <1>11, BudgetKept
  <2>2. ToldTaken' => ToldTaken \/ Setting \notin wrong'
    <3>1. CASE Matches(a)
      <4>1. q.stage = call.stage /\ q.setting = Setting
        BY <1>5, <1>6, <3>1 DEF Matches
      <4>2. call.stage = "set" => Setting \notin wrong'
        BY <1>2, <1>10, <1>11, <4>1
      <4>3. QED
        BY <1>1, <4>2 DEF ToldTaken
    <3>2. CASE ~Matches(a)
      BY <1>1, <1>4, <1>5, <3>2 DEF ToldTaken
    <3>3. QED
      BY <3>1, <3>2
  <2>3. Findings'
    BY <1>1, <1>4, <1>9, <1>11, <2>2 DEF Findings, Unharmed, SecondChance
  <2>4. QED
    BY <1>1, <2>1, <2>3
<1>12. CASE faults' = faults + 1
  <2>1. faults = 0 /\ faults' = 1
    BY <1>10, <1>12
  <2>2. ~ (call'.attempt > 1 /\ WindowLost')
    BY <1>1, <1>3 DEF Budget
  <2>3. Budget'
    BY <1>1, <2>1, <2>2, BudgetSpent
  <2>4. Findings'
    BY <1>1, <1>9, <2>1, FindingsHarmed
  <2>5. QED
    BY <1>1, <2>3, <2>4
<1>13. QED
  BY <1>10, <1>11, <1>12

\* A refusal touches no setting.
LEMMA RefuseSetMends ==
    ASSUME IInv, IInv', Budget, Findings, outcome \notin Errors, RefuseSet
    PROVE  Budget' /\ Findings' /\ outcome' \notin Errors
<1>1. UNCHANGED <<call, wrong, differing, phase, todo, again, outcome, faults>>
  BY DEF RefuseSet, opVars
<1>2. PICK q \in requests : q.stage \in Sets /\ Reply(q, "auth", 0)
  BY DEF RefuseSet
<1>3. WindowLost' => WindowLost
  BY <1>1, <1>2, AnsweredWindow
<1>4. \A r : Matches(r)' <=> Matches(r)
  BY <1>1 DEF Matches
<1>5. PICK a : replies' = replies \cup {a} /\ a.seq = q.seq /\ a.status = "auth"
  <2>1. PICK a : a = [seq |-> q.seq, status |-> "auth", body |-> 0]
    OBVIOUS
  <2>2. replies' = replies \cup {a} /\ a.seq = q.seq /\ a.status = "auth"
    BY <1>2, <2>1 DEF Reply
  <2>3. QED
    BY <2>2
<1>6. Matches(a) => call.stage \in Sets
  <2>1. Matches(a) => Matches(q)
    BY <1>5 DEF Matches
  <2>2. Matches(q) => q.stage = call.stage
    BY DEF IInv, Matched, CurrentRequest
  <2>3. QED
    BY <1>2, <2>1, <2>2
<1>7. (ToldRight' <=> ToldRight) /\ (ToldWrong' => ToldWrong) /\ (ToldTaken' => ToldTaken)
  BY <1>1, <1>4, <1>5, <1>6 DEF ToldRight, ToldWrong, ToldTaken, Sets
<1>8. QED
  BY <1>1, <1>3, <1>7, BudgetKept, FindingsKept

\* The loss of a datagram is the fault.
LEMMA LostMends ==
    ASSUME IInv, IInv', Budget, Findings, Sound, Sound', outcome \notin Errors, Lost
    PROVE  Budget' /\ Findings' /\ outcome' \notin Errors
<1>1. UNCHANGED <<call, wrong, differing, phase, todo, again, outcome>> /\ replies' \subseteq replies
  BY DEF Lost, switchVars, opVars
<1>2. faults = 0 /\ faults' = 1
  <2>1. faults \in Nat /\ faults' < 2 /\ faults' = faults + 1
    BY DEF IInv, Typed, Sound, Lost
  <2>2. QED
    BY <2>1
<1>3. ~ (call'.attempt > 1)
  BY <1>1, <1>2 DEF Budget
<1>4. Budget'
  BY <1>1, <1>2, <1>3, BudgetSpent
<1>5. wrong = {} => AllFound'
  BY <1>1 DEF AllFound
<1>6. Findings'
  BY <1>1, <1>2, <1>5, FindingsHarmed
<1>7. QED
  BY <1>1, <1>4, <1>6

\* The SET of another manager is the fault. The read-back under way finds it,
\* or had read its setting before.
LEMMA ElsewhereMends ==
    ASSUME IInv, IInv', Budget, Findings, Sound, Sound', outcome \notin Errors, Elsewhere
    PROVE  Budget' /\ Findings' /\ outcome' \notin Errors
<1>1. UNCHANGED <<requests, replies, call, differing, phase, todo, again, outcome>>
  BY DEF Elsewhere, netVars
<1>2. faults = 0 /\ faults' = 1
  <2>1. faults \in Nat /\ faults' < 2 /\ faults' = faults + 1
    BY DEF IInv, Typed, Sound, Elsewhere
  <2>2. QED
    BY <2>1
<1>3. ~ (call'.attempt > 1)
  BY <1>1, <1>2 DEF Budget
<1>4. Budget'
  BY <1>1, <1>2, <1>3, BudgetSpent
<1>5. ASSUME wrong = {}, NoneFound
      PROVE  AllFound' \/ NoneFound'
  <2>1. PICK s \in Settings : wrong' \subseteq {s}
    BY <1>5 DEF Elsewhere
  <2>2. /\ (ToldRight' <=> ToldRight) /\ (ToldWrong' <=> ToldWrong)
        /\ Setting' = Setting
    BY <1>1 DEF ToldRight, ToldWrong, Matches, Setting
  <2>3. CASE s \in todo /\ ~ (s = Setting /\ ToldRight)
    BY <1>1, <2>1, <2>2, <2>3 DEF AllFound
  <2>4. CASE s \notin todo \/ (s = Setting /\ ToldRight)
    BY <1>1, <1>5, <2>1, <2>2, <2>4 DEF NoneFound
  <2>5. QED
    BY <2>3, <2>4
<1>6. Findings'
  BY <1>1, <1>2, <1>5, FindingsHarmed
<1>7. QED
  BY <1>1, <1>4, <1>6

\* The operation under way is not concerned.
LEMMA IdleMends ==
    ASSUME Budget, Findings, outcome \notin Errors, Unlocks \/ UNCHANGED vars
    PROVE  Budget' /\ Findings' /\ outcome' \notin Errors
<1>1. UNCHANGED <<requests, replies, call, wrong, differing, phase, todo, again, outcome, faults>>
  BY DEF Unlocks, vars, switchVars, netVars, opVars
<1>2. (ToldRight' <=> ToldRight) /\ (ToldWrong' <=> ToldWrong) /\ (ToldTaken' <=> ToldTaken)
      /\ (WindowLost' <=> WindowLost)
  BY <1>1 DEF ToldRight, ToldWrong, ToldTaken, WindowLost, InFlight, Matches
<1>3. QED
  BY <1>1, <1>2, BudgetKept, FindingsKept

\* Every step leaves the operation its way out.
LEMMA StepMended ==
    ASSUME IInv, IInv', Ranged, Unlocked, Mended, [Next]_vars
    PROVE  Mended'
<1>1. SUFFICES ASSUME Sound' PROVE Budget' /\ Findings' /\ outcome' \notin Errors
  BY DEF Mended
<1>2. CASE StartOperation
  BY <1>1, <1>2, StartOperationMends
<1>3. CASE ~StartOperation
  <2>1. Sound
    <3>1. right' = right /\ tolerant' = tolerant /\ faults' \in {faults, faults + 1}
      BY <1>3 DEF Next, Client, Switch, StartCall, PhaseDone, Send, Dropped, GotCapability,
         GotNonce, GotSetting, LoggedIn, SettingTaken, Refused, Retry, NoReply, WindowOver,
         AnswerGet, TakeSet, RefuseSet, IgnoreSet, Lost, Elsewhere, Unlocks, switchVars,
         opVars, vars
    <3>2. faults \in Nat
      BY DEF IInv, Typed
    <3>3. QED
      BY <1>1, <3>1, <3>2 DEF Sound
  <2>2. Budget /\ Findings /\ outcome \notin Errors
    BY <2>1 DEF Mended
  <2>3. ~locked
    BY <2>1 DEF Unlocked, Sound
  <2>4. CASE Client
    <3>1. CASE StartCall \/ Send \/ Dropped \/ GotCapability \/ GotNonce \/ LoggedIn
      BY <2>2, <3>1, ExchangeMends
    <3>2. CASE PhaseDone
      BY <2>1, <2>2, <3>2, PhaseDoneMends
    <3>3. CASE GotSetting \/ SettingTaken
      BY <2>2, <3>3, GotSettingMends, SettingTakenMends
    <3>4. CASE Refused
      BY <2>1, <2>2, <3>4, RefusedMends
    <3>5. CASE Retry \/ NoReply
      BY <1>1, <2>1, <2>2, <3>5, RetryMends, NoReplyMends
    <3>6. QED
      BY <2>4, <3>1, <3>2, <3>3, <3>4, <3>5 DEF Client
  <2>5. CASE Switch
    BY <1>1, <2>1, <2>2, <2>3, <2>5, AnswerGetMends, TakeSetMends, RefuseSetMends
       DEF Switch, IgnoreSet
  <2>6. CASE Lost \/ Elsewhere
    BY <1>1, <2>1, <2>2, <2>6, LostMends, ElsewhereMends
  <2>7. CASE Unlocks \/ UNCHANGED vars
    BY <2>2, <2>7, IdleMends
  <2>8. QED
    BY <1>3, <2>4, <2>5, <2>6, <2>7 DEF Next
<1>4. QED
  BY <1>2, <1>3

\* With the right password the operations of the tolerant resources all succeed
\* until a second fault, for any number of settings and of attempts: the second
\* run or the corrective pass mends what one datagram lost or late, one SET
\* that does nothing or one of another manager did.
THEOREM OneFaultMended ==
    Spec => []OneFaultIsMended
<1>1. Init => Unlocked /\ Mended
  BY DEF Init, Unlocked, Mended, Sound
<1>2. IInv /\ IInv' /\ Ranged /\ Unlocked /\ Mended /\ [Next]_vars => Unlocked' /\ Mended'
  BY StepUnlocked, StepMended DEF IInv
<1>3. Mended => OneFaultIsMended
  BY DEF Mended, Sound, OneFaultIsMended
<1>4. QED
  BY <1>1, <1>2, <1>3, Inductive, RangedAlways, PTL DEF Spec
=============================================================================
