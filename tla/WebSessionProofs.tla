---------------------------- MODULE WebSessionProofs ----------------------------
(***************************************************************************)
(* Proofs about WebSession as RestoreSession runs it, for any limits, any  *)
(* plan, any number of sessions lost and of restores.                      *)
(***************************************************************************)
EXTENDS RestoreSession, TLAPS, FiniteSetTheorems, SequenceTheorems

\* Types of what the proofs speak about.
Id == Sids \cup {0}

LoginSteps == {"guard", "submit", "hash"}

Callees == {"info", "page", "query", "write", "restore", "config", "login"}

Frames == [fn : Callees, at : LoginSteps \cup {"send", "login"}, try : Int, again : BOOLEAN]

PlanForms == {"add", "set", "delete"}

Requests == {"info", "hash", "capture", "page", "query", "write", "restore", "wait", "config"}
                \cup PlanForms

Drivers == [cookie : Id, hash : Id, failures : Nat \cup {-1}, refusals : Int]

Typed ==
    /\ live \in Id /\ held \in Id /\ reading \in Id
    /\ driver \in Drivers /\ parked \in Drivers
    /\ todo \in Seq(Requests) /\ stack \in Seq(Frames)
    /\ sent \in Nat /\ faults \in Nat

\* The stack: the outermost call is what the next request asks for, only a
\* login and its page are nested in it, and only the innermost call submits.
Asked(request) ==
    IF request \in Captures THEN "info" ELSE IF request = "wait" THEN "login" ELSE request

Framed(s, asked) ==
    \A i \in 1 .. Len(s) :
        /\ s[i].at \in LoginSteps => s[i].fn = "login"
        /\ s[i].at = "submit" => i = 1
        /\ i < Len(s) => s[i].fn \in {"login", "info"}
        /\ i = Len(s) => s[i].fn = asked

Shape == stack # <<>> => todo # <<>> /\ Framed(stack, Asked(Head(todo)))

\* A login is submitted within the limit; what the counter misses was lost.
Submitting(s) == s # <<>> /\ Head(s).at = "submit"

Bounded(d) == d.failures <= AuthLimit /\ d.refusals <= d.failures + faults

Limited ==
    /\ Bounded(driver) /\ Bounded(parked)
    /\ Submitting(stack) => WithinLimit

\* What a script may hold: the forms' hash is not captured once forms are under
\* way, and a restore sends none. A read among them captures its own.
Writing == {"write"} \cup PlanForms

Script(s, n) ==
    \A i \in 1 .. Len(s) :
        /\ s[i] = "capture" =>
               \A j \in i + 1 .. Len(s) :
                   s[j] \in Writing => n = 0 /\ \A k \in 1 .. i : s[k] \notin Writing
        /\ s[i] = "restore" => \A j \in 1 .. Len(s) : s[j] \notin Writing

ReadsOnly(s) == \A i \in 1 .. Len(s) : s[i] \notin Writing

\* The hash of the session that lives came with its cookie.
Known ==
    /\ live # 0 /\ driver.hash = live => driver.cookie = live
    /\ live # 0 /\ parked.hash = live => parked.cookie = live
    /\ live # 0 /\ held = live /\ todo # <<>> => driver.cookie = live

\* The captured hash is that of no session, and never will be again.
Stale == held = live => live = 0

\* A form that is sent again has a stale hash.
Repeats(f) == f.fn = "write" /\ (f.again \/ f.at = "login")

NoRepeat(s) == \A i \in 1 .. Len(s) : ~Repeats(s[i])

\* Unless the hash is stale no form is repeated, every form that was sent has
\* taken effect, and so has one whose answer is in.
InOrder ==
    ~Stale =>
        /\ NoRepeat(stack)
        /\ todo # <<>> /\ ~ReadsOnly(todo) => 1 .. sent \subseteq effective
        /\ todo # <<>> /\ Head(todo) = "write" /\ stack = <<>> /\ result = "ok" =>
               sent + 1 \in effective

IInv == Typed /\ Shape /\ Limited /\ Script(todo, sent) /\ Known /\ InOrder /\ NoSkippedWrite
-----------------------------------------------------------------------------
(* Lemmas about the operators *)

\* One element more, one more at most in number.
LEMMA OneMore ==
    ASSUME NEW S, NEW n \in Nat, IsFiniteSet(S), Cardinality(S) <= n, NEW x
    PROVE  IsFiniteSet(S \cup {x}) /\ Cardinality(S \cup {x}) <= n + 1
<1>1. /\ IsFiniteSet(S \cup {x})
      /\ Cardinality(S \cup {x}) = IF x \in S THEN Cardinality(S) ELSE Cardinality(S) + 1
    BY FS_AddElement
<1>2. Cardinality(S) \in Nat BY FS_CardinalityType
<1> QED BY <1>1, <1>2

\* There is a name no party holds.
LEMMA FreshType ==
    FreshSid \in Sids /\ FreshSid \notin {live, held, driver.hash, parked.hash}
<1> DEFINE used1 == {live}
           used2 == used1 \cup {held}
           used3 == used2 \cup {reading}
           used4 == used3 \cup {driver.cookie}
           used5 == used4 \cup {driver.hash}
           used6 == used5 \cup {parked.cookie}
           used == used6 \cup {parked.hash}
<1>1. IsFiniteSet(used) /\ Cardinality(used) <= 7
  <2> HIDE DEF used, used2, used3, used4, used5, used6
  <2>1. IsFiniteSet(used1) /\ Cardinality(used1) <= 1
    <3>1. IsFiniteSet({live}) /\ Cardinality({live}) = 1 BY FS_Singleton
    <3> QED BY <3>1
  <2> HIDE DEF used1
  <2>2. IsFiniteSet(used2) /\ Cardinality(used2) <= 2
    BY <2>1, OneMore, 1 \in Nat, 1 + 1 = 2 DEF used2
  <2>3. IsFiniteSet(used3) /\ Cardinality(used3) <= 3
    BY <2>2, OneMore, 2 \in Nat, 2 + 1 = 3 DEF used3
  <2>4. IsFiniteSet(used4) /\ Cardinality(used4) <= 4
    BY <2>3, OneMore, 3 \in Nat, 3 + 1 = 4 DEF used4
  <2>5. IsFiniteSet(used5) /\ Cardinality(used5) <= 5
    BY <2>4, OneMore, 4 \in Nat, 4 + 1 = 5 DEF used5
  <2>6. IsFiniteSet(used6) /\ Cardinality(used6) <= 6
    BY <2>5, OneMore, 5 \in Nat, 5 + 1 = 6 DEF used6
  <2> QED BY <2>6, OneMore, 6 \in Nat, 6 + 1 = 7 DEF used
<1> HIDE DEF used
<1>2. \E s \in Sids : s \notin used
  <2> SUFFICES ASSUME Sids \subseteq used PROVE FALSE OBVIOUS
  <2>1. Cardinality(Sids) <= Cardinality(used) BY <1>1, FS_Subset
  <2> QED BY <1>1, <2>1, FS_CardinalityType, WebSessionAssumption
<1>3. used = {live, held, reading, driver.cookie, driver.hash, parked.cookie, parked.hash}
  BY DEF used
<1> QED BY <1>2, <1>3 DEF FreshSid

LEMMA CallType ==
    ASSUME NEW fn \in Callees
    PROVE  /\ Call(fn) \in Frames /\ Call(fn).fn = fn /\ ~Call(fn).again
           /\ Call(fn).at = IF fn = "login" THEN "guard" ELSE "send"
<1>1. CASE fn = "login" BY <1>1 DEF Call, Frames, LoginSteps
<1>2. CASE fn # "login" BY <1>2 DEF Call, Frames
<1> QED BY <1>1, <1>2

\* What is left of a stack when its innermost call returns.
LEMMA Popped ==
    ASSUME NEW s \in Seq(Frames), s # <<>>, NEW asked, Framed(s, asked)
    PROVE  /\ Tail(s) \in Seq(Frames) /\ Framed(Tail(s), asked)
           /\ ~Submitting(Tail(s))
           /\ NoRepeat(s) => NoRepeat(Tail(s))
           /\ Tail(s) = <<>> => Head(s).fn = asked
<1>1. /\ Tail(s) \in Seq(Frames) /\ Len(Tail(s)) = Len(s) - 1
      /\ Len(s) \in Nat \ {0} /\ Head(s) = s[1]
      /\ \A i \in 1 .. Len(s) - 1 : Tail(s)[i] = s[i + 1] /\ i + 1 \in 1 .. Len(s)
    OBVIOUS
<1>2. Framed(Tail(s), asked)
  <2> SUFFICES ASSUME NEW i \in 1 .. Len(Tail(s))
               PROVE  /\ Tail(s)[i].at \in LoginSteps => Tail(s)[i].fn = "login"
                      /\ Tail(s)[i].at = "submit" => i = 1
                      /\ i < Len(Tail(s)) => Tail(s)[i].fn \in {"login", "info"}
                      /\ i = Len(Tail(s)) => Tail(s)[i].fn = asked
      BY DEF Framed
  <2>1. i \in Nat /\ Len(s) \in Nat /\ i + 1 \in 1 .. Len(s) /\ i + 1 # 1 BY <1>1
  <2>2. /\ s[i + 1].at \in LoginSteps => s[i + 1].fn = "login"
        /\ s[i + 1].at = "submit" => i + 1 = 1
        /\ i + 1 < Len(s) => s[i + 1].fn \in {"login", "info"}
        /\ i + 1 = Len(s) => s[i + 1].fn = asked
    BY <2>1 DEF Framed
  <2>3. Tail(s)[i] = s[i + 1] /\ Len(Tail(s)) = Len(s) - 1 BY <1>1
  <2> DEFINE f == s[i + 1]
  <2>4. Tail(s)[i] = f /\ f.at # "submit" BY <2>1, <2>2, <2>3
  <2>5. i < Len(Tail(s)) <=> i + 1 < Len(s) BY <2>1, <2>3
  <2>6. i = Len(Tail(s)) <=> i + 1 = Len(s) BY <2>1, <2>3
  <2> HIDE DEF f
  <2> QED BY <2>2, <2>4, <2>5, <2>6 DEF f
<1>3. ~Submitting(Tail(s))
  <2> SUFFICES ASSUME Tail(s) # <<>> PROVE Head(Tail(s)).at # "submit"
      BY DEF Submitting
  <2>1. 1 \in 1 .. Len(Tail(s)) /\ Head(Tail(s)) = Tail(s)[1] BY <1>1
  <2>2. 2 \in 1 .. Len(s) /\ Head(Tail(s)) = s[2] BY <1>1, <2>1
  <2> QED BY <2>2 DEF Framed
<1>4. NoRepeat(s) => NoRepeat(Tail(s)) BY <1>1 DEF NoRepeat
<1>5. Tail(s) = <<>> => Head(s).fn = asked
  <2> SUFFICES ASSUME Tail(s) = <<>> PROVE Head(s).fn = asked OBVIOUS
  <2>1. Len(s) = 1 BY <1>1
  <2> QED BY <1>1, <2>1 DEF Framed
<1> QED BY <1>1, <1>2, <1>3, <1>4, <1>5

\* The innermost call moves on.
LEMMA Replaced ==
    ASSUME NEW s \in Seq(Frames), s # <<>>, NEW asked, Framed(s, asked),
           NEW f \in Frames, f.fn = Head(s).fn, f.at \in LoginSteps => f.fn = "login"
    PROVE  /\ <<f>> \o Tail(s) \in Seq(Frames) /\ Framed(<<f>> \o Tail(s), asked)
           /\ Submitting(<<f>> \o Tail(s)) => f.at = "submit"
           /\ NoRepeat(s) /\ ~Repeats(f) => NoRepeat(<<f>> \o Tail(s))
<1> DEFINE t == <<f>> \o Tail(s)
<1>1. /\ t \in Seq(Frames) /\ Len(t) = Len(s) /\ Head(s) = s[1] /\ Head(t) = f
      /\ Len(s) \in Nat \ {0} /\ t[1] = f
      /\ \A i \in 2 .. Len(s) : t[i] = s[i]
    OBVIOUS
<1> HIDE DEF t
<1>2. Framed(t, asked)
  <2> SUFFICES ASSUME NEW i \in 1 .. Len(s)
               PROVE  /\ t[i].at \in LoginSteps => t[i].fn = "login"
                      /\ t[i].at = "submit" => i = 1
                      /\ i < Len(s) => t[i].fn \in {"login", "info"}
                      /\ i = Len(s) => t[i].fn = asked
      BY <1>1 DEF Framed
  <2>1. CASE i = 1 BY <1>1, <2>1 DEF Framed
  <2>2. CASE i # 1 BY <1>1, <2>2 DEF Framed
  <2> QED BY <2>1, <2>2
<1>3. Submitting(t) => f.at = "submit" BY <1>1 DEF Submitting
<1>4. NoRepeat(s) /\ ~Repeats(f) => NoRepeat(t)
  <2> SUFFICES ASSUME NoRepeat(s), ~Repeats(f), NEW i \in 1 .. Len(s)
               PROVE  ~Repeats(t[i])
      BY <1>1 DEF NoRepeat
  <2> QED BY <1>1 DEF NoRepeat
<1> QED BY <1>1, <1>2, <1>3, <1>4 DEF t

\* A call is made from the innermost one.
LEMMA Pushed ==
    ASSUME NEW s \in Seq(Frames), s # <<>>, NEW asked, Framed(s, asked),
           NEW f \in Frames, f.fn = Head(s).fn, f.at \in LoginSteps => f.fn = "login",
           f.at # "submit",
           NEW fn \in {"login", "info"}
    PROVE  /\ <<Call(fn), f>> \o Tail(s) \in Seq(Frames)
           /\ Framed(<<Call(fn), f>> \o Tail(s), asked)
           /\ ~Submitting(<<Call(fn), f>> \o Tail(s))
           /\ NoRepeat(s) /\ ~Repeats(f) => NoRepeat(<<Call(fn), f>> \o Tail(s))
<1> DEFINE g == Call(fn)
           t == <<g, f>> \o Tail(s)
<1>1. g \in Frames /\ g.fn = fn /\ g.at \in {"guard", "send"} /\ (g.at = "guard" => fn = "login")
  <2>1. fn \in Callees BY DEF Callees
  <2>2. /\ g \in Frames /\ g.fn = fn
        /\ g.at = IF fn = "login" THEN "guard" ELSE "send"
    BY <2>1, CallType
  <2>3. CASE fn = "login" BY <2>2, <2>3
  <2>4. CASE fn = "info" BY <2>2, <2>4
  <2> QED BY <2>3, <2>4
<1> HIDE DEF g
<1>2. /\ t \in Seq(Frames) /\ Len(t) = Len(s) + 1 /\ Head(s) = s[1] /\ Head(t) = g
      /\ Len(s) \in Nat \ {0} /\ t[1] = g /\ t[2] = f
      /\ \A i \in 3 .. Len(s) + 1 : t[i] = s[i - 1]
    BY <1>1
<1> HIDE DEF t
<1>3. Framed(t, asked)
  <2> SUFFICES ASSUME NEW i \in 1 .. Len(s) + 1
               PROVE  /\ t[i].at \in LoginSteps => t[i].fn = "login"
                      /\ t[i].at = "submit" => i = 1
                      /\ i < Len(s) + 1 => t[i].fn \in {"login", "info"}
                      /\ i = Len(s) + 1 => t[i].fn = asked
      BY <1>2 DEF Framed
  <2>1. CASE i = 1 BY <1>1, <1>2, <2>1 DEF LoginSteps
  <2>2. CASE i = 2 BY <1>2, <2>2 DEF Framed
  <2>3. CASE i > 2
    <3>1. t[i] = s[i - 1] /\ i - 1 \in 2 .. Len(s) BY <1>2, <2>3
    <3> QED BY <3>1, <1>2 DEF Framed
  <2> QED BY <2>1, <2>2, <2>3
<1>4. ~Submitting(t) BY <1>1, <1>2 DEF Submitting
<1>5. NoRepeat(s) /\ ~Repeats(f) => NoRepeat(t)
  <2> SUFFICES ASSUME NoRepeat(s), ~Repeats(f), NEW i \in 1 .. Len(s) + 1
               PROVE  ~Repeats(t[i])
      BY <1>2 DEF NoRepeat
  <2>1. CASE i = 1 BY <1>1, <1>2, <2>1 DEF Repeats
  <2>2. CASE i = 2 BY <1>2, <2>2
  <2>3. CASE i > 2
    <3>1. t[i] = s[i - 1] /\ i - 1 \in 2 .. Len(s) BY <1>2, <2>3
    <3> QED BY <3>1 DEF NoRepeat
  <2> QED BY <2>1, <2>2, <2>3
<1> QED BY <1>2, <1>3, <1>4, <1>5 DEF t, g

\* A stack of one call.
LEMMA Single ==
    ASSUME NEW f \in Frames, f.at \in LoginSteps => f.fn = "login"
    PROVE  /\ <<f>> \in Seq(Frames) /\ <<f>> # <<>> /\ Framed(<<f>>, f.fn)
           /\ Submitting(<<f>>) => f.at = "submit"
           /\ ~Repeats(f) => NoRepeat(<<f>>)
BY DEF Framed, Submitting, NoRepeat

LEMMA Empty == Framed(<<>>, "x") /\ ~Submitting(<<>>) /\ NoRepeat(<<>>)
BY DEF Framed, Submitting, NoRepeat

\* A script goes on as it began.
LEMMA ScriptGoesOn ==
    ASSUME NEW s \in Seq(Requests), s # <<>>, NEW n \in Nat, Script(s, n)
    PROVE  /\ Tail(s) \in Seq(Requests) /\ ReadsOnly(s) => ReadsOnly(Tail(s))
           /\ Script(Tail(s), n)
           /\ Head(s) = "write" => Script(Tail(s), n + 1)
           /\ Head(s) = "capture" => ReadsOnly(Tail(s)) \/ n = 0
           /\ Head(s) = "restore" => ReadsOnly(s)
<1>1. /\ Tail(s) \in Seq(Requests) /\ Len(Tail(s)) = Len(s) - 1
      /\ Len(s) \in Nat \ {0} /\ Head(s) = s[1]
      /\ \A i \in 1 .. Len(s) - 1 : Tail(s)[i] = s[i + 1] /\ i + 1 \in 1 .. Len(s)
    OBVIOUS
<1>2. ReadsOnly(s) => ReadsOnly(Tail(s)) BY <1>1 DEF ReadsOnly
<1>3. Script(Tail(s), n)
  <2> SUFFICES ASSUME NEW i \in 1 .. Len(s) - 1
               PROVE  /\ Tail(s)[i] = "capture" =>
                            \A j \in i + 1 .. Len(s) - 1 : Tail(s)[j] \in Writing =>
                                n = 0 /\ \A k \in 1 .. i : Tail(s)[k] \notin Writing
                      /\ Tail(s)[i] = "restore" =>
                            \A j \in 1 .. Len(s) - 1 : Tail(s)[j] \notin Writing
      BY <1>1 DEF Script
  <2> QED BY <1>1 DEF Script
<1>4. ASSUME Head(s) = "write" PROVE Script(Tail(s), n + 1)
  <2> SUFFICES ASSUME NEW i \in 1 .. Len(s) - 1
               PROVE  /\ Tail(s)[i] = "capture" =>
                            \A j \in i + 1 .. Len(s) - 1 : Tail(s)[j] \notin Writing
                      /\ Tail(s)[i] = "restore" =>
                            \A j \in 1 .. Len(s) - 1 : Tail(s)[j] \notin Writing
      BY <1>1 DEF Script
  <2> QED BY <1>1, <1>4 DEF Script, Writing
<1>5. Head(s) = "capture" => ReadsOnly(Tail(s)) \/ n = 0
  <2> SUFFICES ASSUME s[1] = "capture", NEW i \in 1 .. Len(s) - 1, Tail(s)[i] \in Writing
               PROVE  n = 0
      BY <1>1 DEF ReadsOnly
  <2>1. i + 1 \in 1 + 1 .. Len(s) /\ s[i + 1] \in Writing BY <1>1
  <2> QED BY <1>1, <2>1 DEF Script
<1>6. Head(s) = "restore" => ReadsOnly(s) BY <1>1 DEF Script, ReadsOnly
<1> QED BY <1>1, <1>2, <1>3, <1>4, <1>5, <1>6

LEMMA AskedType ==
    ASSUME NEW r \in Requests
    PROVE  /\ r \notin PlanForms => Asked(r) \in Callees
           /\ r = "write" <=> Asked(r) = "write"
           /\ r = "restore" <=> Asked(r) = "restore"
BY DEF Asked, Requests, Callees, Captures, PlanForms

\* One script after another.
LEMMA Joined ==
    ASSUME NEW a \in Seq(Requests), NEW b \in Seq(Requests), NEW c, c = a \o b
    PROVE  /\ c \in Seq(Requests) /\ Len(c) = Len(a) + Len(b)
           /\ \A i \in 1 .. Len(a) + Len(b) : c[i] = IF i <= Len(a) THEN a[i] ELSE b[i - Len(a)]
BY ConcatProperties

\* The scripts are such scripts.
LEMMA ScriptsFit ==
    ASSUME NEW s \in {ReadScript, ApplyScript, RestoreScript}
    PROVE  s \in Seq(Requests) /\ s # <<>> /\ Head(s) # "write" /\ Script(s, 0)
<1>1. CASE s = ReadScript BY <1>1 DEF ReadScript, Script, Requests, Writing, PlanForms
<1>2. CASE s = RestoreScript BY <1>2 DEF RestoreScript, Script, Requests, Writing, PlanForms
<1>3. CASE s = ApplyScript
  <2> DEFINE before == ReadScript \o Tail(ReadScript) \o <<"capture">>
             n == Len(Plan)
  <2>1. /\ before \in Seq(Requests) /\ Len(before) = 10
        /\ \A i \in 1 .. 10 : before[i] \notin Writing \cup {"restore"}
    BY DEF ReadScript, Requests, Writing, PlanForms
  <2>2. /\ Plan \in Seq(Requests) /\ n \in Nat
        /\ \A i \in 1 .. n : Plan[i] \in Writing /\ Plan[i] \notin {"capture", "restore"}
    <3>1. Plan \in Seq(PlanForms) BY WebSessionAssumption DEF PlanForms
    <3>2. PlanForms \subseteq Requests /\ PlanForms \subseteq Writing
          /\ PlanForms \cap {"capture", "restore"} = {}
      BY DEF Requests, Writing, PlanForms
    <3> QED BY <3>1, <3>2
  <2>3. /\ ReadScript \in Seq(Requests) /\ Len(ReadScript) = 5
        /\ \A i \in 1 .. 5 : ReadScript[i] \notin Writing \cup {"capture", "restore"}
    BY DEF ReadScript, Requests, Writing, PlanForms
  <2>4. s = before \o Plan \o ReadScript BY <1>3 DEF ApplyScript
  <2> HIDE DEF before, n
  <2>5. /\ s \in Seq(Requests) /\ Len(s) = 15 + n
        /\ \A i \in 1 .. 10 : s[i] = before[i]
        /\ \A i \in 11 .. 10 + n : s[i] = Plan[i - 10]
        /\ \A i \in 11 + n .. 15 + n : s[i] = ReadScript[i - 10 - n]
    <3> DEFINE front == before \o Plan
    <3>1. /\ front \in Seq(Requests) /\ Len(front) = 10 + n
          /\ \A i \in 1 .. 10 + n : front[i] = IF i <= 10 THEN before[i] ELSE Plan[i - 10]
      <4>1. /\ front \in Seq(Requests) /\ Len(front) = Len(before) + Len(Plan)
            /\ \A i \in 1 .. Len(before) + Len(Plan) :
                  front[i] = IF i <= Len(before) THEN before[i] ELSE Plan[i - Len(before)]
        <5>1. before \in Seq(Requests) /\ Plan \in Seq(Requests)
          BY <2>1, <2>2
        <5> QED BY <5>1, Joined
      <4> QED BY <2>1, <4>1 DEF n
    <3>2. s = front \o ReadScript BY <2>4
    <3> HIDE DEF front
    <3>3. /\ s \in Seq(Requests) /\ Len(s) = 10 + n + 5
          /\ \A i \in 1 .. 10 + n + 5 :
                s[i] = IF i <= 10 + n THEN front[i] ELSE ReadScript[i - (10 + n)]
      <4>1. /\ s \in Seq(Requests) /\ Len(s) = Len(front) + Len(ReadScript)
            /\ \A i \in 1 .. Len(front) + Len(ReadScript) :
                  s[i] = IF i <= Len(front) THEN front[i] ELSE ReadScript[i - Len(front)]
        <5>1. front \in Seq(Requests) /\ ReadScript \in Seq(Requests)
          BY <2>3, <3>1
        <5> QED BY <3>2, <5>1, Joined
      <4> QED BY <2>3, <3>1, <4>1
    <3>4. \A i \in 11 + n .. 15 + n : s[i] = ReadScript[i - 10 - n]
      <4> SUFFICES ASSUME NEW i \in 11 + n .. 15 + n
                   PROVE  s[i] = ReadScript[i - 10 - n]
          OBVIOUS
      <4>1. i \in 1 .. 10 + n + 5 /\ ~(i <= 10 + n) /\ i - (10 + n) = i - 10 - n
        BY <2>2
      <4> QED BY <3>3, <4>1
    <3>5. \A i \in 1 .. 10 + n : s[i] = IF i <= 10 THEN before[i] ELSE Plan[i - 10]
      <4> SUFFICES ASSUME NEW i \in 1 .. 10 + n
                   PROVE  s[i] = IF i <= 10 THEN before[i] ELSE Plan[i - 10]
          OBVIOUS
      <4>1. i \in 1 .. 10 + n + 5 /\ i <= 10 + n BY <2>2
      <4> QED BY <3>1, <3>3, <4>1
    <3>6. \A i \in 1 .. 10 : s[i] = before[i]
      <4> SUFFICES ASSUME NEW i \in 1 .. 10 PROVE s[i] = before[i] OBVIOUS
      <4>1. i \in 1 .. 10 + n /\ i <= 10 BY <2>2
      <4> QED BY <3>5, <4>1
    <3>7. \A i \in 11 .. 10 + n : s[i] = Plan[i - 10]
      <4> SUFFICES ASSUME NEW i \in 11 .. 10 + n PROVE s[i] = Plan[i - 10] OBVIOUS
      <4>1. i \in 1 .. 10 + n /\ ~(i <= 10) BY <2>2
      <4> QED BY <3>5, <4>1
    <3>8. Len(s) = 15 + n BY <2>2, <3>3
    <3> QED BY <3>3, <3>4, <3>6, <3>7, <3>8
  <2>6. \A i \in 1 .. Len(s) : i \notin 11 .. 10 + n => s[i] \notin Writing \cup {"restore"}
    <3> SUFFICES ASSUME NEW i \in 1 .. Len(s), i \notin 11 .. 10 + n
                 PROVE  s[i] \notin Writing \cup {"restore"}
        OBVIOUS
    <3>1. CASE i <= 10
      <4>1. i \in 1 .. 10 BY <2>2, <2>5, <3>1
      <4> QED BY <2>1, <2>5, <4>1
    <3>2. CASE i > 10
      <4>1. i \in 11 + n .. 15 + n /\ i - 10 - n \in 1 .. 5
        BY <2>2, <2>5, <3>2
      <4> QED BY <2>3, <2>5, <4>1
    <3> QED BY <2>2, <2>5, <3>1, <3>2
  <2>7. \A i \in 11 .. 10 + n : s[i] \in Writing /\ s[i] \notin {"capture", "restore"}
    <3> SUFFICES ASSUME NEW i \in 11 .. 10 + n
                 PROVE  s[i] \in Writing /\ s[i] \notin {"capture", "restore"}
        OBVIOUS
    <3>1. i - 10 \in 1 .. n BY <2>2
    <3> QED BY <2>2, <2>5, <3>1
  <2>8. Script(s, 0)
    <3> SUFFICES ASSUME NEW i \in 1 .. Len(s)
                 PROVE  /\ s[i] = "capture" => \A j \in i + 1 .. Len(s) :
                                s[j] \in Writing => \A k \in 1 .. i : s[k] \notin Writing
                        /\ s[i] # "restore"
        BY DEF Script
    <3>1. s[i] # "restore" BY <2>6, <2>7
    <3>2. ASSUME s[i] = "capture", NEW j \in i + 1 .. Len(s), s[j] \in Writing, NEW k \in 1 .. i
          PROVE  s[k] \notin Writing
      <4>1. i \notin 11 .. 10 + n BY <2>7, <3>2
      <4>2. j \in 11 .. 10 + n BY <2>2, <2>5, <2>6, <3>2
      <4>3. k \in 1 .. Len(s) /\ k \notin 11 .. 10 + n
        BY <2>2, <2>5, <4>1, <4>2
      <4> QED BY <2>6, <4>3
    <3> QED BY <3>1, <3>2
  <2>9. 1 \in 1 .. Len(s) /\ 1 \in 1 .. 10 BY <2>2, <2>5
  <2>10. s # <<>> /\ Head(s) = s[1] /\ s[1] # "write" BY <2>1, <2>5, <2>9 DEF Writing
  <2> QED BY <2>5, <2>8, <2>10
<1> QED BY <1>1, <1>2, <1>3

LEMMA ApplyLength == Len(ApplyScript) = 15 + Len(Plan) /\ Len(Plan) \in Nat
<1> DEFINE before == ReadScript \o Tail(ReadScript) \o <<"capture">>
           front == before \o Plan
<1>1. before \in Seq(Requests) /\ Len(before) = 10 BY DEF ReadScript, Requests
<1>2. Plan \in Seq(Requests)
  <2>1. Plan \in Seq(PlanForms) BY WebSessionAssumption DEF PlanForms
  <2>2. PlanForms \subseteq Requests BY DEF Requests
  <2> QED BY <2>1, <2>2
<1>3. ReadScript \in Seq(Requests) /\ Len(ReadScript) = 5 BY DEF ReadScript, Requests
<1>4. ApplyScript = front \o ReadScript BY DEF ApplyScript
<1> HIDE DEF before
<1>5. front \in Seq(Requests) /\ Len(front) = Len(before) + Len(Plan) BY <1>1, <1>2, Joined
<1> HIDE DEF front
<1>6. Len(ApplyScript) = Len(front) + Len(ReadScript) BY <1>3, <1>4, <1>5, Joined
<1>7. Len(Plan) \in Nat BY <1>2
<1> DEFINE n == Len(Plan)
           k == Len(ApplyScript)
           r == Len(ReadScript)
           m == Len(front)
           l == Len(before)
<1>8. n \in Nat /\ k = m + r /\ m = l + n /\ l = 10 /\ r = 5 BY <1>1, <1>3, <1>5, <1>6, <1>7
<1> HIDE DEF n, k, r, m, l
<1>9. k = 15 + n BY <1>8
<1> QED BY <1>7, <1>9 DEF n, k

\* A form's requests fit in its place: they capture no hash for the forms.
LEMMA FormFits ==
    ASSUME NEW s \in Seq(Requests), s # <<>>, NEW n \in Nat, Script(s, n),
           Head(s) \in DOMAIN FormRequests, NEW t, t = FormRequests[Head(s)] \o Tail(s)
    PROVE  t \in Seq(Requests) /\ ~ReadsOnly(s) /\ Script(t, n)
<1> DEFINE f == FormRequests[Head(s)]
<1>1. DOMAIN FormRequests = PlanForms BY DEF FormRequests, PlanForms
<1>2. f \in Seq(Requests \ {"capture", "restore"})
  <2>1. CASE Head(s) = "add"
    <3>1. f = <<"page", "write">> BY <2>1 DEF FormRequests
    <3> HIDE DEF f
    <3> QED BY <3>1 DEF Requests
  <2>2. CASE Head(s) = "set"
    <3>1. f = <<"write">> BY <2>2 DEF FormRequests
    <3> HIDE DEF f
    <3> QED BY <3>1 DEF Requests
  <2>3. CASE Head(s) = "delete"
    <3>1. f = <<"page", "hash", "page", "query", "page", "write">>
      BY <2>3 DEF FormRequests, ReadScript
    <3> HIDE DEF f
    <3> QED BY <3>1 DEF Requests
  <2> QED BY <1>1, <2>1, <2>2, <2>3 DEF PlanForms
<1> HIDE DEF f
<1>3. /\ Tail(s) \in Seq(Requests) /\ Len(Tail(s)) = Len(s) - 1
      /\ Len(s) \in Nat \ {0} /\ Head(s) = s[1] /\ s[1] \in Writing
      /\ \A i \in 1 .. Len(s) - 1 : Tail(s)[i] = s[i + 1] /\ i + 1 \in 1 .. Len(s)
  BY <1>1 DEF Writing
<1>4. f \in Seq(Requests) /\ Len(f) \in Nat BY <1>2
<1>5. /\ t \in Seq(Requests) /\ Len(t) = Len(f) + Len(Tail(s))
      /\ \A i \in 1 .. Len(f) + Len(Tail(s)) :
            t[i] = IF i <= Len(f) THEN f[i] ELSE Tail(s)[i - Len(f)]
  <2>1. t = f \o Tail(s) BY DEF f
  <2>2. f \in Seq(Requests) /\ Tail(s) \in Seq(Requests) BY <1>3, <1>4
  <2> DEFINE r == Tail(s)
  <2>3. t = f \o r /\ f \in Seq(Requests) /\ r \in Seq(Requests) BY <2>1, <2>2
  <2> HIDE DEF r
  <2> DEFINE c == f \o r
  <2>4. f \in Seq(Requests) /\ r \in Seq(Requests) BY <2>3
  <2>5. /\ c \in Seq(Requests) /\ Len(c) = Len(f) + Len(r)
        /\ \A i \in 1 .. Len(f) + Len(r) : c[i] = IF i <= Len(f) THEN f[i] ELSE r[i - Len(f)]
    BY <2>4, Joined
  <2>6. t = c BY <2>3
  <2> HIDE DEF c
  <2> QED BY <2>5, <2>6 DEF r
<1>6. ~ReadsOnly(s) BY <1>3 DEF ReadsOnly
<1>7. \A i \in 1 .. Len(s) - 1 :
          /\ Tail(s)[i] # "restore"
          /\ Tail(s)[i] = "capture" => \A j \in i + 1 .. Len(s) - 1 : Tail(s)[j] \notin Writing
  <2> SUFFICES ASSUME NEW i \in 1 .. Len(s) - 1
               PROVE  /\ s[i + 1] # "restore"
                      /\ s[i + 1] = "capture" =>
                            \A j \in i + 1 .. Len(s) - 1 : s[j + 1] \notin Writing
      BY <1>3
  <2>1. i + 1 \in 1 .. Len(s) /\ 1 \in 1 .. i + 1 /\ 1 \in 1 .. Len(s) BY <1>3
  <2>2. s[i + 1] # "restore" BY <1>3, <2>1 DEF Script
  <2>3. ASSUME s[i + 1] = "capture", NEW j \in i + 1 .. Len(s) - 1 PROVE s[j + 1] \notin Writing
    <3>1. j + 1 \in (i + 1) + 1 .. Len(s) BY <1>3
    <3> QED BY <1>3, <2>1, <2>3, <3>1 DEF Script
  <2> QED BY <2>2, <2>3
<1>8. Script(t, n)
  <2> SUFFICES ASSUME NEW i \in 1 .. Len(t)
               PROVE  /\ t[i] # "restore"
                      /\ t[i] = "capture" => \A j \in i + 1 .. Len(t) : t[j] \notin Writing
      BY DEF Script
  <2>1. CASE i <= Len(f)
    <3>1. i \in 1 .. Len(f) /\ t[i] = f[i] BY <1>3, <1>4, <1>5, <2>1
    <3>2. f[i] \notin {"capture", "restore"} BY <1>2, <3>1
    <3> QED BY <3>1, <3>2
  <2>2. CASE i > Len(f)
    <3>1. /\ i - Len(f) \in 1 .. Len(s) - 1 /\ t[i] = Tail(s)[i - Len(f)]
          /\ \A j \in i + 1 .. Len(t) :
                /\ j - Len(f) \in i - Len(f) + 1 .. Len(s) - 1
                /\ t[j] = Tail(s)[j - Len(f)]
      BY <1>3, <1>4, <1>5, <2>2
    <3> QED BY <1>7, <3>1
  <2> QED BY <1>3, <1>4, <1>5, <2>1, <2>2
<1> QED BY <1>5, <1>6, <1>8

-----------------------------------------------------------------------------
(* The invariant *)

LEMMA Initially == Init => IInv
<1> SUFFICES ASSUME Init PROVE IInv OBVIOUS
<1>1. Typed BY DEF Init, Typed, Id, NoDriver, Drivers
<1>2. Shape /\ InOrder BY DEF Init, Shape, InOrder, NoRepeat
<1>3. Limited BY WebSessionAssumption DEF Init, Limited, Bounded, Submitting, NoDriver
<1>4. Script(todo, sent) BY DEF Init, Script
<1>5. Known /\ NoSkippedWrite BY DEF Init, Known, NoSkippedWrite
<1> QED BY <1>1, <1>2, <1>3, <1>4, <1>5 DEF IInv

\* What no step within a request changes, but for a fault it may count.
Within ==
    /\ UNCHANGED <<parked, todo, held, reading, sent>>
    /\ faults' \in {faults, faults + 1}

\* A driver left alone stays bounded: faults are never taken back.
LEMMA BoundedOn ==
    ASSUME Typed, NEW d \in Drivers, Bounded(d), faults' \in {faults, faults + 1}
    PROVE  faults' \in Nat /\ d.failures <= AuthLimit /\ d.refusals <= d.failures + faults'
<1>1. d.failures \in Int /\ d.refusals \in Int BY DEF Drivers
<1>2. faults \in Nat BY DEF Typed
<1> QED BY <1>1, <1>2 DEF Bounded

\* A step within an operation's request keeps the invariant if the stack it
\* leaves is well formed, the hash stays stale if it was, and an answer to a
\* form is one of a form that took effect.
LEMMA StepKeeps ==
    ASSUME IInv, Within,
           live' \in Id, driver' \in Drivers,
           Bounded(driver)', Known', Stale => Stale',
           effective \subseteq effective', NoSkippedWrite',
           stack' \in Seq(Frames),
           stack' # <<>> => todo # <<>> /\ Framed(stack', Asked(Head(todo))),
           Submitting(stack') => WithinLimit',
           ~Stale' => NoRepeat(stack'),
           ~Stale' /\ todo # <<>> /\ Head(todo) = "write" /\ stack' = <<>> /\ result' = "ok" =>
               sent + 1 \in effective'
    PROVE  IInv'
<1>0. /\ todo' = todo /\ held' = held /\ sent' = sent /\ parked' = parked /\ reading' = reading
      /\ faults' \in {faults, faults + 1}
    BY DEF Within
<1>1. Typed' BY <1>0 DEF IInv, Typed
<1>2. Shape' BY <1>0 DEF Shape
<1>3. Limited'
  <2>1. Submitting(stack)' <=> Submitting(stack') BY DEF Submitting
  <2>2. Bounded(parked)' BY <1>0, BoundedOn DEF IInv, Typed, Limited, Bounded
  <2> QED BY <2>1, <2>2 DEF Limited
<1>4. Script(todo, sent)' BY <1>0 DEF IInv, Script
<1>5. InOrder'
  <2> SUFFICES ASSUME ~Stale'
               PROVE  /\ NoRepeat(stack')
                      /\ todo # <<>> /\ ~ReadsOnly(todo) => 1 .. sent \subseteq effective'
                      /\ todo # <<>> /\ Head(todo) = "write" /\ stack' = <<>> /\ result' = "ok" =>
                            sent + 1 \in effective'
      BY <1>0 DEF InOrder, NoRepeat, ReadsOnly
  <2>1. todo # <<>> /\ ~ReadsOnly(todo) => 1 .. sent \subseteq effective
    BY DEF IInv, InOrder
  <2> QED BY <2>1
<1> QED BY <1>1, <1>2, <1>3, <1>4, <1>5 DEF IInv

\* What the calls of an operation leave alone when none is answered.
Quiet == Within /\ UNCHANGED <<live, driver, effective>>

LEMMA QuietKeeps ==
    ASSUME IInv, Quiet, todo # <<>>,
           stack' \in Seq(Frames), Framed(stack', Asked(Head(todo))),
           Submitting(stack') => WithinLimit,
           NoRepeat(stack) /\ ~Stale => NoRepeat(stack'),
           ~Stale /\ Head(todo) = "write" /\ stack' = <<>> /\ result' = "ok" =>
               sent + 1 \in effective
    PROVE  IInv'
<1>1. /\ todo' = todo /\ held' = held /\ sent' = sent /\ live' = live /\ driver' = driver
      /\ parked' = parked /\ effective' = effective /\ faults' \in {faults, faults + 1}
    BY DEF Quiet, Within
<1>2. live' \in Id /\ driver' \in Drivers /\ Bounded(driver)'
    BY <1>1, BoundedOn DEF IInv, Typed, Limited, Bounded
<1>3. Known' /\ NoSkippedWrite' BY <1>1 DEF IInv, Known, NoSkippedWrite
<1>4. Stale' <=> Stale BY <1>1 DEF Stale
<1>5. WithinLimit' <=> WithinLimit BY <1>1 DEF WithinLimit
<1>6. ~Stale => NoRepeat(stack) BY DEF IInv, InOrder
<1> QED BY <1>1, <1>2, <1>3, <1>4, <1>5, <1>6, StepKeeps DEF Quiet

\* What IInv says of the innermost call.
LEMMA TopType ==
    ASSUME IInv, stack # <<>>
    PROVE  /\ stack \in Seq(Frames) /\ Top \in Frames
           /\ todo \in Seq(Requests) /\ todo # <<>> /\ Head(todo) \in Requests
           /\ Framed(stack, Asked(Head(todo)))
           /\ Top.at \in LoginSteps => Top.fn = "login"
           /\ Top.fn \notin {"login", "info"} => Len(stack) = 1 /\ Top.fn = Asked(Head(todo))
<1>1. stack \in Seq(Frames) /\ todo \in Seq(Requests) BY DEF IInv, Typed
<1>2. todo # <<>> /\ Framed(stack, Asked(Head(todo))) BY DEF IInv, Shape
<1>3. Top = stack[1] /\ Len(stack) \in Nat \ {0} /\ 1 \in 1 .. Len(stack) BY <1>1 DEF Top
<1>4. Top \in Frames BY <1>1, <1>3
<1>5. Head(todo) \in Requests BY <1>1, <1>2
<1>6. Top.at \in LoginSteps => Top.fn = "login" BY <1>2, <1>3 DEF Framed
<1>7. ASSUME Top.fn \notin {"login", "info"}
      PROVE  Len(stack) = 1 /\ Top.fn = Asked(Head(todo))
  <2>1. 1 < Len(stack) => Top.fn \in {"login", "info"} BY <1>2, <1>3 DEF Framed
  <2>2. Len(stack) = 1
    <3>1. ~(1 < Len(stack)) BY <1>7, <2>1
    <3>2. Len(stack) \in Nat /\ Len(stack) # 0 BY <1>3
    <3> DEFINE n == Len(stack)
    <3>3. n \in Nat /\ n # 0 /\ ~(1 < n) BY <3>1, <3>2
    <3> HIDE DEF n
    <3>4. n = 1 BY <3>3
    <3> QED BY <3>4 DEF n
  <2> QED BY <1>2, <1>3, <2>2 DEF Framed
<1> QED BY <1>1, <1>2, <1>4, <1>5, <1>6, <1>7

LEMMA ReturnKeeps ==
    ASSUME IInv, Quiet, stack # <<>>, NEW v, Return(v),
           ~Stale /\ Top.fn = "write" => v # "ok"
    PROVE  IInv'
<1>1. stack' = Tail(stack) /\ result' = v BY DEF Return
<1>2. /\ stack' \in Seq(Frames) /\ Framed(stack', Asked(Head(todo))) /\ ~Submitting(stack')
      /\ NoRepeat(stack) => NoRepeat(stack')
      /\ stack' = <<>> => Top.fn = Asked(Head(todo))
    BY <1>1, TopType, Popped DEF Top
<1>3. Head(todo) = "write" /\ stack' = <<>> => Top.fn = "write"
    BY <1>2, TopType, AskedType
<1> QED BY <1>1, <1>2, <1>3, TopType, QuietKeeps

LEMMA MoveKeeps ==
    ASSUME IInv, Quiet, stack # <<>>,
           NEW f \in Frames, stack' = <<f>> \o Tail(stack), f.fn = Top.fn,
           f.at \in LoginSteps => f.fn = "login",
           f.at = "submit" => WithinLimit, ~Stale => ~Repeats(f)
    PROVE  IInv'
<1>1. /\ stack' \in Seq(Frames) /\ Framed(stack', Asked(Head(todo)))
      /\ Submitting(stack') => f.at = "submit"
      /\ NoRepeat(stack) /\ ~Repeats(f) => NoRepeat(stack')
    BY TopType, Replaced DEF Top
<1>2. stack' # <<>> BY TopType
<1> QED BY <1>1, <1>2, TopType, QuietKeeps

LEMMA NestKeeps ==
    ASSUME IInv, Quiet, stack # <<>>,
           NEW f \in Frames, NEW fn \in {"login", "info"},
           stack' = <<Call(fn), f>> \o Tail(stack), f.fn = Top.fn,
           f.at \in LoginSteps => f.fn = "login", f.at # "submit", ~Stale => ~Repeats(f)
    PROVE  IInv'
<1>1. /\ stack' \in Seq(Frames) /\ Framed(stack', Asked(Head(todo))) /\ ~Submitting(stack')
      /\ NoRepeat(stack) /\ ~Repeats(f) => NoRepeat(stack')
    BY TopType, Pushed DEF Top
<1>2. stack' # <<>> BY TopType
<1> QED BY <1>1, <1>2, TopType, QuietKeeps

\* The stack that a failed request leaves.
LEMMA FailLeaves ==
    ASSUME IInv, stack # <<>>, Top.at \notin LoginSteps, NEW err, Fail(err)
    PROVE  /\ stack' \in Seq(Frames) /\ Framed(stack', Asked(Head(todo)))
           /\ ~Submitting(stack')
           /\ NoRepeat(stack) => NoRepeat(stack')
           /\ result' \in {err, "none"}
<1>1. CASE Top.fn \in Pages /\ Top.try = 1
  <2> DEFINE f == [Call(Top.fn) EXCEPT !.try = 2]
  <2>1. Top.fn \in Callees /\ Top.fn # "login" BY <1>1 DEF Pages, Callees
  <2>2. /\ Call(Top.fn) \in Frames /\ Call(Top.fn).fn = Top.fn /\ Call(Top.fn).at = "send"
    BY <2>1, CallType
  <2>3. f \in Frames /\ f.fn = Top.fn /\ f.at = "send" BY <2>2 DEF Frames
  <2>4. stack' = <<f>> \o Tail(stack) /\ result' = "none" BY <1>1 DEF Fail
  <2>5. f.at \notin LoginSteps /\ f.at # "submit" BY <2>3 DEF LoginSteps
  <2>6. ~Repeats(f) BY <1>1, <2>3 DEF Repeats, Pages
  <2> HIDE DEF f
  <2> QED BY <2>3, <2>4, <2>5, <2>6, TopType, Replaced DEF Top
<1>2. CASE ~(Top.fn \in Pages /\ Top.try = 1)
  <2>1. stack' = Tail(stack) /\ result' = err BY <1>2 DEF Fail, Return
  <2> QED BY <2>1, TopType, Popped DEF Top
<1> QED BY <1>1, <1>2

LEMMA FailKeeps ==
    ASSUME IInv, Quiet, stack # <<>>, Top.at \notin LoginSteps, NEW err, err # "ok", Fail(err)
    PROVE  IInv'
BY FailLeaves, TopType, QuietKeeps

-----------------------------------------------------------------------------
(* The actions *)

LEMMA StartKeeps ==
    ASSUME IInv, NEW s \in {ReadScript, ApplyScript, RestoreScript},
           NEW d \in {driver, NewDriver}, StartWith(s, d), parked' \in {parked, driver}
    PROVE  IInv'
<1>1. /\ s \in Seq(Requests) /\ s # <<>> /\ Head(s) # "write" /\ Script(s, 0)
    BY ScriptsFit
<1>2. /\ todo' = s /\ held' = 0 /\ reading' = 0 /\ effective' = {} /\ sent' = 0
      /\ live' = live /\ stack' = stack /\ faults' = faults /\ driver' = d
    BY DEF StartWith, switchVars
<1>3. stack = <<>> BY DEF StartWith, IInv, Shape
<1>4. /\ driver' \in Drivers /\ parked' \in Drivers
      /\ Bounded(driver)' /\ Bounded(parked)'
      /\ live # 0 /\ driver'.hash = live => driver'.cookie = live
      /\ live # 0 /\ parked'.hash = live => parked'.cookie = live
  <2>1. /\ NewDriver \in Drivers /\ NewDriver.hash = 0 /\ NewDriver.failures = 0
        /\ NewDriver.refusals = 0
    BY DEF NewDriver, Drivers, Id
  <2>2. NewDriver.failures <= AuthLimit /\ NewDriver.refusals <= NewDriver.failures + faults
    BY <2>1, WebSessionAssumption DEF IInv, Typed
  <2>3. /\ driver \in Drivers /\ parked \in Drivers /\ Known
        /\ driver.failures <= AuthLimit /\ driver.refusals <= driver.failures + faults
        /\ parked.failures <= AuthLimit /\ parked.refusals <= parked.failures + faults
    BY DEF IInv, Typed, Limited, Bounded
  <2>4. driver' \in {driver, NewDriver} BY <1>2
  <2> HIDE DEF NewDriver
  <2>5. Bounded(driver)' BY <1>2, <2>2, <2>3, <2>4 DEF Bounded
  <2>6. Bounded(parked)' BY <1>2, <2>3 DEF Bounded
  <2> QED BY <2>1, <2>3, <2>4, <2>5, <2>6 DEF Known
<1>5. Typed' BY <1>1, <1>2, <1>4 DEF IInv, Typed, Id
<1>6. Shape' /\ Limited' BY <1>2, <1>3, <1>4 DEF Shape, Limited, Submitting
<1>7. Script(todo, sent)' BY <1>1, <1>2 DEF Script
<1>8. Known' BY <1>2, <1>4 DEF Known
<1>9. InOrder' BY <1>1, <1>2, <1>3 DEF InOrder, NoRepeat
<1>10. NoSkippedWrite' BY <1>2 DEF NoSkippedWrite
<1> QED BY <1>5, <1>6, <1>7, <1>8, <1>9, <1>10 DEF IInv

LEMMA ProviderStarts ==
    ASSUME IInv, NEW s \in {ReadScript, ApplyScript}, StartProvider(s)
    PROVE  IInv'
<1> DEFINE d == IF driver = NoDriver THEN NewDriver ELSE driver
<1>1. StartWith(s, d) /\ parked' = parked BY DEF StartProvider, StartOperation
<1>2. d \in {driver, NewDriver} OBVIOUS
<1> HIDE DEF d
<1> QED BY <1>1, <1>2, StartKeeps

LEMMA ToolStarts == ASSUME IInv, StartRestore PROVE IInv'
BY StartKeeps DEF StartRestore

\* An operation ends.
LEMMA EndKeeps ==
    ASSUME IInv, todo' = <<>>, stack' = <<>>,
           UNCHANGED <<held, reading, sent, effective, faults>>,
           live' \in {live, 0},
           driver' \in {driver, NoDriver, parked}, parked' \in {parked, NoDriver}
    PROVE  IInv'
<1>1. /\ driver' \in Drivers /\ parked' \in Drivers
      /\ Bounded(driver)' /\ Bounded(parked)'
      /\ live' # 0 /\ driver'.hash = live' => driver'.cookie = live'
      /\ live' # 0 /\ parked'.hash = live' => parked'.cookie = live'
  <2>1. /\ NoDriver \in Drivers /\ NoDriver.hash = 0 /\ NoDriver.failures = -1
        /\ NoDriver.refusals = -1
    BY DEF NoDriver, Drivers, Id
  <2>2. NoDriver.failures <= AuthLimit /\ NoDriver.refusals <= NoDriver.failures + faults
    BY <2>1, WebSessionAssumption DEF IInv, Typed
  <2>3. /\ driver \in Drivers /\ parked \in Drivers /\ Known
        /\ driver.failures <= AuthLimit /\ driver.refusals <= driver.failures + faults
        /\ parked.failures <= AuthLimit /\ parked.refusals <= parked.failures + faults
    BY DEF IInv, Typed, Limited, Bounded
  <2>4. faults' = faults OBVIOUS
  <2> HIDE DEF NoDriver
  <2>5. Bounded(driver)' BY <2>2, <2>3, <2>4 DEF Bounded
  <2>6. Bounded(parked)' BY <2>2, <2>3, <2>4 DEF Bounded
  <2> QED BY <2>1, <2>3, <2>5, <2>6 DEF Known
<1>2. Typed' BY <1>1 DEF IInv, Typed, Id
<1>3. Shape' /\ Limited' BY <1>1 DEF Shape, Limited, Submitting
<1>4. Script(todo, sent)' BY DEF Script
<1>5. Known' /\ InOrder' BY <1>1 DEF Known, InOrder, NoRepeat
<1>6. NoSkippedWrite' BY DEF IInv, NoSkippedWrite
<1> QED BY <1>2, <1>3, <1>4, <1>5, <1>6 DEF IInv

LEMMA FailedKeeps == ASSUME IInv, OperationFailed PROVE IInv'
<1>1. /\ todo' = <<>> /\ stack' = <<>> /\ UNCHANGED <<held, reading, sent, effective, faults>>
      /\ parked' = parked
    BY DEF OperationFailed, others
<1>2. driver' \in {driver, NoDriver} /\ live' \in {live, 0} BY DEF OperationFailed, AfterLogout
<1> QED BY <1>1, <1>2, EndKeeps

LEMMA RestoreFailedKeeps == ASSUME IInv, RestoreFailed PROVE IInv'
BY EndKeeps DEF RestoreFailed, ToolEnds, switchVars

LEMMA NextRequestKeeps == ASSUME IInv, NextRequest, ~AtWait PROVE IInv'
<1>1. todo # <<>> /\ stack = <<>> /\ result = "none" BY DEF NextRequest, AtRequest
<1>2. /\ todo \in Seq(Requests) /\ Head(todo) \in Requests \ PlanForms /\ sent \in Nat
  <2>1. DOMAIN FormRequests = PlanForms BY DEF FormRequests, PlanForms
  <2> QED BY <1>1, <2>1 DEF IInv, Typed, NextRequest
<1>3. CASE Head(todo) \in Captures /\ driver.hash # 0
  <2>1. /\ held' = IF Head(todo) = "capture" THEN driver.hash ELSE held
        /\ reading' = IF Head(todo) = "hash" THEN driver.hash ELSE reading
        /\ todo' = Tail(todo) /\ stack' = <<>> /\ result' = "none"
        /\ sent' = sent /\ effective' = effective /\ live' = live /\ driver' = driver
        /\ parked' = parked /\ faults' = faults
    BY <1>1, <1>3 DEF NextRequest, switchVars, others
  <2>2. /\ Tail(todo) \in Seq(Requests) /\ Script(Tail(todo), sent)
        /\ ReadsOnly(todo) => ReadsOnly(Tail(todo))
        /\ Head(todo) = "capture" => ReadsOnly(Tail(todo)) \/ sent = 0
    BY <1>1, <1>2, ScriptGoesOn DEF IInv
  <2>3. Typed' BY <2>1, <2>2 DEF IInv, Typed, Drivers
  <2>4. Shape' /\ Limited' BY <2>1 DEF IInv, Shape, Limited, Bounded, Submitting
  <2>5. Script(todo, sent)' BY <2>1, <2>2 DEF Script
  <2>6. Known' BY <1>1, <2>1 DEF IInv, Known
  <2>7. ~Stale' => ReadsOnly(todo)' \/ 1 .. sent' \subseteq effective'
    <3>1. CASE Head(todo) = "capture"
      BY <1>2, <2>1, <2>2, <3>1 DEF ReadsOnly
    <3>2. CASE Head(todo) # "capture"
      <4>1. held' = held /\ (Stale' <=> Stale) BY <2>1, <3>2 DEF Stale
      <4>2. ~Stale /\ ~ReadsOnly(todo) => 1 .. sent \subseteq effective
        BY <1>1 DEF IInv, InOrder
      <4> QED BY <2>1, <2>2, <4>1, <4>2 DEF ReadsOnly
    <3> QED BY <3>1, <3>2
  <2>8. InOrder'
    <3>1. NoRepeat(stack)' BY <2>1 DEF NoRepeat
    <3>2. result' # "ok" BY <2>1
    <3> QED BY <2>7, <3>1, <3>2 DEF InOrder, NoRepeat, ReadsOnly
  <2>9. NoSkippedWrite' BY <2>1 DEF IInv, NoSkippedWrite
  <2> QED BY <2>3, <2>4, <2>5, <2>6, <2>8, <2>9 DEF IInv
<1>4. CASE ~(Head(todo) \in Captures /\ driver.hash # 0)
  <2> DEFINE fn == Asked(Head(todo))
  <2>1. fn = IF Head(todo) \in Captures THEN "info" ELSE Head(todo)
    BY <1>1 DEF AtWait, Asked
  <2>2. stack' = <<Call(fn)>> /\ Quiet
    BY <1>4, <2>1 DEF NextRequest, Quiet, Within, switchVars, others
  <2>3. fn \in Callees BY <1>2, AskedType
  <2> HIDE DEF fn
  <2>4. /\ Call(fn) \in Frames /\ Call(fn).fn = fn /\ ~Call(fn).again
        /\ Call(fn).at = IF fn = "login" THEN "guard" ELSE "send"
    BY <2>3, CallType
  <2>5. /\ Call(fn).at \in LoginSteps => Call(fn).fn = "login"
        /\ Call(fn).at \notin {"submit", "login"}
    BY <2>4 DEF LoginSteps
  <2>6. /\ <<Call(fn)>> \in Seq(Frames) /\ <<Call(fn)>> # <<>>
        /\ Framed(<<Call(fn)>>, fn) /\ ~Submitting(<<Call(fn)>>)
        /\ NoRepeat(<<Call(fn)>>)
    BY <2>4, <2>5, Single DEF Repeats
  <2> QED BY <1>1, <2>2, <2>6, QuietKeeps DEF fn
<1> QED BY <1>3, <1>4

\* A form of the plan makes way for its requests.
LEMMA NextFormKeeps == ASSUME IInv, NextForm PROVE IInv'
<1>1. /\ todo # <<>> /\ stack = <<>> /\ result = "none" /\ Head(todo) \in DOMAIN FormRequests
      /\ todo' = FormRequests[Head(todo)] \o Tail(todo)
      /\ UNCHANGED <<live, driver, parked, held, reading, effective, sent, stack, result, faults>>
    BY DEF NextForm, AtRequest, switchVars, others
<1>2. todo \in Seq(Requests) /\ sent \in Nat /\ Script(todo, sent) BY DEF IInv, Typed
<1>3. todo' \in Seq(Requests) /\ ~ReadsOnly(todo) /\ Script(todo', sent)
    BY <1>1, <1>2, FormFits
<1>4. Typed' BY <1>1, <1>3 DEF IInv, Typed
<1>5. Shape' /\ Limited'
    BY <1>1 DEF IInv, Shape, Limited, Bounded, Submitting, WithinLimit
<1>6. Script(todo, sent)' BY <1>1, <1>3 DEF Script
<1>7. Known' /\ NoSkippedWrite' BY <1>1 DEF IInv, Known, NoSkippedWrite
<1>8. InOrder'
  <2>1. (Stale' <=> Stale) /\ NoRepeat(stack)' /\ result' # "ok" BY <1>1 DEF Stale, NoRepeat
  <2>2. ~Stale => 1 .. sent \subseteq effective BY <1>1, <1>3 DEF IInv, InOrder
  <2> QED BY <1>1, <2>1, <2>2 DEF InOrder, NoRepeat
<1> QED BY <1>4, <1>5, <1>6, <1>7, <1>8 DEF IInv

LEMMA RequestDoneKeeps == ASSUME IInv, RequestDone PROVE IInv'
<1>1. /\ todo # <<>> /\ stack = <<>> /\ stack' = <<>> /\ result = "ok" /\ result' = "none"
      /\ held' = held /\ effective' = effective /\ live' = live /\ driver' = driver
      /\ parked' = parked /\ reading' = reading /\ faults' = faults
      /\ todo' = IF Head(todo) \in Captures THEN todo ELSE Tail(todo)
      /\ sent' = IF Head(todo) = "write" THEN sent + 1 ELSE sent
    BY DEF RequestDone, switchVars, others
<1>2. todo \in Seq(Requests) /\ sent \in Nat /\ Script(todo, sent) BY DEF IInv, Typed
<1>3. /\ Tail(todo) \in Seq(Requests) /\ ReadsOnly(todo) => ReadsOnly(Tail(todo))
      /\ Script(Tail(todo), sent)
      /\ Head(todo) = "write" => Script(Tail(todo), sent + 1)
    BY <1>1, <1>2, ScriptGoesOn
<1>4. /\ todo' \in Seq(Requests) /\ sent' \in Nat /\ Script(todo', sent')
      /\ ReadsOnly(todo) => ReadsOnly(todo')
  <2>1. CASE Head(todo) \in Captures BY <1>1, <1>2, <2>1 DEF Captures
  <2>2. CASE Head(todo) = "write" BY <1>1, <1>2, <1>3, <2>2 DEF Captures
  <2>3. CASE Head(todo) \notin Captures \cup {"write"} BY <1>1, <1>2, <1>3, <2>3
  <2> QED BY <2>1, <2>2, <2>3
<1>5. Typed' BY <1>1, <1>4 DEF IInv, Typed
<1>6. Shape' /\ Limited' BY <1>1 DEF IInv, Shape, Limited, Bounded, Submitting
<1>7. Script(todo, sent)' BY <1>4 DEF Script
<1>8. Known' BY <1>1 DEF IInv, Known
<1>9. InOrder'
  <2>1. (Stale' <=> Stale) /\ NoRepeat(stack)' /\ result' # "ok"
    BY <1>1 DEF Stale, NoRepeat
  <2>2. ASSUME ~Stale, ~ReadsOnly(todo') PROVE 1 .. sent' \subseteq effective'
    <3>1. 1 .. sent \subseteq effective BY <1>1, <1>4, <2>2 DEF IInv, InOrder
    <3>2. Head(todo) = "write" => sent + 1 \in effective BY <1>1, <2>2 DEF IInv, InOrder
    <3> QED BY <1>1, <1>2, <3>1, <3>2
  <2> QED BY <2>1, <2>2 DEF InOrder, NoRepeat, ReadsOnly
<1>10. NoSkippedWrite' BY <1>1 DEF IInv, NoSkippedWrite
<1> QED BY <1>5, <1>6, <1>7, <1>8, <1>9, <1>10 DEF IInv

\* Unless the hash is stale, the innermost call is no repeated form, and a
\* form in a session goes in its turn.
LEMMA TopInOrder ==
    ASSUME IInv, stack # <<>>, ~Stale
    PROVE  /\ ~Repeats(Top)
           /\ Top.fn = "write" => 1 .. sent \subseteq effective
<1>1. NoRepeat(stack) BY DEF IInv, InOrder
<1>2. Top = stack[1] /\ 1 \in 1 .. Len(stack) BY TopType DEF Top
<1>3. ~Repeats(Top) BY <1>1, <1>2 DEF NoRepeat
<1>4. ASSUME Top.fn = "write" PROVE 1 .. sent \subseteq effective
  <2>1. Head(todo) = "write" /\ todo # <<>> BY <1>4, TopType, AskedType
  <2>2. ~ReadsOnly(todo)
    <3>1. Head(todo) = todo[1] /\ 1 \in 1 .. Len(todo) BY TopType
    <3> QED BY <2>1, <3>1 DEF ReadsOnly, Writing
  <2> QED BY <2>1, <2>2 DEF IInv, InOrder
<1> QED BY <1>3, <1>4

\* Out of session, or with another session's hash in a form, no order is broken.
LEMMA OutOfSession == ASSUME IInv, todo # <<>>, ~InSession PROVE Stale
BY DEF IInv, Known, InSession, Stale

LEMMA EffectKeeps ==
    ASSUME IInv, stack # <<>>, InSession, held = live
    PROVE  /\ effective \subseteq Effect
           /\ \A i \in Effect : 1 .. i \subseteq Effect
           /\ Top.fn = "write" => sent + 1 \in Effect
<1>1. ~Stale BY DEF InSession, Stale
<1>2. sent \in Nat /\ NoSkippedWrite BY DEF IInv, Typed
<1>3. CASE Top.fn = "write"
  <2>1. Effect = effective \cup {sent + 1} BY <1>3 DEF Effect
  <2>2. 1 .. sent \subseteq effective BY <1>1, <1>3, TopInOrder
  <2>3. 1 .. sent + 1 \subseteq Effect BY <1>2, <2>1, <2>2
  <2>4. \A i \in effective : 1 .. i \subseteq Effect BY <1>2, <2>1 DEF NoSkippedWrite
  <2> QED BY <2>1, <2>3, <2>4
<1>4. CASE Top.fn # "write" BY <1>2, <1>4 DEF Effect, NoSkippedWrite
<1> QED BY <1>3, <1>4

LEMMA AnsweredKeeps == ASSUME IInv, Answered PROVE IInv'
<1>1. stack # <<>> /\ InSession BY DEF Answered, Calling
<1>2. CASE Top.fn \in Forms /\ HashSent # live
  <2>1. Return("rejected") /\ Quiet BY <1>2 DEF Answered, Quiet, Within, switchVars, others
  <2> QED BY <1>1, <2>1, ReturnKeeps
<1>3. CASE ~(Top.fn \in Forms /\ HashSent # live)
  <2>1. /\ Return("ok") /\ effective' = Effect /\ Within /\ live' = live /\ held' = held
        /\ driver' = IF Top.fn = "info" THEN [driver EXCEPT !.hash = live] ELSE driver
    BY <1>3 DEF Answered, Within, switchVars, others
  <2>2. stack' = Tail(stack) /\ result' = "ok" BY <2>1 DEF Return
  <2>3. driver' \in Drivers /\ Bounded(driver)' /\ Known'
    <3>1. driver \in Drivers /\ Known /\ live \in Id /\ parked' = parked /\ todo' = todo
      BY <2>1 DEF IInv, Typed, Within
    <3>2. CASE Top.fn = "info"
      <4> DEFINE h == live
      <4>1. driver' = [driver EXCEPT !.hash = h] /\ h \in Id BY <2>1, <3>1, <3>2
      <4> HIDE DEF h
      <4>2. /\ driver' \in Drivers /\ driver'.hash = h /\ driver'.cookie = driver.cookie
            /\ driver'.failures = driver.failures /\ driver'.refusals = driver.refusals
        BY <3>1, <4>1 DEF Drivers
      <4>3. Known' BY <1>1, <2>1, <3>1, <4>2 DEF Known, InSession, h
      <4> QED BY <2>1, <3>1, <4>2, <4>3, BoundedOn DEF IInv, Limited, Bounded, Within
    <3>3. CASE Top.fn # "info"
      BY <2>1, <3>1, <3>3, BoundedOn DEF IInv, Limited, Known, Bounded, Within
    <3> QED BY <3>2, <3>3
  <2>4. /\ effective \subseteq effective' /\ NoSkippedWrite'
        /\ Top.fn = "write" => sent + 1 \in effective'
    <3>1. CASE Top.fn = "write"
      <4>1. held = live BY <1>3, <3>1 DEF Forms, HashSent
      <4> QED BY <1>1, <2>1, <4>1, EffectKeeps DEF NoSkippedWrite
    <3>2. CASE Top.fn # "write"
      BY <2>1, <3>2 DEF Effect, IInv, NoSkippedWrite
    <3> QED BY <3>1, <3>2
  <2>5. /\ stack' \in Seq(Frames) /\ Framed(stack', Asked(Head(todo))) /\ ~Submitting(stack')
        /\ NoRepeat(stack) => NoRepeat(stack')
        /\ stack' = <<>> => Top.fn = Asked(Head(todo))
    BY <1>1, <2>2, TopType, Popped DEF Top
  <2>6. Head(todo) = "write" /\ stack' = <<>> => Top.fn = "write"
    BY <1>1, <2>5, TopType, AskedType
  <2>7. /\ live' \in Id /\ (Stale <=> Stale') /\ todo # <<>>
        /\ ~Stale => NoRepeat(stack)
    BY <1>1, <2>1, TopType DEF IInv, Typed, Stale, InOrder
  <2> QED BY <2>1, <2>3, <2>4, <2>5, <2>6, <2>7, StepKeeps
<1> QED BY <1>2, <1>3

\* A frame with another step.
LEMMA At ==
    ASSUME IInv, stack # <<>>, NEW step \in LoginSteps \cup {"send", "login"}
    PROVE  /\ [Top EXCEPT !.at = step] \in Frames
           /\ [Top EXCEPT !.at = step].at = step
           /\ [Top EXCEPT !.at = step].fn = Top.fn
           /\ [Top EXCEPT !.at = step, !.again = TRUE] \in Frames
           /\ [Top EXCEPT !.at = step, !.again = TRUE].at = step
           /\ [Top EXCEPT !.at = step, !.again = TRUE].fn = Top.fn
<1>1. Top \in Frames BY TopType
<1> QED BY <1>1 DEF Frames

\* The answer is a redirect, and the driver logs in.
LEMMA LoginNests ==
    ASSUME IInv, stack # <<>>, ~InSession, Quiet,
           stack' = <<Call("login"), [Top EXCEPT !.at = "login"]>> \o Tail(stack)
    PROVE  IInv'
<1> DEFINE f == [Top EXCEPT !.at = "login"]
<1>1. f \in Frames /\ f.at = "login" /\ f.fn = Top.fn BY At
<1>2. f.at \notin LoginSteps /\ f.at # "submit" BY <1>1 DEF LoginSteps
<1>3. Stale BY TopType, OutOfSession
<1> HIDE DEF f
<1>4. stack' = <<Call("login"), f>> \o Tail(stack) BY DEF f
<1> QED BY <1>1, <1>2, <1>3, <1>4, NestKeeps

LEMMA RedirectedKeeps == ASSUME IInv, Redirected PROVE IInv'
BY LoginNests DEF Redirected, Calling, Quiet, Within, switchVars, others, opVars

LEMMA RedirectedAgainKeeps == ASSUME IInv, RedirectedAgain PROVE IInv'
<1>1. stack # <<>> /\ ~InSession /\ Quiet
    BY DEF RedirectedAgain, Calling, Quiet, Within, switchVars, others, opVars
<1>2. Stale BY <1>1, TopType, OutOfSession
<1>3. Return(IF Top.fn = "write" THEN "ok" ELSE "parse") BY DEF RedirectedAgain
<1> QED BY <1>1, <1>2, <1>3, ReturnKeeps

LEMMA LostKeeps == ASSUME IInv, Lost PROVE IInv'
<1>1. /\ stack # <<>> /\ Top.at = "send" /\ Fail("net") /\ Top.at \notin LoginSteps
      /\ Within /\ todo' = todo /\ held' = held /\ live' = live /\ driver' = driver
      /\ parked' = parked /\ faults' = faults + 1
    BY DEF Lost, Calling, Within, switchVars, others, LoginSteps
<1>2. effective' = effective \/ (InSession /\ held = live /\ effective' = Effect)
    BY DEF Lost
<1>3. effective \subseteq effective' /\ NoSkippedWrite'
  <2>1. CASE effective' = effective BY <2>1 DEF IInv, NoSkippedWrite
  <2>2. CASE InSession /\ held = live /\ effective' = Effect
    BY <1>1, <2>2, EffectKeeps DEF NoSkippedWrite
  <2> QED BY <1>2, <2>1, <2>2
<1>4. /\ stack' \in Seq(Frames) /\ Framed(stack', Asked(Head(todo))) /\ ~Submitting(stack')
      /\ NoRepeat(stack) => NoRepeat(stack')
      /\ result' \in {"net", "none"}
    BY <1>1, FailLeaves
<1>5. /\ live' \in Id /\ (Stale <=> Stale') /\ todo # <<>> /\ Known'
      /\ ~Stale => NoRepeat(stack)
      /\ driver' \in Drivers /\ Bounded(driver)'
    BY <1>1, TopType, BoundedOn DEF IInv, Typed, Stale, InOrder, Known, Limited, Bounded
<1> QED BY <1>1, <1>3, <1>4, <1>5, StepKeeps

LEMMA AfterLoginKeeps == ASSUME IInv, AfterLogin PROVE IInv'
<1>1. /\ stack # <<>> /\ Top.at = "login" /\ Quiet /\ Top.at \notin LoginSteps
    BY DEF AfterLogin, Quiet, Within, switchVars, others, opVars, LoginSteps
<1>2. CASE result = "ok"
  <2> DEFINE f == [Top EXCEPT !.at = "send", !.again = TRUE]
  <2>1. f \in Frames /\ f.at = "send" /\ f.fn = Top.fn BY <1>1, At
  <2>2. f.at \notin LoginSteps /\ f.at # "submit" BY <2>1 DEF LoginSteps
  <2>3. ~Stale => ~Repeats(f)
    <3> HIDE DEF f
    <3>1. ~Stale => Top.fn # "write" BY <1>1, TopInOrder DEF Repeats
    <3> QED BY <2>1, <3>1 DEF Repeats
  <2>4. stack' = <<f>> \o Tail(stack) BY <1>2 DEF AfterLogin
  <2> HIDE DEF f
  <2> QED BY <1>1, <2>1, <2>2, <2>3, <2>4, MoveKeeps
<1>3. CASE result # "ok"
  <2>1. Fail(result) BY <1>3 DEF AfterLogin
  <2> QED BY <1>1, <1>3, <2>1, FailKeeps
<1> QED BY <1>2, <1>3

LEMMA GuardKeeps == ASSUME IInv, Guard PROVE IInv'
<1>1. stack # <<>> /\ Top.fn = "login" /\ Quiet
    BY DEF Guard, Calling, Quiet, Within, switchVars, others, opVars
<1>2. CASE WithinLimit
  <2> DEFINE f == [Top EXCEPT !.at = "submit"]
  <2>1. f \in Frames /\ f.at = "submit" /\ f.fn = "login" BY <1>1, At DEF LoginSteps
  <2>2. stack' = <<f>> \o Tail(stack) BY <1>2 DEF Guard
  <2> HIDE DEF f
  <2>3. ~Repeats(f) BY <2>1 DEF Repeats
  <2> QED BY <1>1, <1>2, <2>1, <2>2, <2>3, MoveKeeps
<1>3. CASE ~WithinLimit
  <2>1. Return("limit") BY <1>3 DEF Guard
  <2> QED BY <1>1, <2>1, ReturnKeeps
<1> QED BY <1>2, <1>3

LEMMA HashReadKeeps == ASSUME IInv, HashRead PROVE IInv'
<1>1. stack # <<>> /\ Top.at \in LoginSteps /\ Return(result) /\ Quiet
    BY DEF HashRead, Quiet, Within, switchVars, others, opVars, LoginSteps
<1>2. Top.fn # "write" BY <1>1, TopType
<1> QED BY <1>1, <1>2, ReturnKeeps

\* What becomes of the switch's session when it judges a password.
LEMMA Judged ==
    ASSUME IInv, Judge, held' = held
    PROVE  /\ live' \in Id /\ live' \in {live, FreshSid}
           /\ Stale => Stale' /\ (live' # live => Stale')
           /\ right /\ ~locked => live' = FreshSid
<1>1. live' \in {live, FreshSid} /\ (right /\ ~locked => live' = FreshSid) BY DEF Judge
<1>2. live \in Id /\ FreshSid \in Id /\ FreshSid # held /\ FreshSid # live
    BY FreshType DEF IInv, Typed, Id
<1>3. live' = FreshSid => Stale' BY <1>2 DEF Stale
<1>4. live' = live => (Stale => Stale') BY DEF Stale
<1> QED BY <1>1, <1>2, <1>3, <1>4

LEMMA AcceptedKeeps == ASSUME IInv, Accepted PROVE IInv'
<1>1. /\ stack # <<>> /\ Top.fn = "login" /\ Judge /\ right /\ ~locked
      /\ driver' = [driver EXCEPT !.cookie = live', !.failures = 0, !.refusals = 0]
      /\ Within /\ held' = held /\ effective' = effective /\ parked' = parked
      /\ todo' = todo /\ faults' = faults
    BY DEF Accepted, Calling, Within, opVars, others
<1>2. live' = FreshSid /\ live' \in Id BY <1>1, Judged
<1>3. FreshSid # held /\ FreshSid # driver.hash /\ FreshSid # parked.hash BY FreshType
<1>4. driver \in Drivers /\ faults \in Nat BY DEF IInv, Typed
<1>5. /\ driver' \in Drivers /\ driver'.failures = 0 /\ driver'.refusals = 0
      /\ driver'.hash = driver.hash /\ driver'.cookie = live'
  <2> DEFINE c == live'
  <2>1. driver' = [driver EXCEPT !.cookie = c, !.failures = 0, !.refusals = 0] /\ c \in Id
    BY <1>1, <1>2
  <2> HIDE DEF c
  <2>2. /\ driver = [cookie |-> driver.cookie, hash |-> driver.hash,
                     failures |-> driver.failures, refusals |-> driver.refusals]
        /\ driver.hash \in Id
    BY <1>4 DEF Drivers
  <2>3. driver' = [cookie |-> c, hash |-> driver.hash, failures |-> 0, refusals |-> 0]
    BY <2>1, <2>2
  <2>4. /\ driver'.failures = 0 /\ driver'.refusals = 0
        /\ driver'.hash = driver.hash /\ driver'.cookie = c
    BY <2>3
  <2>5. driver' \in Drivers BY <2>1, <2>2, <2>3 DEF Drivers
  <2> QED BY <2>4, <2>5 DEF c
<1>6. Bounded(driver)' BY <1>1, <1>4, <1>5, WebSessionAssumption DEF Bounded
<1>7. Known' /\ Stale' BY <1>1, <1>2, <1>3, <1>5 DEF Known, Stale
<1>8. NoSkippedWrite' BY <1>1 DEF IInv, NoSkippedWrite
<1>9. /\ stack' \in Seq(Frames) /\ Framed(stack', Asked(Head(todo))) /\ ~Submitting(stack')
      /\ stack' # <<>>
  <2> DEFINE f == [Top EXCEPT !.at = "hash"]
  <2>1. f \in Frames /\ f.at = "hash" /\ f.fn = Top.fn BY <1>1, At DEF LoginSteps
  <2>2. stack' = <<Call("info"), f>> \o Tail(stack) BY DEF Accepted
  <2> HIDE DEF f
  <2>3. f.at # "submit" /\ f.fn = "login" BY <1>1, <2>1
  <2>4. stack' # <<>> BY <1>1, <2>2, TopType
  <2> QED BY <1>1, <2>1, <2>2, <2>3, <2>4, TopType, Pushed DEF Top
<1>10. todo # <<>> BY <1>1, TopType
<1> QED BY <1>1, <1>2, <1>5, <1>6, <1>7, <1>8, <1>9, <1>10, StepKeeps

\* A login that did not get through, whatever the switch made of it.
LEMMA LoginReturnKeeps ==
    ASSUME IInv, stack # <<>>, Top.fn = "login", NEW v, Return(v), v # "ok",
           Within, effective' = effective,
           live' \in Id, Stale => Stale', live' \in {live, FreshSid},
           driver' \in Drivers, Bounded(driver)',
           driver'.hash = driver.hash, driver'.cookie = driver.cookie
    PROVE  IInv'
<1>1. held' = held /\ todo' = todo /\ parked' = parked BY DEF Within
<1>2. Known' BY <1>1, FreshType DEF IInv, Known
<1>3. NoSkippedWrite' BY DEF IInv, NoSkippedWrite
<1>4. stack' = Tail(stack) /\ result' = v BY DEF Return
<1>5. /\ stack' \in Seq(Frames) /\ Framed(stack', Asked(Head(todo))) /\ ~Submitting(stack')
      /\ NoRepeat(stack) => NoRepeat(stack')
    BY <1>4, TopType, Popped DEF Top
<1>6. ~Stale' => NoRepeat(stack) BY DEF IInv, InOrder
<1>7. todo # <<>> BY TopType
<1> QED BY <1>2, <1>3, <1>4, <1>5, <1>6, <1>7, StepKeeps

LEMMA RefusedKeeps == ASSUME IInv, Refused PROVE IInv'
<1>1. /\ stack # <<>> /\ Top.fn = "login" /\ Top.at = "submit" /\ Judge
      /\ driver' = [driver EXCEPT !.failures = @ + 1, !.refusals = @ + 1]
      /\ Return(IF locked' THEN "locked" ELSE "auth")
      /\ Within /\ held' = held /\ effective' = effective /\ faults' = faults
    BY DEF Refused, Calling, Within, opVars, others
<1>2. driver \in Drivers /\ faults \in Nat /\ Bounded(driver) BY DEF IInv, Typed, Limited
<1>3. /\ driver' \in Drivers
      /\ driver'.hash = driver.hash /\ driver'.cookie = driver.cookie
      /\ driver'.failures = driver.failures + 1 /\ driver'.refusals = driver.refusals + 1
      /\ driver.failures \in Int /\ driver.refusals \in Int
  <2> DEFINE n == driver.failures + 1
             r == driver.refusals + 1
  <2>1. driver.failures \in Nat \cup {-1} /\ driver.refusals \in Int BY <1>2 DEF Drivers
  <2>2. /\ driver' = [driver EXCEPT !.failures = n, !.refusals = r]
        /\ n \in Nat \cup {-1} /\ r \in Int
    BY <1>1, <2>1
  <2> HIDE DEF n, r
  <2>3. driver' \in Drivers /\ driver'.hash = driver.hash /\ driver'.cookie = driver.cookie
        /\ driver'.failures = n /\ driver'.refusals = r
    BY <1>2, <2>2 DEF Drivers
  <2> QED BY <2>1, <2>3 DEF n, r
<1>4. Bounded(driver)'
  <2>1. driver.failures < AuthLimit BY <1>1 DEF IInv, Limited, Submitting, WithinLimit, Top
  <2> QED BY <1>1, <1>2, <1>3, <2>1, WebSessionAssumption DEF Bounded
<1>5. live' \in Id /\ (Stale => Stale') /\ live' \in {live, FreshSid} BY <1>1, Judged
<1>6. (IF locked' THEN "locked" ELSE "auth") # "ok" OBVIOUS
<1> QED BY <1>1, <1>3, <1>4, <1>5, <1>6, LoginReturnKeeps

\* A login whose answer is lost may be one more that is refused: the fault pays
\* for it.
LEMMA LoginLostKeeps == ASSUME IInv, LoginLost PROVE IInv'
<1>1. /\ stack # <<>> /\ Top.fn = "login" /\ Return("net")
      /\ Within /\ held' = held /\ effective' = effective /\ faults' = faults + 1
    BY DEF LoginLost, Calling, Within, opVars, others
<1>2. driver \in Drivers /\ faults \in Nat /\ Bounded(driver) BY DEF IInv, Typed, Limited
<1>3. /\ driver.failures \in Int /\ driver.failures >= -1 /\ driver.refusals \in Int
    BY <1>2 DEF Drivers
<1>4. /\ driver' \in Drivers /\ Bounded(driver)'
      /\ driver'.hash = driver.hash /\ driver'.cookie = driver.cookie
  <2>1. CASE driver' = driver
    BY <1>1, <1>2, <2>1, BoundedOn DEF IInv, Bounded
  <2>2. CASE driver' = [driver EXCEPT !.refusals = IF right /\ ~locked THEN 0 ELSE @ + 1]
    <3> DEFINE r == IF right /\ ~locked THEN 0 ELSE driver.refusals + 1
    <3>1. r \in Int BY <1>3
    <3>2. r = 0 \/ r = driver.refusals + 1 OBVIOUS
    <3>4. driver' = [driver EXCEPT !.refusals = r] BY <2>2, Zenon
    <3> HIDE DEF r
    <3>3. /\ driver' \in Drivers /\ driver'.failures = driver.failures /\ driver'.refusals = r
          /\ driver'.hash = driver.hash /\ driver'.cookie = driver.cookie
      BY <1>2, <3>1, <3>4 DEF Drivers
    <3>5. driver.failures <= AuthLimit /\ driver.refusals <= driver.failures + faults
      BY <1>2 DEF Bounded
    <3>6. CASE r = driver.refusals + 1
      <4>1. driver'.refusals = driver.refusals + 1 BY <3>3, <3>6
      <4>2. Bounded(driver)' BY <1>1, <1>2, <1>3, <3>3, <3>5, <4>1 DEF Bounded
      <4> QED BY <3>3, <4>2
    <3>7. CASE r = 0
      <4>1. driver'.refusals = 0 BY <3>3, <3>7
      <4>2. Bounded(driver)' BY <1>1, <1>2, <1>3, <3>3, <3>5, <4>1 DEF Bounded
      <4> QED BY <3>3, <4>2
    <3> QED BY <3>2, <3>6, <3>7
  <2> QED BY <2>1, <2>2 DEF LoginLost
<1>5. live' \in Id /\ (Stale => Stale') /\ live' \in {live, FreshSid}
  <2>1. CASE Judge BY <1>1, <2>1, Judged
  <2>2. CASE UNCHANGED switchVars BY <1>1, <2>2 DEF IInv, Typed, Stale, switchVars
  <2> QED BY <2>1, <2>2 DEF LoginLost
<1> QED BY <1>1, <1>4, <1>5, LoginReturnKeeps

\* The session ends, at any moment.
LEMMA SessionGoneKeeps ==
    ASSUME IInv, live' = 0, UNCHANGED <<driver, parked, opVars, stack, result>>,
           faults' \in {faults, faults + 1}
    PROVE  IInv'
<1>1. /\ driver' = driver /\ parked' = parked /\ todo' = todo /\ held' = held
      /\ reading' = reading /\ sent' = sent
      /\ effective' = effective /\ stack' = stack /\ result' = result
    BY DEF opVars
<1>2. Typed' BY <1>1 DEF IInv, Typed, Id
<1>3. Shape' /\ Script(todo, sent)' /\ NoSkippedWrite'
    BY <1>1 DEF IInv, Shape, Script, NoSkippedWrite
<1>4. Limited'
  <2>1. Bounded(driver)' /\ Bounded(parked)'
    BY <1>1, BoundedOn DEF IInv, Typed, Limited, Bounded
  <2> QED BY <1>1, <2>1 DEF IInv, Limited, Submitting, WithinLimit
<1>5. Known' /\ InOrder' BY DEF Known, InOrder, Stale
<1> QED BY <1>2, <1>3, <1>4, <1>5 DEF IInv

\* What the invariant does not speak of may change.
LEMMA UnseenKeeps ==
    ASSUME IInv, UNCHANGED <<live, driver, parked, todo, held, reading, effective, sent, faults,
                             stack, result>>
    PROVE  IInv'
BY DEF IInv, Typed, Shape, Limited, Bounded, Submitting, WithinLimit, Script, Known, Stale,
       InOrder, NoRepeat, ReadsOnly, NoSkippedWrite

-----------------------------------------------------------------------------
(* The actions of a restore *)

LEMMA UploadAnsweredKeeps == ASSUME IInv, UploadAnswered \/ UploadLost PROVE IInv'
<1>1. stack # <<>> /\ Top.fn = "restore" /\ Quiet
    BY DEF UploadAnswered, UploadLost, Uploading, Calling, Quiet, Within, switchVars, others, opVars
<1>2. CASE UploadAnswered
  <2>1. Return("ok") BY <1>2 DEF UploadAnswered
  <2> QED BY <1>1, <2>1, ReturnKeeps
<1>3. CASE UploadLost
  <2>1. Return("net") BY <1>3 DEF UploadLost
  <2> QED BY <1>1, <2>1, ReturnKeeps
<1> QED BY <1>2, <1>3

\* The two redirects of a restore, of its upload and of its verification.
LEMMA RestoreRedirectedKeeps ==
    ASSUME IInv, UploadRedirected \/ ConfigRedirected
    PROVE  IInv'
<1>1. /\ stack # <<>> /\ Top.fn \in {"restore", "config"} /\ ~InSession /\ Quiet
    BY DEF UploadRedirected, ConfigRedirected, Uploading, Calling, Quiet, Within, switchVars, others,
           opVars
<1>2. \/ Return("ok") \/ Return("parse")
      \/ stack' = <<Call("login"), [Top EXCEPT !.at = "login"]>> \o Tail(stack)
    BY DEF UploadRedirected, ConfigRedirected
<1>3. CASE Return("ok") BY <1>1, <1>3, ReturnKeeps
<1>4. CASE Return("parse") BY <1>1, <1>4, ReturnKeeps
<1>5. CASE stack' = <<Call("login"), [Top EXCEPT !.at = "login"]>> \o Tail(stack)
  BY <1>1, <1>5, LoginNests
<1> QED BY <1>2, <1>3, <1>4, <1>5

\* The upload that is built again takes another hash; a restore sends no form
\* that could go out of order for it.
LEMMA UploadAgainKeeps == ASSUME IInv, UploadAgain PROVE IInv'
<1>1. /\ stack # <<>> /\ Top.fn = "restore" /\ Top.at = "login"
      /\ todo' = todo /\ sent' = sent /\ effective' = effective /\ live' = live /\ driver' = driver
      /\ parked' = parked /\ reading' = reading /\ faults' = faults
    BY DEF UploadAgain, switchVars, others
<1>2. /\ todo # <<>> /\ todo \in Seq(Requests) /\ Head(todo) = "restore"
      /\ Asked(Head(todo)) = "restore"
    BY <1>1, TopType, AskedType
<1>3. CASE result = "ok"
  <2> DEFINE f == [Top EXCEPT !.at = "send", !.again = TRUE]
  <2>1. f \in Frames /\ f.at = "send" /\ f.fn = "restore" BY <1>1, At
  <2>2. f.at \notin LoginSteps /\ f.at # "submit" /\ ~Repeats(f)
    BY <2>1 DEF LoginSteps, Repeats
  <2>3. stack' = <<f>> /\ held' = driver.hash BY <1>3 DEF UploadAgain
  <2> HIDE DEF f
  <2>4. /\ stack' \in Seq(Frames) /\ stack' # <<>> /\ Framed(stack', "restore")
        /\ ~Submitting(stack') /\ NoRepeat(stack')
    BY <2>1, <2>2, <2>3, Single
  <2>5. ReadsOnly(todo) BY <1>2, ScriptGoesOn DEF IInv, Typed
  <2>6. Typed' BY <1>1, <2>3, <2>4 DEF IInv, Typed, Drivers
  <2>7. Shape' BY <1>1, <1>2, <2>4 DEF Shape
  <2>8. Limited' BY <1>1, <2>4 DEF IInv, Limited, Bounded, Submitting
  <2>9. Script(todo, sent)' BY <1>1 DEF IInv, Script
  <2>10. Known' BY <1>1, <2>3 DEF IInv, Known
  <2>11. InOrder' BY <1>1, <2>4, <2>5 DEF InOrder, NoRepeat, ReadsOnly
  <2>12. NoSkippedWrite' BY <1>1 DEF IInv, NoSkippedWrite
  <2> QED BY <2>6, <2>7, <2>8, <2>9, <2>10, <2>11, <2>12 DEF IInv
<1>4. CASE result # "ok"
  <2>1. Return(result) /\ Quiet BY <1>1, <1>4 DEF UploadAgain, Quiet, Within
  <2> QED BY <1>1, <2>1, ReturnKeeps
<1> QED BY <1>3, <1>4

LEMMA WaitLoginKeeps == ASSUME IInv, WaitLogin PROVE IInv'
<1>1. /\ todo # <<>> /\ Head(todo) = "wait" /\ stack' = <<Call("login")>> /\ Quiet
    BY DEF WaitLogin, AtWait, Quiet, Within, switchVars, others, opVars
<1>2. Asked(Head(todo)) = "login" BY <1>1 DEF Asked, Captures
<1>3. /\ Call("login") \in Frames /\ Call("login").fn = "login"
      /\ Call("login").at = "guard"
    BY CallType DEF Callees
<1>4. ~Repeats(Call("login")) BY <1>3 DEF Repeats
<1>5. /\ stack' \in Seq(Frames) /\ stack' # <<>> /\ Framed(stack', "login")
      /\ ~Submitting(stack') /\ NoRepeat(stack')
    BY <1>1, <1>3, <1>4, Single
<1> QED BY <1>1, <1>2, <1>5, QuietKeeps

LEMMA PollAgainKeeps == ASSUME IInv, PollAgain PROVE IInv'
<1>1. /\ todo # <<>> /\ Head(todo) = "wait" /\ stack = <<>> /\ stack' = stack /\ Quiet
    BY DEF PollAgain, AtWait, Quiet, Within, switchVars, others, opVars
<1>2. stack' \in Seq(Frames) /\ Framed(stack', Asked(Head(todo))) /\ ~Submitting(stack')
    BY <1>1 DEF Framed, Submitting
<1>3. Head(todo) # "write" BY <1>1
<1> QED BY <1>1, <1>2, <1>3, QuietKeeps

LEMMA ConfigAnsweredKeeps == ASSUME IInv, ConfigAnswered PROVE IInv'
<1>1. stack # <<>> /\ Top.fn = "config" BY DEF ConfigAnswered, Calling
<1>2. CASE Matches
  <2>1. /\ todo' = <<>> /\ stack' = <<>> /\ UNCHANGED <<held, reading, sent, effective, faults>>
        /\ live' \in {live, 0} /\ driver' = parked /\ parked' = NoDriver
    BY <1>2 DEF ConfigAnswered, ToolEnds, AfterLogout
  <2> QED BY <2>1, EndKeeps
<1>3. CASE ~Matches
  <2>1. Return("parse") /\ Quiet BY <1>3 DEF ConfigAnswered, Quiet, Within
  <2> QED BY <1>1, <2>1, ReturnKeeps
<1> QED BY <1>2, <1>3

LEMMA ConfigLostKeeps == ASSUME IInv, ConfigLost PROVE IInv'
<1>1. stack # <<>> /\ Top.fn = "config" /\ Return("net") /\ Quiet
    BY DEF ConfigLost, Calling, Quiet, Within, switchVars, others, opVars
<1> QED BY <1>1, ReturnKeeps

LEMMA UnreachableKeeps == ASSUME IInv, Unreachable PROVE IInv'
<1>1. Quiet BY DEF Unreachable, Quiet, Within, switchVars, others, opVars
<1>2. CASE Calling(Pages \cup Forms \cup {"restore", "config"}, "send") /\ Fail("net")
  <2>1. stack # <<>> /\ Top.at \notin LoginSteps BY <1>2 DEF Calling, LoginSteps
  <2> QED BY <1>1, <1>2, <2>1, FailKeeps
<1>3. CASE Calling({"login"}, "submit") /\ Return("net")
  <2>1. stack # <<>> BY <1>3 DEF Calling
  <2> QED BY <1>1, <1>3, <2>1, ReturnKeeps
<1> QED BY <1>2, <1>3 DEF Unreachable

LEMMA SwitchKeeps ==
    ASSUME IInv, SessionEnds \/ Unlocks \/ Reboots \/ ComesUp
    PROVE  IInv'
<1>1. CASE SessionEnds BY <1>1, SessionGoneKeeps DEF SessionEnds, others
<1>2. CASE Reboots BY <1>2, SessionGoneKeeps DEF Reboots, others
<1>3. CASE Unlocks BY <1>3, UnseenKeeps DEF Unlocks, opVars, others
<1>4. CASE ComesUp BY <1>4, UnseenKeeps DEF ComesUp, vars, switchVars, opVars, others
<1> QED BY <1>1, <1>2, <1>3, <1>4

LEMMA CallsKeep == ASSUME IInv, Calls PROVE IInv'
BY NextRequestKeeps, NextFormKeeps, RequestDoneKeeps, FailedKeeps, AfterLoginKeeps, GuardKeeps,
   HashReadKeeps
   DEF Calls

LEMMA DriverKeeps == ASSUME IInv, RestoreDriver PROVE IInv'
<1>1. CASE Calls BY <1>1, CallsKeep
<1>2. CASE Session
  BY <1>2, AnsweredKeeps, RedirectedKeeps, RedirectedAgainKeeps, AcceptedKeeps, RefusedKeeps
     DEF Session
<1>3. CASE Unreachable BY <1>3, UnreachableKeeps
<1>4. CASE UploadAnswered \/ UploadRedirected \/ UploadAgain
  BY <1>4, UploadAnsweredKeeps, RestoreRedirectedKeeps, UploadAgainKeeps
<1>5. CASE WaitLogin \/ PollAgain \/ RestoreFailed
  BY <1>5, WaitLoginKeeps, PollAgainKeeps, RestoreFailedKeeps
<1>6. CASE ConfigAnswered \/ ConfigRedirected
  BY <1>6, ConfigAnsweredKeeps, RestoreRedirectedKeeps
<1> QED BY <1>1, <1>2, <1>3, <1>4, <1>5, <1>6 DEF RestoreDriver

LEMMA Inductive == IInv /\ [RestoreNext]_allVars => IInv'
<1> SUFFICES ASSUME IInv, [RestoreNext]_allVars PROVE IInv' OBVIOUS
<1>1. CASE StartProvider(ReadScript) \/ StartProvider(ApplyScript) \/ StartRestore
  BY <1>1, ProviderStarts, ToolStarts
<1>2. CASE RestoreDriver BY <1>2, DriverKeeps
<1>3. CASE SessionFault
  BY <1>3, LostKeeps, LoginLostKeeps, SwitchKeeps DEF SessionFault
<1>4. CASE UploadLost \/ ConfigLost BY <1>4, UploadAnsweredKeeps, ConfigLostKeeps
<1>5. CASE Reboots \/ ComesUp \/ (Unlocks /\ UNCHANGED restoreVars)
  BY <1>5, SwitchKeeps
<1>6. CASE UNCHANGED allVars
  BY <1>6, UnseenKeeps DEF allVars, vars, switchVars, opVars, others
<1> QED BY <1>1, <1>2, <1>3, <1>4, <1>5, <1>6 DEF RestoreNext

-----------------------------------------------------------------------------
(* Results *)

LEMMA Invariance == RestoreSpec => []IInv
<1>1. RestoreInit => IInv BY Initially DEF RestoreInit
<1> QED BY <1>1, Inductive, PTL DEF RestoreSpec

\* However its calls nest, whichever address they try, whatever is lost and
\* however many operations it serves, a driver sends the switch at most as many
\* wrong logins in a row as its limit, and one more for every lost message.
THEOREM LoginsLimited == RestoreSpec => []LimitHolds
<1>1. IInv => LimitHolds
  <2> SUFFICES ASSUME IInv PROVE LimitHolds OBVIOUS
  <2>1. driver \in Drivers /\ faults \in Nat BY DEF IInv, Typed
  <2>2. driver.failures \in Int /\ driver.refusals \in Int BY <2>1 DEF Drivers
  <2> QED BY <2>1, <2>2, WebSessionAssumption DEF IInv, Limited, Bounded, LimitHolds
<1> QED BY <1>1, Invariance, PTL

\* However often the session is lost between the requests of an apply, the reads
\* between its forms included, and whatever is taken for an answer, no form takes
\* effect before an earlier one.
THEOREM FormsInOrder == RestoreSpec => []NoSkippedWrite
<1>1. IInv => NoSkippedWrite BY DEF IInv
<1> QED BY <1>1, Invariance, PTL

\* What the switch will still boot is the last restore's, unless that one's
\* backup has never been taken.
PendingIsWanted == pending # 0 /\ ~earlier => pending = wanted

LEMMA PendingKept == ASSUME PendingIsWanted, [RestoreNext]_allVars PROVE PendingIsWanted'
<1>1. ASSUME UNCHANGED <<pending, wanted, earlier>> PROVE PendingIsWanted'
  BY <1>1 DEF PendingIsWanted
<1>2. CASE StartRestore BY <1>2 DEF StartRestore, switchConfig, PendingIsWanted
<1>3. CASE StartProvider(ReadScript) \/ StartProvider(ApplyScript) \/ SessionFault
           \/ (Unlocks /\ UNCHANGED restoreVars)
  BY <1>1, <1>3 DEF StartProvider, SessionFault, restoreVars, switchConfig
<1>4. CASE Calls \/ Session \/ Unreachable \/ UploadRedirected \/ UploadAgain \/ WaitLogin
           \/ ConfigRedirected \/ ConfigLost
  BY <1>1, <1>4 DEF Calls, Session, Unreachable, UploadRedirected, UploadAgain, WaitLogin,
       ConfigRedirected, ConfigLost, restoreVars, switchConfig
<1>5. CASE UploadAnswered \/ UploadLost
  BY <1>1, <1>5 DEF UploadAnswered, UploadLost, Take, PendingIsWanted
<1>6. CASE PollAgain \/ RestoreFailed \/ ConfigAnswered
  BY <1>1, <1>6 DEF PollAgain, RestoreFailed, ConfigAnswered, switchConfig
<1>7. CASE Reboots BY <1>7 DEF Reboots, PendingIsWanted
<1>8. CASE ComesUp \/ UNCHANGED allVars
  BY <1>1, <1>8 DEF ComesUp, allVars, restoreVars, switchConfig
<1> QED
  BY <1>2, <1>3, <1>4, <1>5, <1>6, <1>7, <1>8 DEF RestoreNext, RestoreDriver

\* While a success stands, no form and no upload is under way.
Quiescent == claimed => \A i \in 1 .. Len(todo) : todo[i] \notin Writing \cup {"restore"}

\* What is left of the requests.
LEMMA FewerRequests ==
    ASSUME Typed, Quiescent, claimed' = claimed,
           todo' \in {todo, <<>>} \/ (todo # <<>> /\ todo' = Tail(todo))
    PROVE  Quiescent'
<1>1. todo \in Seq(Requests) BY DEF Typed
<1>2. CASE todo' \in {todo, <<>>} BY <1>2 DEF Quiescent
<1>3. CASE todo # <<>> /\ todo' = Tail(todo)
  <2>1. /\ Len(todo') = Len(todo) - 1 /\ Len(todo) \in Nat
        /\ \A i \in 1 .. Len(todo) - 1 : todo'[i] = todo[i + 1] /\ i + 1 \in 1 .. Len(todo)
    BY <1>1, <1>3
  <2> QED BY <2>1 DEF Quiescent
<1> QED BY <1>2, <1>3

\* Nor is one the next request, or the innermost call.
LEMMA NoneNext ==
    ASSUME IInv, Quiescent, claimed
    PROVE  /\ todo # <<>> => Head(todo) \notin Writing \cup {"restore"}
           /\ stack # <<>> => Top.fn \notin {"write", "restore"}
<1>1. todo \in Seq(Requests) BY DEF IInv, Typed
<1>2. ASSUME todo # <<>> PROVE Head(todo) \notin Writing \cup {"restore"}
  <2>1. Head(todo) = todo[1] /\ 1 \in 1 .. Len(todo) BY <1>1, <1>2
  <2> QED BY <2>1 DEF Quiescent
<1>3. ASSUME stack # <<>>, Top.fn \in {"write", "restore"} PROVE FALSE
  <2>1. todo # <<>> /\ Head(todo) \in Requests /\ Top.fn = Asked(Head(todo)) BY <1>3, TopType
  <2>2. Head(todo) \in {"write", "restore"} BY <1>3, <2>1, AskedType
  <2> QED BY <1>2, <2>1, <2>2 DEF Writing
<1> QED BY <1>2, <1>3

\* A success stands until another restore or an apply begins, so the switch is
\* neither given a backup nor a form meanwhile.
LEMMA QuiescentKept ==
    ASSUME IInv, Quiescent, [RestoreNext]_allVars
    PROVE  Quiescent' /\ (claimed /\ claimed' /\ ~Reboots => UNCHANGED <<serves, wanted, earlier>>)
<1>1. Typed BY DEF IInv
<1>2. ASSUME UNCHANGED <<todo, claimed, serves, wanted, earlier>>
      PROVE  Quiescent' /\ UNCHANGED <<serves, wanted, earlier>>
  BY <1>2 DEF Quiescent
<1>3. CASE StartRestore BY <1>3 DEF StartRestore, Quiescent
<1>4. CASE StartProvider(ReadScript)
  BY <1>4 DEF StartProvider, StartOperation, StartWith, Quiescent, ReadScript, Writing, PlanForms,
       switchConfig
<1>5. CASE StartProvider(ApplyScript)
  <2>1. ApplyScript # ReadScript
    <3>1. Len(ApplyScript) = 15 + Len(Plan) /\ Len(Plan) \in Nat
      BY ApplyLength
    <3>2. Len(ReadScript) = 5 BY DEF ReadScript
    <3> DEFINE n == Len(Plan)
    <3>3. n \in Nat /\ Len(ApplyScript) = 15 + n BY <3>1
    <3> HIDE DEF n
    <3>4. 15 + n # 5 BY <3>3
    <3> QED BY <3>2, <3>3, <3>4
  <2> QED BY <1>5, <2>1 DEF StartProvider, Quiescent
<1>6. CASE Calls
  <2>1. UNCHANGED <<claimed, serves, wanted, earlier>> BY <1>6 DEF Calls, restoreVars, switchConfig
  <2>2. CASE NextForm
    <3>1. todo # <<>> /\ Head(todo) \in PlanForms
      BY <2>2 DEF NextForm, AtRequest, FormRequests, PlanForms
    <3> QED BY <2>1, <3>1, NoneNext DEF Quiescent, Writing
  <2>3. CASE NextRequest
    BY <1>1, <2>1, <2>3, FewerRequests DEF NextRequest, AtRequest
  <2>4. CASE RequestDone BY <1>1, <2>1, <2>4, FewerRequests DEF RequestDone
  <2>5. CASE OperationFailed BY <1>1, <2>1, <2>5, FewerRequests DEF OperationFailed
  <2>6. CASE AfterLogin \/ Guard \/ HashRead
    BY <1>2, <2>1, <2>6 DEF AfterLogin, Guard, HashRead, opVars
  <2> QED BY <1>6, <2>2, <2>3, <2>4, <2>5, <2>6 DEF Calls
<1>7. CASE Session \/ SessionFault
  <2>1. UNCHANGED <<todo, claimed, wanted, earlier>>
    BY <1>7 DEF Session, SessionFault, Answered, Redirected, RedirectedAgain, Accepted, Refused,
         Lost, LoginLost, SessionEnds, opVars
  <2>2. Quiescent' BY <2>1 DEF Quiescent
  <2>3. ASSUME claimed PROVE effective' = effective
    <3>1. CASE Answered \/ Lost
      <4>1. stack # <<>> /\ effective' \in {effective, Effect}
        BY <3>1 DEF Answered, Lost, Calling
      <4> QED BY <2>3, <4>1, NoneNext DEF Effect
    <3>2. CASE ~(Answered \/ Lost)
      BY <1>7, <3>2 DEF Session, SessionFault, Redirected, RedirectedAgain, Accepted, Refused,
           LoginLost, SessionEnds, opVars
    <3> QED BY <3>1, <3>2
  <2> QED BY <1>7, <2>1, <2>2, <2>3 DEF Session, SessionFault, Reconfigured
<1>8. CASE UploadAnswered \/ UploadLost
  <2>1. stack # <<>> /\ Top.fn = "restore"
    BY <1>8 DEF UploadAnswered, UploadLost, Uploading, Calling
  <2>2. ~claimed BY <2>1, NoneNext
  <2>3. claimed' = claimed BY <1>8 DEF UploadAnswered, UploadLost
  <2> QED BY <2>2, <2>3 DEF Quiescent
<1>9. CASE Unreachable \/ UploadRedirected \/ UploadAgain \/ WaitLogin \/ ConfigRedirected
           \/ ConfigLost
  BY <1>2, <1>9 DEF Unreachable, UploadRedirected, UploadAgain, WaitLogin, ConfigRedirected,
       ConfigLost, opVars, restoreVars, switchConfig
<1>10. CASE PollAgain BY <1>2, <1>10 DEF PollAgain, opVars, switchConfig
<1>11. CASE RestoreFailed
  BY <1>1, <1>11, FewerRequests DEF RestoreFailed, ToolEnds, switchConfig
<1>12. CASE ConfigAnswered
  <2>1. UNCHANGED <<serves, wanted, earlier>> BY <1>12 DEF ConfigAnswered, switchConfig
  <2>2. todo' = <<>> \/ UNCHANGED <<todo, claimed>> BY <1>12 DEF ConfigAnswered, ToolEnds
  <2> QED BY <1>2, <2>1, <2>2 DEF Quiescent
<1>13. CASE Reboots BY <1>13 DEF Reboots, opVars, Quiescent
<1>14. CASE ComesUp \/ (Unlocks /\ UNCHANGED restoreVars) \/ UNCHANGED allVars
  BY <1>2, <1>14 DEF ComesUp, Unlocks, allVars, vars, opVars, restoreVars, switchConfig
<1> QED
  BY <1>3, <1>4, <1>5, <1>6, <1>7, <1>8, <1>9, <1>10, <1>11, <1>12, <1>13, <1>14
     DEF RestoreNext, RestoreDriver

\* Only the verification claims a success.
LEMMA SuccessClaims ==
    ASSUME [RestoreNext]_allVars, claimed', ~claimed
    PROVE  ConfigAnswered /\ Matches
<1>1. claimed' # claimed OBVIOUS
<1>2. ~(StartProvider(ReadScript) \/ StartProvider(ApplyScript) \/ StartRestore)
  BY DEF StartProvider, StartRestore
<1>3. ~(SessionFault \/ UploadLost \/ ConfigLost)
  BY <1>1 DEF SessionFault, UploadLost, ConfigLost, restoreVars
<1>4. ~(Reboots \/ ComesUp \/ (Unlocks /\ UNCHANGED restoreVars) \/ UNCHANGED allVars)
  BY <1>1 DEF Reboots, ComesUp, restoreVars, allVars
<1>5. ~(Calls \/ Session \/ Unreachable)
  BY <1>1 DEF Calls, Session, Unreachable, restoreVars
<1>6. ~(UploadAnswered \/ UploadRedirected \/ UploadAgain \/ WaitLogin \/ PollAgain
          \/ RestoreFailed \/ ConfigRedirected)
  BY <1>1 DEF UploadAnswered, UploadRedirected, UploadAgain, WaitLogin, PollAgain, RestoreFailed,
       ConfigRedirected, restoreVars
<1>7. ConfigAnswered BY <1>2, <1>3, <1>4, <1>5, <1>6 DEF RestoreNext, RestoreDriver
<1> QED BY <1>1, <1>7 DEF ConfigAnswered

\* A restore that reports success lasts: the switch hands its backup out then
\* and after the reboot, however late that comes, unless a backup that was
\* already pending when the tool began displaces it (RestoreConfigAndWait).
THEOREM RestoredAsClaimed == RestoreSpec => []RestoreLasts
<1>1. RestoreInit => RestoreLasts /\ PendingIsWanted /\ Quiescent
  BY DEF RestoreInit, RestoreLasts, PendingIsWanted, Quiescent
<1>2. ASSUME IInv, RestoreLasts, PendingIsWanted, Quiescent, [RestoreNext]_allVars
      PROVE  (RestoreLasts /\ PendingIsWanted /\ Quiescent)'
  <2>1. PendingIsWanted' /\ Quiescent' BY <1>2, PendingKept, QuiescentKept
  <2>2. ASSUME claimed', claimed, ~Reboots PROVE RestoreLasts'
    BY <1>2, <2>2, QuiescentKept DEF RestoreLasts
  <2>3. ASSUME Reboots PROVE RestoreLasts'
    <3>1. /\ claimed' = claimed /\ wanted' = wanted /\ earlier' = earlier /\ serves' = pending
          /\ pending # 0
      BY <2>3 DEF Reboots
    <3>2. CASE earlier BY <3>1, <3>2, Zenon DEF RestoreLasts
    <3>3. CASE ~earlier BY <1>2, <3>1, <3>3, Zenon DEF RestoreLasts, PendingIsWanted
    <3> QED BY <3>2, <3>3
  <2>4. ASSUME claimed', ~claimed PROVE RestoreLasts'
    <3>1. ConfigAnswered /\ Matches BY <1>2, <2>4, SuccessClaims
    <3>2. serves' = serves /\ wanted' = wanted BY <3>1 DEF ConfigAnswered, switchConfig
    <3>3. serves' = wanted' BY <3>1, <3>2 DEF Matches
    <3> QED BY <3>3 DEF RestoreLasts
  <2>5. ASSUME ~claimed' PROVE RestoreLasts' BY <2>5 DEF RestoreLasts
  <2> QED BY <2>1, <2>2, <2>3, <2>4, <2>5
<1> QED
  BY <1>1, <1>2, Invariance, PTL DEF RestoreSpec
=============================================================================
