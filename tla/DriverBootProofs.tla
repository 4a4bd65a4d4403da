-------------------------- MODULE DriverBootProofs --------------------------
(***************************************************************************)
(* That a boot starts each driver once, from code that is there and with   *)
(* its own configuration, and never runs tampered bytes, for every board   *)
(* and every choice of what fails.                                         *)
(*                                                                         *)
(* A driver is registered by the step that takes it off the list, so what  *)
(* is still listed is not registered yet; and the step that starts over,   *)
(* "fallback", is only reached while nothing is registered.                *)
(*                                                                         *)
(* Below, with state of their own, what the drivers do once they run: the  *)
(* panels and the sound (PanelsShowWhatTheyAreSent, SoundPlaysAsSet), the  *)
(* GPS receiver, the clock, the motion sensors and the battery             *)
(* (FixesAreOfOneSentence, ClockTellsWhatItWasSet, MotionRatesAgree,       *)
(* BatteryTellsItsCharge).                                                 *)
(***************************************************************************)
EXTENDS DriverBoot, SequenceTheorems, FiniteSetTheorems, TLAPS

RegType == [display : Drivers \cup {NoDriver}, radio : Drivers \cup {NoDriver},
            inputs : Seq(Drivers), storage : Seq(Drivers)]

Places(reg) == Len(reg.inputs) <= MaxInputs /\ Len(reg.storage) <= MaxStorage

In(reg, d) ==
    \/ reg.display = d \/ reg.radio = d
    \/ \E i \in DOMAIN reg.inputs : reg.inputs[i] = d
    \/ \E i \in DOMAIN reg.storage : reg.storage[i] = d

\* Each driver is registered under its interface,
KindsMatch(reg) ==
    /\ reg.display # NoDriver => HalOf[reg.display] = "display"
    /\ reg.radio # NoDriver => HalOf[reg.radio] = "radio"
    /\ \A i \in DOMAIN reg.inputs : HalOf[reg.inputs[i]] = "input"
    /\ \A i \in DOMAIN reg.storage : HalOf[reg.storage[i]] = "storage"

\* and only once.
Once(reg) == IsInjective(reg.inputs) /\ IsInjective(reg.storage)

-----------------------------------------------------------------------------
(* The invariant                                                           *)

OnBoard == {"register", "fallback register"}
Registering == OnBoard \cup {"drivers"}
Starting == {"start", "fallback start"}
BeforeDrivers == {"config", "board", "buses", "fallback"}

\* A driver is loaded while a slot is free for it, with its own configuration or none.
LoadInv ==
    /\ load # "idle" => /\ step \in {"drivers", "scan"} /\ todo # <<>>
                        /\ Len(loaded) < MaxLoaded
                        /\ config \in {NoDriver, Head(todo)}
    /\ load = "idle" => config = NoDriver

\* Nothing is registered twice before the drivers are started: what is still to be
\* registered is not yet.
OnceInv ==
    /\ step \in Registering \cup Starting \cup BeforeDrivers => Once(registry)
    /\ step \in Registering =>
          /\ IsInjective(todo)
          /\ \A i \in DOMAIN todo : In(registry, todo[i]) => i = 1 /\ load = "registered"

\* What is registered is there; slots are given up only when none of it is in one.
CodeInv ==
    /\ step \in BeforeDrivers => registry = EmptyRegistry
    /\ step \in OnBoard => \A i \in DOMAIN todo : todo[i] \in Builtin
    /\ step \in OnBoard \cup {"fallback start"} =>
          \A d \in Drivers : In(registry, d) => d \in Builtin
    /\ \A d \in Drivers : In(registry, d) =>
          \/ build = "sim" \/ d \in Builtin \/ \E i \in DOMAIN loaded : loaded[i] = d
          \/ load = "registered" /\ d = Head(todo)

\* Nothing is started before everything is registered, and what is still to be
\* started is not yet.
StartInv ==
    /\ step \in BeforeDrivers \cup Registering => started = <<>>
    /\ IsInjective(started)
    /\ step \in Starting =>
          /\ IsInjective(todo)
          /\ \A i \in DOMAIN started, j \in DOMAIN todo : started[i] # todo[j]

BootInv == LoadInv /\ KindsMatch(registry) /\ OnceInv /\ CodeInv /\ StartInv /\ ConfigIsOwn

-----------------------------------------------------------------------------
(* The operators                                                           *)

\* The order in which a set of drivers is gone through has each of them once.
LEMMA Orders ==
    ASSUME NEW S \in SUBSET Drivers, NEW s \in SetToSeqs(S)
    PROVE  s \in Seq(Drivers) /\ IsInjective(s) /\ \A i \in DOMAIN s : s[i] \in S
<1>1. Cardinality(S) \in Nat
  BY DriversAssumption, FS_Subset, FS_CardinalityType
<1>2. s \in [1 .. Cardinality(S) -> S] /\ IsInjective(s)
  BY DEF SetToSeqs, IsInjective
<1>3. s \in [1 .. Cardinality(S) -> Drivers]
  BY <1>2
<1> QED BY <1>1, <1>2, <1>3, SeqDef

\* The rest of a list: it is shorter by the first driver.
LEMMA Rest ==
    ASSUME NEW s \in Seq(Drivers), s # <<>>
    PROVE  /\ Head(s) \in Drivers /\ Tail(s) \in Seq(Drivers)
           /\ 1 \in DOMAIN s /\ s[1] = Head(s)
           /\ \A i \in DOMAIN Tail(s) : /\ i + 1 \in DOMAIN s /\ i \in Nat /\ i + 1 # 1
                                        /\ Tail(s)[i] = s[i + 1]
           /\ IsInjective(s) => IsInjective(Tail(s)) /\ \A i \in DOMAIN Tail(s) : Tail(s)[i] # Head(s)
<1>1. /\ Tail(s) \in Seq(Drivers) /\ Len(Tail(s)) = Len(s) - 1
      /\ \A i \in 1 .. Len(Tail(s)) : Tail(s)[i] = s[i + 1]
  BY HeadTailProperties
<1>2. Len(s) \in Nat /\ Len(s) # 0 /\ DOMAIN s = 1 .. Len(s) /\ DOMAIN Tail(s) = 1 .. Len(Tail(s))
  BY <1>1, EmptySeq, LenProperties
<1>3. /\ Head(s) \in Drivers /\ Tail(s) \in Seq(Drivers)
      /\ 1 \in DOMAIN s /\ s[1] = Head(s)
  BY <1>1, <1>2, HeadTailProperties
<1>4. \A i \in DOMAIN Tail(s) : /\ i + 1 \in DOMAIN s /\ i \in Nat /\ i + 1 # 1
                                /\ Tail(s)[i] = s[i + 1]
  BY <1>1, <1>2
<1>5. ASSUME IsInjective(s)
      PROVE  IsInjective(Tail(s)) /\ \A i \in DOMAIN Tail(s) : Tail(s)[i] # Head(s)
  <2>1. \A i, j \in DOMAIN Tail(s) : Tail(s)[i] = Tail(s)[j] => i = j
    BY <1>4, <1>5 DEF IsInjective
  <2>2. \A i \in DOMAIN Tail(s) : Tail(s)[i] # Head(s)
    BY <1>3, <1>4, <1>5 DEF IsInjective
  <2> QED BY <2>1, <2>2 DEF IsInjective
<1> QED BY <1>3, <1>4, <1>5

\* A list with one more driver at its end.
LEMMA OneMore ==
    ASSUME NEW s \in Seq(Drivers), NEW d \in Drivers
    PROVE  /\ Append(s, d) \in Seq(Drivers) /\ Len(Append(s, d)) = Len(s) + 1
           /\ \A i \in DOMAIN Append(s, d) :
                 Append(s, d)[i] = d \/ (i \in DOMAIN s /\ Append(s, d)[i] = s[i])
           /\ \A i \in DOMAIN s : i \in DOMAIN Append(s, d) /\ Append(s, d)[i] = s[i]
           /\ \E i \in DOMAIN Append(s, d) : Append(s, d)[i] = d
           /\ IsInjective(s) /\ (\A i \in DOMAIN s : s[i] # d) => IsInjective(Append(s, d))
<1> DEFINE t == Append(s, d)
<1>1. /\ t \in Seq(Drivers) /\ Len(t) = Len(s) + 1
      /\ \A i \in 1 .. Len(s) : t[i] = s[i]
      /\ t[Len(s) + 1] = d
  BY AppendProperties
<1> HIDE DEF t
<1>2. Len(s) \in Nat /\ DOMAIN s = 1 .. Len(s) /\ DOMAIN t = 1 .. Len(s) + 1
  BY <1>1, LenProperties
<1>3. \A i \in DOMAIN t : (t[i] = d /\ i = Len(s) + 1) \/ (i \in DOMAIN s /\ t[i] = s[i])
  BY <1>1, <1>2
<1>4. (\A i \in DOMAIN s : i \in DOMAIN t /\ t[i] = s[i]) /\ \E i \in DOMAIN t : t[i] = d
  BY <1>1, <1>2
<1>5. IsInjective(s) /\ (\A i \in DOMAIN s : s[i] # d) => IsInjective(t)
  BY <1>3 DEF IsInjective
<1> QED BY <1>1, <1>3, <1>4, <1>5 DEF t

\* A registration adds at most its driver, in the place for its interface.
LEMMA Registration ==
    ASSUME NEW reg \in RegType, NEW d \in Drivers
    PROVE  /\ WithDriver(reg, d) \in RegType
           /\ \A e \in Drivers : In(WithDriver(reg, d), e) => In(reg, e) \/ e = d
<1>1. HalOf[d] \in {"display", "input", "radio", "storage"}
  BY DEF HalOf
<1>2. Append(reg.inputs, d) \in Seq(Drivers) /\ Append(reg.storage, d) \in Seq(Drivers)
  BY OneMore DEF RegType
<1>3. WithDriver(reg, d) \in {reg, [reg EXCEPT !.display = d], [reg EXCEPT !.radio = d],
                              [reg EXCEPT !.inputs = Append(reg.inputs, d)],
                              [reg EXCEPT !.storage = Append(reg.storage, d)]}
  BY <1>1 DEF WithDriver
<1>4. \A i \in DOMAIN Append(reg.inputs, d) :
          Append(reg.inputs, d)[i] = d \/ (i \in DOMAIN reg.inputs /\ Append(reg.inputs, d)[i] = reg.inputs[i])
  BY OneMore DEF RegType
<1>5. \A i \in DOMAIN Append(reg.storage, d) :
          Append(reg.storage, d)[i] = d \/ (i \in DOMAIN reg.storage /\ Append(reg.storage, d)[i] = reg.storage[i])
  BY OneMore DEF RegType
<1>6. WithDriver(reg, d) \in RegType
  BY <1>2, <1>3 DEF RegType
<1>7. ASSUME NEW e \in Drivers, In(WithDriver(reg, d), e), e # d
      PROVE  In(reg, e)
  <2>1. CASE WithDriver(reg, d) = reg
    BY <1>7, <2>1
  <2>2. CASE WithDriver(reg, d) \in {[reg EXCEPT !.display = d], [reg EXCEPT !.radio = d]}
    BY <1>7, <2>2 DEF In, RegType
  <2>3. CASE WithDriver(reg, d) = [reg EXCEPT !.inputs = Append(reg.inputs, d)]
    BY <1>4, <1>7, <2>3 DEF In, RegType
  <2>4. CASE WithDriver(reg, d) = [reg EXCEPT !.storage = Append(reg.storage, d)]
    BY <1>5, <1>7, <2>4 DEF In, RegType
  <2> QED BY <1>3, <2>1, <2>2, <2>3, <2>4
<1> QED BY <1>6, <1>7

LEMMA RegistrationFits ==
    ASSUME NEW reg \in RegType, NEW d \in Drivers, Places(reg)
    PROVE  Places(WithDriver(reg, d))
<1>1. HalOf[d] \in {"display", "input", "radio", "storage"}
  BY DEF HalOf
<1>2. /\ Len(Append(reg.inputs, d)) = Len(reg.inputs) + 1
      /\ Len(Append(reg.storage, d)) = Len(reg.storage) + 1
      /\ Len(reg.inputs) \in Nat /\ Len(reg.storage) \in Nat
  BY OneMore, LenProperties DEF RegType
<1>3. CASE HalOf[d] = "input"
  BY <1>2, <1>3, LimitsAssumption DEF WithDriver, Fits, Places, RegType
<1>4. CASE HalOf[d] = "storage"
  BY <1>2, <1>4, LimitsAssumption DEF WithDriver, Fits, Places, RegType
<1>5. CASE HalOf[d] \in {"display", "radio"}
  BY <1>5 DEF WithDriver, Fits, Places, RegType
<1> QED BY <1>1, <1>3, <1>4, <1>5

LEMMA RegistrationKinds ==
    ASSUME NEW reg \in RegType, NEW d \in Drivers, KindsMatch(reg)
    PROVE  /\ KindsMatch(WithDriver(reg, d))
           /\ Once(reg) /\ ~In(reg, d) => Once(WithDriver(reg, d))
<1>1. HalOf[d] \in {"display", "input", "radio", "storage"}
  BY DEF HalOf
<1>2. /\ \A i \in DOMAIN Append(reg.inputs, d) :
           Append(reg.inputs, d)[i] = d \/ (i \in DOMAIN reg.inputs /\ Append(reg.inputs, d)[i] = reg.inputs[i])
      /\ IsInjective(reg.inputs) /\ (\A i \in DOMAIN reg.inputs : reg.inputs[i] # d)
            => IsInjective(Append(reg.inputs, d))
  BY OneMore DEF RegType
<1>3. /\ \A i \in DOMAIN Append(reg.storage, d) :
           Append(reg.storage, d)[i] = d \/ (i \in DOMAIN reg.storage /\ Append(reg.storage, d)[i] = reg.storage[i])
      /\ IsInjective(reg.storage) /\ (\A i \in DOMAIN reg.storage : reg.storage[i] # d)
            => IsInjective(Append(reg.storage, d))
  BY OneMore DEF RegType
<1>4. CASE WithDriver(reg, d) = reg
  BY <1>4
<1>5. CASE HalOf[d] = "display" /\ WithDriver(reg, d) = [reg EXCEPT !.display = d]
  BY <1>5 DEF KindsMatch, Once, RegType
<1>6. CASE HalOf[d] = "radio" /\ WithDriver(reg, d) = [reg EXCEPT !.radio = d]
  BY <1>6 DEF KindsMatch, Once, RegType
<1>7. CASE HalOf[d] = "input" /\ WithDriver(reg, d) = [reg EXCEPT !.inputs = Append(reg.inputs, d)]
  BY <1>2, <1>7 DEF KindsMatch, Once, RegType, In
<1>8. CASE HalOf[d] = "storage" /\ WithDriver(reg, d) = [reg EXCEPT !.storage = Append(reg.storage, d)]
  BY <1>3, <1>8 DEF KindsMatch, Once, RegType, In
<1> QED BY <1>1, <1>4, <1>5, <1>6, <1>7, <1>8 DEF WithDriver

\* Only registered drivers are started, and each once if it is registered once.
LEMMA StartsWhatIsRegistered ==
    ASSUME NEW reg \in RegType
    PROVE  /\ StartOrder(reg) \in Seq(Drivers)
           /\ \A d \in Registered(reg) : d \in Drivers /\ In(reg, d)
<1> DEFINE a == Optional(reg.display)
           b == a \o reg.inputs
           c == b \o Optional(reg.radio)
<1>1. /\ a \in Seq(Drivers) /\ Optional(reg.radio) \in Seq(Drivers)
      /\ reg.inputs \in Seq(Drivers) /\ reg.storage \in Seq(Drivers)
  BY DEF Optional, RegType
<1>2. b \in Seq(Drivers) /\ Range(b) = Range(a) \cup Range(reg.inputs)
  BY <1>1, ConcatProperties, RangeConcatenation
<1> HIDE DEF b
<1>3. c \in Seq(Drivers) /\ Range(c) = Range(b) \cup Range(Optional(reg.radio))
  BY <1>1, <1>2, ConcatProperties, RangeConcatenation
<1>4. StartOrder(reg) = c \o reg.storage
  BY <1>1, <1>2, <1>3, ConcatAssociative DEF StartOrder, b
<1> HIDE DEF c
<1>5. /\ StartOrder(reg) \in Seq(Drivers)
      /\ Range(StartOrder(reg)) = Range(c) \cup Range(reg.storage)
  BY <1>1, <1>3, <1>4, ConcatProperties, RangeConcatenation
<1>6. \A d \in Range(a) : d = reg.display
  BY DEF Optional, Range
<1>7. \A d \in Range(Optional(reg.radio)) : d = reg.radio
  BY DEF Optional, Range
<1>8. \A d \in Registered(reg) : In(reg, d)
  BY <1>2, <1>3, <1>5, <1>6, <1>7 DEF Registered, Range, In
<1>9. Registered(reg) \subseteq Drivers
  BY <1>5, RangeOfSeq DEF Registered
<1> QED BY <1>5, <1>8, <1>9

\* Two lists without a driver in common, each with its drivers once.
LEMMA Apart ==
    ASSUME NEW s \in Seq(Drivers), NEW t \in Seq(Drivers), IsInjective(s), IsInjective(t),
           \A i \in DOMAIN s, j \in DOMAIN t : s[i] # t[j]
    PROVE  s \o t \in Seq(Drivers) /\ IsInjective(s \o t)
<1>1. /\ s \o t \in Seq(Drivers) /\ Len(s \o t) = Len(s) + Len(t)
      /\ \A i \in 1 .. Len(s) + Len(t) :
            (s \o t)[i] = IF i <= Len(s) THEN s[i] ELSE t[i - Len(s)]
  BY ConcatProperties
<1>2. /\ Len(s) \in Nat /\ Len(t) \in Nat /\ DOMAIN s = 1 .. Len(s) /\ DOMAIN t = 1 .. Len(t)
      /\ DOMAIN (s \o t) = 1 .. Len(s) + Len(t)
  BY <1>1, LenProperties
<1>3. \A i \in DOMAIN (s \o t) :
          \/ i <= Len(s) /\ i \in DOMAIN s /\ (s \o t)[i] = s[i]
          \/ ~(i <= Len(s)) /\ i - Len(s) \in DOMAIN t /\ (s \o t)[i] = t[i - Len(s)]
  BY <1>1, <1>2
<1>4. ASSUME NEW i \in DOMAIN (s \o t), NEW j \in DOMAIN (s \o t), (s \o t)[i] = (s \o t)[j]
      PROVE  i = j
  <2>1. i \in Nat /\ j \in Nat /\ Len(s) \in Nat
    BY <1>2
  <2>2. CASE i <= Len(s) /\ j <= Len(s)
    BY <1>3, <1>4, <2>2 DEF IsInjective
  <2>3. CASE ~(i <= Len(s)) /\ ~(j <= Len(s))
    <3>1. i - Len(s) = j - Len(s)
      BY <1>3, <1>4, <2>3 DEF IsInjective
    <3> QED BY <2>1, <3>1
  <2>4. CASE (i <= Len(s)) # (j <= Len(s))
    BY <1>3, <1>4, <2>4
  <2> QED BY <2>2, <2>3, <2>4
<1> QED BY <1>1, <1>4 DEF IsInjective

LEMMA OfEither ==
    ASSUME NEW s \in Seq(Drivers), NEW t \in Seq(Drivers), NEW K,
           NEW L, \A i \in DOMAIN s : HalOf[s[i]] \in K, \A i \in DOMAIN t : HalOf[t[i]] \in L
    PROVE  \A i \in DOMAIN (s \o t) : HalOf[(s \o t)[i]] \in K \cup L
<1>1. Range(s \o t) = Range(s) \cup Range(t)
  BY RangeConcatenation
<1>2. \A d \in Range(s) \cup Range(t) : HalOf[d] \in K \cup L
  BY DEF Range
<1>3. \A i \in DOMAIN (s \o t) : (s \o t)[i] \in Range(s \o t)
  BY DEF Range
<1> QED BY <1>1, <1>2, <1>3

LEMMA StartsEachOnce ==
    ASSUME NEW reg \in RegType, KindsMatch(reg), Once(reg)
    PROVE  IsInjective(StartOrder(reg))
<1> DEFINE a == Optional(reg.display)
           b == a \o reg.inputs
           c == b \o Optional(reg.radio)
           Of(s, K) == \A i \in DOMAIN s : HalOf[s[i]] \in K
<1>1. /\ a \in Seq(Drivers) /\ Optional(reg.radio) \in Seq(Drivers)
      /\ reg.inputs \in Seq(Drivers) /\ reg.storage \in Seq(Drivers)
      /\ IsInjective(a) /\ IsInjective(Optional(reg.radio))
      /\ IsInjective(reg.inputs) /\ IsInjective(reg.storage)
  BY DEF Optional, RegType, IsInjective, Once
<1>2. /\ Of(a, {"display"}) /\ Of(reg.inputs, {"input"})
      /\ Of(Optional(reg.radio), {"radio"}) /\ Of(reg.storage, {"storage"})
  BY DEF Optional, KindsMatch
<1>3. /\ b \in Seq(Drivers) /\ IsInjective(b)
      /\ Of(b, {"display", "input"})
  <2>1. b \in Seq(Drivers) /\ IsInjective(b)
    BY <1>1, <1>2, Apart
  <2>2. Of(b, {"display", "input"})
    <3> HIDE DEF a
    <3>1. Of(a \o reg.inputs, {"display"} \cup {"input"})
      BY <1>1, <1>2, OfEither
    <3> QED BY <3>1
  <2> QED BY <2>1, <2>2
<1>4. /\ c \in Seq(Drivers) /\ IsInjective(c)
      /\ Of(c, {"display", "input", "radio"})
  <2>1. c \in Seq(Drivers) /\ IsInjective(c)
    BY <1>1, <1>2, <1>3, Apart
  <2>2. Of(c, {"display", "input", "radio"})
    <3> DEFINE r == Optional(reg.radio)
    <3> HIDE DEF b, r
    <3>1. Of(b \o r, {"display", "input"} \cup {"radio"})
      BY <1>1, <1>2, <1>3, OfEither DEF r
    <3> QED BY <3>1 DEF r
  <2> QED BY <2>1, <2>2
<1>5. IsInjective(c \o reg.storage)
  BY <1>1, <1>2, <1>4, Apart
<1> QED BY <1>1, <1>3, <1>4, <1>5, ConcatAssociative DEF StartOrder

\* Nothing is registered in the empty registry.
LEMMA NothingRegistered ==
    /\ EmptyRegistry \in RegType /\ Places(EmptyRegistry)
    /\ KindsMatch(EmptyRegistry) /\ Once(EmptyRegistry)
    /\ \A d \in Drivers : ~In(EmptyRegistry, d)
<1>1. EmptyRegistry.inputs = <<>> /\ EmptyRegistry.storage = <<>>
      /\ EmptyRegistry.display = NoDriver /\ EmptyRegistry.radio = NoDriver
  BY DEF EmptyRegistry
<1>2. DOMAIN <<>> = {} /\ Len(<<>>) = 0
  OBVIOUS
<1>3. EmptyRegistry \in RegType
  BY DEF EmptyRegistry, RegType
<1>4. Places(EmptyRegistry)
  BY <1>1, <1>2, LimitsAssumption DEF Places
<1> QED BY <1>1, <1>2, <1>3, <1>4, DriversAssumption DEF KindsMatch, Once, IsInjective, In

-----------------------------------------------------------------------------
(* The types                                                               *)

\* The part of the types that the actions change one at a time.
Lists == todo \in Seq(Drivers) /\ started \in Seq(Drivers)
Slots == loaded \in Seq(Drivers) /\ Len(loaded) <= MaxLoaded
Reg == registry \in RegType /\ Places(registry)
Rests ==
    /\ build \in Builds
    /\ step \in {"config", "board", "register", "buses", "drivers", "start", "fallback",
                 "fallback register", "fallback start", "scan", "services", "done"}
    /\ load \in {"idle", "read", "init", "asking", "configured", "registered"}
    /\ files \in [Drivers -> Files]
    /\ image \in {"none", "vendor", "foreign"}
    /\ locked \in BOOLEAN /\ key \in BOOLEAN
    /\ config \in Drivers \cup {NoDriver}
    /\ given \in [Drivers -> Drivers \cup {NoDriver}]
    /\ refused \subseteq Drivers

LEMMA TypeParts == TypeOK <=> Lists /\ Slots /\ Reg /\ Rests
BY DEF TypeOK, Lists, Slots, Reg, Rests, RegType, Places

LEMMA TypeInit == Init => TypeOK
<1> SUFFICES ASSUME Init PROVE Lists /\ Slots /\ Reg /\ Rests
  BY TypeParts
<1>1. <<>> \in Seq(Drivers) /\ Len(<<>>) = 0
  OBVIOUS
<1>2. Lists /\ Slots
  BY <1>1, LimitsAssumption DEF Init, Lists, Slots
<1>3. Reg
  BY NothingRegistered DEF Init, Reg
<1>4. Rests
  BY DEF Init, Rests
<1> QED BY <1>2, <1>3, <1>4

LEMMA ListsNext == TypeOK /\ [Next]_vars => Lists'
<1> SUFFICES ASSUME TypeOK, [Next]_vars PROVE Lists'
  OBVIOUS
<1> USE TypeParts DEF Lists, Reg
<1>1. todo # <<>> => Head(todo) \in Drivers /\ Tail(todo) \in Seq(Drivers)
  BY Rest
<1>2. StartOrder(registry) \in Seq(Drivers) /\ <<>> \in Seq(Drivers)
  BY StartsWhatIsRegistered
<1>3. /\ BoardDrivers \subseteq Drivers /\ Listed \subseteq Drivers
      /\ {d \in Drivers : files[d] # "none"} \subseteq Drivers
  BY DriversAssumption
<1>4. todo # <<>> => Append(started, Head(todo)) \in Seq(Drivers)
  BY <1>1, OneMore
<1>5. CASE Loader
  BY <1>1, <1>5 DEF Loader, UseBuiltin, LoadImpossible, ReadDriver, RunDriver, RefuseDriver,
     RelocateFails, AskConfig, GetConfig, RegisterDriver, DriverInitSucceeds, DriverInitFails,
     Returns, InLoader
<1>6. CASE InitBoard \/ Fallback
  BY <1>2, <1>3, <1>6, Orders DEF InitBoard, Fallback, BoardInit
<1>7. CASE InitBuses \/ ScanDrivers
  BY <1>2, <1>3, <1>7, Orders DEF InitBuses, ScanDrivers
<1>8. CASE RegisterBoard \/ BoardDone \/ DriversDone \/ StartDriver \/ StartFails
  BY <1>1, <1>2, <1>4, <1>8 DEF RegisterBoard, BoardDone, DriversDone, StartDriver, StartFails
<1>9. CASE ReadBoardJson \/ NoBoardJson \/ ConfigError \/ ConfigDone \/ ScanDone \/ StartServices
  BY <1>9 DEF ReadBoardJson, NoBoardJson, ConfigError, BoardConfigFails, ConfigDone, ScanDone,
     StartServices
<1>10. CASE \E d \in Drivers, file \in Files : ReplaceFile(d, file)
  BY <1>10 DEF ReplaceFile
<1>11. CASE UNCHANGED vars
  BY <1>11 DEF vars
<1> QED BY <1>5, <1>6, <1>7, <1>8, <1>9, <1>10, <1>11 DEF Next, Boot

\* Slots are filled one by one while there is one, and given up all at once.
LEMMA SlotsNext == TypeOK /\ LoadInv /\ [Next]_vars => Slots'
<1> SUFFICES ASSUME TypeOK, LoadInv, [Next]_vars PROVE Slots'
  OBVIOUS
<1> USE TypeParts DEF Slots, Lists
<1>1. CASE loaded' = loaded
  BY <1>1
<1>2. CASE loaded' = <<>>
  BY <1>2, LimitsAssumption
<1>3. CASE DriverInitSucceeds
  <2>1. Head(todo) \in Drivers /\ Len(loaded) < MaxLoaded /\ loaded' = Append(loaded, Head(todo))
    BY <1>3, Rest DEF DriverInitSucceeds, InLoader, LoadInv
  <2>2. Len(loaded) \in Nat /\ Len(loaded') = Len(loaded) + 1 /\ loaded' \in Seq(Drivers)
    BY <2>1, OneMore, LenProperties
  <2> QED BY <2>1, <2>2, LimitsAssumption
<1>4. CASE Loader /\ ~DriverInitSucceeds
  BY <1>1, <1>4 DEF Loader, UseBuiltin, LoadImpossible, ReadDriver, RunDriver, RefuseDriver,
     RelocateFails, AskConfig, GetConfig, RegisterDriver, DriverInitFails
<1>5. CASE InitBuses \/ ScanDrivers
  BY <1>2, <1>5 DEF InitBuses, ScanDrivers
<1>6. CASE Boot /\ ~(InitBuses \/ ScanDrivers)
  BY <1>1, <1>6 DEF Boot, ReadBoardJson, NoBoardJson, InitBoard, RegisterBoard, BoardDone,
     ConfigError, BoardConfigFails, BoardInit, DriversDone, StartDriver, StartFails, ConfigDone,
     Fallback, ScanDone, StartServices
<1>7. CASE \E d \in Drivers, file \in Files : ReplaceFile(d, file)
  BY <1>1, <1>7 DEF ReplaceFile
<1>8. CASE UNCHANGED vars
  BY <1>1, <1>8 DEF vars
<1> QED BY <1>3, <1>4, <1>5, <1>6, <1>7, <1>8 DEF Next

\* The registry changes only by registrations.
LEMMA RegistryChange ==
    ASSUME TypeOK, [Next]_vars
    PROVE  \/ registry' = registry
           \/ /\ todo # <<>> /\ registry' = WithDriver(registry, Head(todo))
              /\ UseBuiltin \/ RegisterBoard \/ RegisterDriver
<1>1. CASE Loader
  BY <1>1 DEF Loader, UseBuiltin, LoadImpossible, ReadDriver, RunDriver, RefuseDriver,
     RelocateFails, AskConfig, GetConfig, RegisterDriver, DriverInitSucceeds, DriverInitFails,
     InLoader
<1>2. CASE Boot
  BY <1>2 DEF Boot, ReadBoardJson, NoBoardJson, InitBoard, RegisterBoard, BoardDone,
     ConfigError, BoardConfigFails, BoardInit, InitBuses, DriversDone, StartDriver, StartFails,
     ConfigDone, Fallback, ScanDrivers, ScanDone, StartServices
<1>3. CASE (\E d \in Drivers, file \in Files : ReplaceFile(d, file)) \/ UNCHANGED vars
  BY <1>3 DEF ReplaceFile, vars
<1> QED BY <1>1, <1>2, <1>3 DEF Next

LEMMA RegNext == TypeOK /\ [Next]_vars => Reg'
<1> SUFFICES ASSUME TypeOK, [Next]_vars PROVE Reg'
  OBVIOUS
<1>1. CASE registry' = registry
  BY <1>1, TypeParts DEF Reg
<1>2. CASE todo # <<>> /\ registry' = WithDriver(registry, Head(todo))
  BY <1>2, TypeParts, Rest, Registration, RegistrationFits DEF Reg, Lists
<1> QED BY <1>1, <1>2, RegistryChange

LEMMA RestsNext == TypeOK /\ [Next]_vars => Rests'
<1> SUFFICES ASSUME TypeOK, [Next]_vars PROVE Rests'
  OBVIOUS
<1> USE TypeParts DEF Rests, Lists, loading
<1>1. todo # <<>> => Head(todo) \in Drivers
  BY Rest
<1>2. CASE ReadDriver
  BY <1>1, <1>2 DEF ReadDriver, InLoader, Bytes
<1>3. CASE GetConfig
  BY <1>1, <1>3 DEF GetConfig, InLoader
<1>4. CASE UseBuiltin \/ RunDriver \/ AskConfig \/ RegisterDriver
  BY <1>4 DEF UseBuiltin, RunDriver, AskConfig, RegisterDriver
<1>5. CASE LoadImpossible \/ RefuseDriver \/ RelocateFails \/ DriverInitSucceeds \/ DriverInitFails
  <2>1. CASE LoadImpossible
    BY <1>1, <2>1 DEF LoadImpossible, Returns, InLoader
  <2>2. CASE RefuseDriver
    BY <1>1, <2>2 DEF RefuseDriver, Returns, InLoader
  <2>3. CASE RelocateFails
    BY <1>1, <2>3 DEF RelocateFails, Returns, InLoader
  <2>4. CASE DriverInitSucceeds
    BY <1>1, <2>4 DEF DriverInitSucceeds, Returns, InLoader
  <2>5. CASE DriverInitFails
    BY <1>1, <2>5 DEF DriverInitFails, Returns, InLoader
  <2> QED BY <1>5, <2>1, <2>2, <2>3, <2>4, <2>5
<1>6. CASE Boot
  <2>1. CASE ReadBoardJson \/ NoBoardJson \/ InitBoard \/ RegisterBoard
    BY <1>1, <2>1 DEF ReadBoardJson, NoBoardJson, InitBoard, BoardInit, RegisterBoard
  <2>2. CASE BoardDone \/ ConfigError \/ InitBuses \/ DriversDone
    BY <1>1, <2>2 DEF BoardDone, ConfigError, BoardConfigFails, BoardInit, InitBuses, DriversDone
  <2>3. CASE StartDriver \/ StartFails \/ ConfigDone
    BY <1>1, <2>3 DEF StartDriver, StartFails, ConfigDone
  <2>4. CASE Fallback \/ ScanDrivers
    BY <1>1, <2>4 DEF Fallback, BoardInit, ScanDrivers
  <2>5. CASE ScanDone \/ StartServices
    BY <1>1, <2>5 DEF ScanDone, StartServices
  <2> QED BY <1>6, <2>1, <2>2, <2>3, <2>4, <2>5 DEF Boot
<1>7. CASE \E d \in Drivers, file \in Files : ReplaceFile(d, file)
  <2>1. PICK d \in Drivers, file \in Files : ReplaceFile(d, file)
    BY <1>7
  <2>2. files' \in [Drivers -> Files]
    BY <2>1 DEF ReplaceFile
  <2>3. UNCHANGED <<build, step, key, refused, load, image, locked, config, given>>
    BY <2>1 DEF ReplaceFile
  <2> QED BY <2>2, <2>3
<1>8. CASE UNCHANGED vars
  BY <1>8 DEF vars
<1> QED BY <1>2, <1>3, <1>4, <1>5, <1>6, <1>7, <1>8 DEF Next, Loader

LEMMA TypeNext == TypeOK /\ LoadInv /\ [Next]_vars => TypeOK'
<1> SUFFICES ASSUME TypeOK, LoadInv, [Next]_vars PROVE TypeOK'
  OBVIOUS
<1>1. Lists' /\ Slots' /\ Reg' /\ Rests'
  BY ListsNext, SlotsNext, RegNext, RestsNext
<1> QED BY <1>1 DEF TypeOK, Lists, Slots, Reg, Rests, RegType, Places

-----------------------------------------------------------------------------
(* Each part of the invariant is preserved                                 *)

LEMMA LoadNext == TypeOK /\ LoadInv /\ [Next]_vars => LoadInv'
<1> SUFFICES ASSUME TypeOK, LoadInv, [Next]_vars PROVE LoadInv'
  OBVIOUS
<1> USE DEF LoadInv
<1>1. CASE ReadDriver
  BY <1>1 DEF ReadDriver, InLoader
<1>2. CASE RunDriver \/ AskConfig \/ GetConfig \/ RegisterDriver
  BY <1>2 DEF RunDriver, AskConfig, GetConfig, RegisterDriver, InLoader
<1>3. CASE LoadImpossible \/ RefuseDriver \/ RelocateFails \/ DriverInitSucceeds \/ DriverInitFails
  BY <1>3 DEF LoadImpossible, RefuseDriver, RelocateFails, DriverInitSucceeds, DriverInitFails,
     Returns
<1>4. CASE UseBuiltin
  BY <1>4 DEF UseBuiltin, loading
<1>5. CASE Boot
  <2>1. load = "idle"
    BY <1>5 DEF Boot, ReadBoardJson, NoBoardJson, InitBoard, RegisterBoard, BoardDone,
       ConfigError, InitBuses, DriversDone, StartDriver, StartFails, ConfigDone, Fallback,
       ScanDrivers, ScanDone, StartServices
  <2>2. UNCHANGED loading
    BY <1>5 DEF Boot, ReadBoardJson, NoBoardJson, InitBoard, RegisterBoard, BoardDone,
       ConfigError, BoardConfigFails, BoardInit, InitBuses, DriversDone, StartDriver, StartFails,
       ConfigDone, Fallback, ScanDrivers, ScanDone, StartServices
  <2> QED BY <2>1, <2>2 DEF loading
<1>6. CASE (\E d \in Drivers, file \in Files : ReplaceFile(d, file)) \/ UNCHANGED vars
  BY <1>6 DEF ReplaceFile, loading, vars
<1> QED BY <1>1, <1>2, <1>3, <1>4, <1>5, <1>6 DEF Next, Loader

LEMMA KindsNext == TypeOK /\ KindsMatch(registry) /\ [Next]_vars => KindsMatch(registry)'
<1> SUFFICES ASSUME TypeOK, KindsMatch(registry), [Next]_vars PROVE KindsMatch(registry')
  BY DEF KindsMatch
<1>1. CASE registry' = registry
  BY <1>1
<1>2. CASE todo # <<>> /\ registry' = WithDriver(registry, Head(todo))
  BY <1>2, TypeParts, Rest, RegistrationKinds DEF Reg, Lists
<1> QED BY <1>1, <1>2, RegistryChange

LEMMA ConfigNext == TypeOK /\ LoadInv /\ ConfigIsOwn /\ [Next]_vars => ConfigIsOwn'
<1> SUFFICES ASSUME TypeOK, LoadInv, ConfigIsOwn, [Next]_vars PROVE ConfigIsOwn'
  OBVIOUS
<1> USE DEF ConfigIsOwn
<1>1. CASE GetConfig
  BY <1>1, TypeParts DEF GetConfig, InLoader, LoadInv, Rests
<1>2. CASE Loader /\ ~GetConfig
  BY <1>2 DEF Loader, UseBuiltin, LoadImpossible, ReadDriver, RunDriver, RefuseDriver,
     RelocateFails, AskConfig, RegisterDriver, DriverInitSucceeds, DriverInitFails, loading
<1>3. CASE Boot
  BY <1>3 DEF Boot, ReadBoardJson, NoBoardJson, InitBoard, RegisterBoard, BoardDone,
     ConfigError, BoardConfigFails, BoardInit, InitBuses, DriversDone, StartDriver, StartFails,
     ConfigDone, Fallback, ScanDrivers, ScanDone, StartServices, loading
<1>4. CASE (\E d \in Drivers, file \in Files : ReplaceFile(d, file)) \/ UNCHANGED vars
  BY <1>4 DEF ReplaceFile, loading, vars
<1> QED BY <1>1, <1>2, <1>3, <1>4 DEF Next

\* Registering a driver that is not registered yet.
LEMMA OneRegistered ==
    ASSUME TypeOK, LoadInv, KindsMatch(registry), OnceInv, step \in Registering, todo # <<>>,
           load # "registered"
    PROVE  /\ Head(todo) \in Drivers /\ Tail(todo) \in Seq(Drivers) /\ IsInjective(Tail(todo))
           /\ Once(WithDriver(registry, Head(todo)))
           /\ \A i \in DOMAIN Tail(todo) : /\ ~In(registry, Tail(todo)[i])
                                           /\ ~In(WithDriver(registry, Head(todo)), Tail(todo)[i])
<1>1. registry \in RegType /\ todo \in Seq(Drivers)
  BY TypeParts DEF Lists, Reg
<1>2. /\ Head(todo) \in Drivers /\ Tail(todo) \in Seq(Drivers)
      /\ 1 \in DOMAIN todo /\ todo[1] = Head(todo)
      /\ \A i \in DOMAIN Tail(todo) : i + 1 \in DOMAIN todo /\ Tail(todo)[i] = todo[i + 1]
      /\ IsInjective(Tail(todo)) /\ \A i \in DOMAIN Tail(todo) : Tail(todo)[i] # Head(todo)
  BY <1>1, Rest DEF OnceInv
<1>3. \A i \in DOMAIN todo : ~In(registry, todo[i])
  BY DEF OnceInv
<1>4. Once(WithDriver(registry, Head(todo)))
  BY <1>1, <1>2, <1>3, RegistrationKinds DEF OnceInv
<1>5. \A i \in DOMAIN Tail(todo) : Tail(todo)[i] \in Drivers
  BY <1>2, ElementOfSeq, LenProperties
<1>6. \A i \in DOMAIN Tail(todo) : ~In(WithDriver(registry, Head(todo)), Tail(todo)[i])
  BY <1>1, <1>2, <1>3, <1>5, Registration
<1> QED BY <1>2, <1>3, <1>4, <1>6

\* Going on with a list of drivers none of which is registered.
LEMMA NewList ==
    ASSUME registry' = EmptyRegistry, NEW S \in SUBSET Drivers, todo' \in SetToSeqs(S)
    PROVE  OnceInv'
<1>1. /\ todo' \in Seq(Drivers) /\ IsInjective(todo')
      /\ \A i \in DOMAIN todo' : todo'[i] \in Drivers
  BY Orders
<1>2. Once(registry') /\ \A d \in Drivers : ~In(registry', d)
  BY NothingRegistered
<1>3. \A i \in DOMAIN todo' : ~In(registry', todo'[i])
  BY <1>1, <1>2
<1> QED BY <1>1, <1>2, <1>3 DEF OnceInv, Once, In

LEMMA OnceNext ==
    TypeOK /\ LoadInv /\ KindsMatch(registry) /\ OnceInv /\ CodeInv /\ [Next]_vars => OnceInv'
<1> SUFFICES ASSUME TypeOK, LoadInv, KindsMatch(registry), OnceInv, CodeInv, [Next]_vars
             PROVE  OnceInv'
  OBVIOUS
<1> USE DEF Registering, OnBoard, Starting, BeforeDrivers
<1>1. CASE InitBoard \/ InitBuses \/ (Fallback /\ step' = "fallback register")
  <2>1. registry' = EmptyRegistry
    BY <1>1 DEF InitBoard, InitBuses, Fallback, BoardInit, CodeInv
  <2>2. todo' \in SetToSeqs(BoardDrivers) \/ todo' \in SetToSeqs(Listed)
    BY <1>1 DEF InitBoard, InitBuses, Fallback, BoardInit
  <2> QED BY <2>1, <2>2, NewList, DriversAssumption
<1>2. CASE RegisterBoard \/ UseBuiltin
  <2>1. step \in Registering /\ todo # <<>> /\ load # "registered" /\ step' = step
    BY <1>2 DEF RegisterBoard, UseBuiltin, LoadInv
  <2>2. registry' \in {registry, WithDriver(registry, Head(todo))} /\ todo' = Tail(todo)
    BY <1>2 DEF RegisterBoard, UseBuiltin
  <2>3. Once(registry') /\ IsInjective(todo') /\ \A i \in DOMAIN todo' : ~In(registry', todo'[i])
    BY <2>1, <2>2, OneRegistered DEF OnceInv
  <2> QED BY <2>3 DEF OnceInv, Once, In
<1>3. CASE RegisterDriver
  <2>1. /\ step \in {"drivers", "scan"} /\ todo # <<>> /\ load # "registered"
        /\ UNCHANGED <<step, todo>>
        /\ registry' = WithDriver(registry, Head(todo)) /\ load' = "registered"
    BY <1>3 DEF RegisterDriver, InLoader
  <2>2. CASE step = "scan"
    BY <2>1, <2>2 DEF OnceInv
  <2>3. CASE step = "drivers"
    <3>1. /\ IsInjective(todo') /\ Once(registry')
          /\ \A i \in DOMAIN Tail(todo) : ~In(registry', Tail(todo)[i])
      BY <2>1, <2>3, OneRegistered DEF OnceInv
    <3>2. \A i \in DOMAIN todo : i # 1 => i - 1 \in DOMAIN Tail(todo) /\ todo[i] = Tail(todo)[i - 1]
      <4>1. /\ Len(Tail(todo)) = Len(todo) - 1 /\ Tail(todo) \in Seq(Drivers)
            /\ todo \in Seq(Drivers)
            /\ \A i \in 1 .. Len(Tail(todo)) : Tail(todo)[i] = todo[i + 1]
        BY <2>1, HeadTailProperties, TypeParts DEF Lists
      <4>2. DOMAIN todo = 1 .. Len(todo) /\ DOMAIN Tail(todo) = 1 .. Len(todo) - 1 /\ Len(todo) \in Nat
        BY <4>1, LenProperties
      <4>3. \A n \in Nat : \A i \in 1 .. n : i # 1 => i - 1 \in 1 .. n - 1 /\ (i - 1) + 1 = i
        OBVIOUS
      <4> QED BY <4>1, <4>2, <4>3
    <3>3. \A i \in DOMAIN todo : In(registry', todo[i]) => i = 1
      BY <3>1, <3>2
    <3> QED BY <2>1, <3>1, <3>3 DEF OnceInv, Once, In
  <2> QED BY <2>1, <2>2, <2>3
<1>4. CASE LoadImpossible \/ RefuseDriver \/ RelocateFails \/ DriverInitSucceeds \/ DriverInitFails
  <2>1. /\ step \in {"drivers", "scan"} /\ todo # <<>> /\ todo' = Tail(todo)
        /\ UNCHANGED <<step, registry>>
    BY <1>4 DEF LoadImpossible, RefuseDriver, RelocateFails, DriverInitSucceeds, DriverInitFails,
       Returns, InLoader
  <2>2. CASE step = "drivers"
    <3>1. \A i \in DOMAIN Tail(todo) : /\ i + 1 \in DOMAIN todo /\ i \in Nat /\ i + 1 # 1
                                       /\ Tail(todo)[i] = todo[i + 1]
      BY <2>1, Rest, TypeParts DEF Lists
    <3>2. \A i \in DOMAIN Tail(todo) : ~In(registry, Tail(todo)[i])
      BY <2>2, <3>1 DEF OnceInv
    <3>3. IsInjective(Tail(todo))
      BY <2>1, <2>2, Rest, TypeParts DEF Lists, OnceInv
    <3> QED BY <2>1, <2>2, <3>2, <3>3 DEF OnceInv, Once, In
  <2> QED BY <2>1, <2>2 DEF OnceInv, Once
<1>5. CASE ReadDriver \/ RunDriver \/ AskConfig \/ GetConfig
  <2>1. load # "registered" /\ UNCHANGED <<step, registry, todo>>
    BY <1>5 DEF ReadDriver, RunDriver, AskConfig, GetConfig
  <2> QED BY <2>1 DEF OnceInv, Once, In
<1>6. CASE BoardDone \/ DriversDone \/ StartDriver \/ StartFails \/ (Fallback /\ step' = "fallback start")
  <2>1. step' \in Starting /\ registry' = registry
    BY <1>6 DEF BoardDone, DriversDone, StartDriver, StartFails, Fallback, BoardInit
  <2>2. step \in Registering \cup Starting \cup BeforeDrivers
    BY <1>6 DEF BoardDone, DriversDone, StartDriver, StartFails, Fallback
  <2> QED BY <2>1, <2>2 DEF OnceInv, Once
<1>7. CASE ReadBoardJson \/ NoBoardJson \/ ConfigError
  <2>1. step \in BeforeDrivers /\ step' \in BeforeDrivers /\ registry' = registry
    BY <1>7 DEF ReadBoardJson, NoBoardJson, ConfigError, BoardConfigFails
  <2> QED BY <2>1 DEF OnceInv, Once
<1>8. CASE ConfigDone \/ ScanDrivers \/ ScanDone \/ StartServices
  BY <1>8 DEF ConfigDone, ScanDrivers, ScanDone, StartServices, OnceInv
<1>9. CASE (\E d \in Drivers, file \in Files : ReplaceFile(d, file)) \/ UNCHANGED vars
  <2>1. UNCHANGED <<step, registry, todo, load>>
    BY <1>9 DEF ReplaceFile, loading, vars
  <2> QED BY <2>1 DEF OnceInv, Once, In
<1>10. CASE Fallback
  BY <1>1, <1>6, <1>10 DEF Fallback, BoardInit
<1> QED BY <1>1, <1>2, <1>3, <1>4, <1>5, <1>6, <1>7, <1>8, <1>9, <1>10 DEF Next, Boot, Loader

\* The code of what is registered, part by part.
OnBoardIsBuiltin ==
    /\ step \in OnBoard => \A i \in DOMAIN todo : todo[i] \in Builtin
    /\ step \in OnBoard \cup {"fallback start"} => \A d \in Drivers : In(registry, d) => d \in Builtin

There(d) ==
    \/ build = "sim" \/ d \in Builtin \/ \E i \in DOMAIN loaded : loaded[i] = d
    \/ load = "registered" /\ d = Head(todo)

LEMMA EmptyNext == CodeInv /\ [Next]_vars => (step \in BeforeDrivers => registry = EmptyRegistry)'
<1> SUFFICES ASSUME CodeInv, [Next]_vars, step' \in BeforeDrivers
             PROVE  step \in BeforeDrivers /\ registry' = registry
  BY DEF CodeInv
<1> USE DEF BeforeDrivers
<1>1. CASE Loader
  BY <1>1 DEF Loader, UseBuiltin, LoadImpossible, ReadDriver, RunDriver, RefuseDriver,
     RelocateFails, AskConfig, GetConfig, RegisterDriver, DriverInitSucceeds, DriverInitFails,
     InLoader
<1>2. CASE Boot
  BY <1>2 DEF Boot, ReadBoardJson, NoBoardJson, InitBoard, RegisterBoard, BoardDone,
     ConfigError, BoardConfigFails, BoardInit, InitBuses, DriversDone, StartDriver, StartFails,
     ConfigDone, Fallback, ScanDrivers, ScanDone, StartServices
<1>3. CASE (\E d \in Drivers, file \in Files : ReplaceFile(d, file)) \/ UNCHANGED vars
  BY <1>3 DEF ReplaceFile, vars
<1> QED BY <1>1, <1>2, <1>3 DEF Next

LEMMA BoardNext == TypeOK /\ CodeInv /\ [Next]_vars => OnBoardIsBuiltin'
<1> SUFFICES ASSUME TypeOK, CodeInv, [Next]_vars PROVE OnBoardIsBuiltin'
  OBVIOUS
<1> USE DEF OnBoard, BeforeDrivers
<1>1. CASE InitBoard \/ Fallback
  <2>1. registry' = EmptyRegistry
    BY <1>1 DEF InitBoard, Fallback, BoardInit, CodeInv
  <2>2. todo' \in SetToSeqs(BoardDrivers) \/ step' = "fallback start"
    BY <1>1 DEF InitBoard, Fallback, BoardInit
  <2>3. step' \in OnBoard => \A i \in DOMAIN todo' : todo'[i] \in Builtin
    BY <2>2, Orders, DriversAssumption
  <2> QED BY <2>1, <2>3, NothingRegistered DEF OnBoardIsBuiltin, In
<1>2. CASE RegisterBoard
  <2>1. /\ step \in OnBoard /\ todo # <<>> /\ todo \in Seq(Drivers) /\ todo' = Tail(todo)
        /\ registry \in RegType /\ registry' = WithDriver(registry, Head(todo)) /\ step' = step
    BY <1>2, TypeParts DEF RegisterBoard, Lists, Reg
  <2>2. /\ Head(todo) \in Drivers /\ Head(todo) \in Builtin
        /\ \A i \in DOMAIN Tail(todo) : Tail(todo)[i] \in Builtin
    BY <2>1, Rest DEF CodeInv
  <2>3. \A d \in Drivers : In(registry', d) => d \in Builtin
    BY <2>1, <2>2, Registration DEF CodeInv
  <2> QED BY <2>1, <2>2, <2>3 DEF OnBoardIsBuiltin, In
<1>3. CASE BoardDone \/ StartDriver \/ StartFails
  <2>1. /\ step' = "fallback start" => step \in OnBoard \cup {"fallback start"}
        /\ step' \notin OnBoard /\ registry' = registry
    BY <1>3 DEF BoardDone, StartDriver, StartFails
  <2> QED BY <2>1 DEF OnBoardIsBuiltin, CodeInv, In
<1>4. CASE Loader
  BY <1>4 DEF Loader, UseBuiltin, LoadImpossible, ReadDriver, RunDriver, RefuseDriver,
     RelocateFails, AskConfig, GetConfig, RegisterDriver, DriverInitSucceeds, DriverInitFails,
     InLoader, OnBoardIsBuiltin
<1>5. CASE \/ ReadBoardJson \/ NoBoardJson \/ ConfigError \/ InitBuses \/ DriversDone
           \/ ConfigDone \/ ScanDrivers \/ ScanDone \/ StartServices
  BY <1>5 DEF ReadBoardJson, NoBoardJson, ConfigError, BoardConfigFails, InitBuses, DriversDone,
     ConfigDone, ScanDrivers, ScanDone, StartServices, OnBoardIsBuiltin
<1>6. CASE (\E d \in Drivers, file \in Files : ReplaceFile(d, file)) \/ UNCHANGED vars
  <2>1. UNCHANGED <<step, registry, todo>>
    BY <1>6 DEF ReplaceFile, vars
  <2> QED BY <2>1 DEF OnBoardIsBuiltin, CodeInv, In
<1> QED BY <1>1, <1>2, <1>3, <1>4, <1>5, <1>6 DEF Next, Boot

LEMMA ThereNext ==
    TypeOK /\ LoadInv /\ CodeInv /\ [Next]_vars => (\A d \in Drivers : In(registry, d) => There(d))'
<1> SUFFICES ASSUME TypeOK, LoadInv, CodeInv, [Next]_vars, NEW d \in Drivers, In(registry', d)
             PROVE  There(d)'
  BY DEF In
<1> USE DEF There
<1>1. CASE RegisterBoard
  <2>1. step' \in OnBoard /\ OnBoardIsBuiltin'
    BY <1>1, BoardNext DEF RegisterBoard, OnBoard
  <2> QED BY <2>1 DEF OnBoardIsBuiltin, In
<1>2. CASE UseBuiltin
  <2>1. CASE registry' = registry
    BY <1>2, <2>1 DEF UseBuiltin, CodeInv, loading
  <2>2. CASE Head(todo) \in Builtin /\ registry' = WithDriver(registry, Head(todo))
    <3>1. In(registry, d) \/ d = Head(todo)
      BY <1>2, <2>2, Rest, Registration, TypeParts DEF UseBuiltin, Lists, Reg
    <3> QED BY <1>2, <2>2, <3>1 DEF UseBuiltin, CodeInv, loading
  <2> QED BY <1>2, <2>1, <2>2 DEF UseBuiltin
<1>3. CASE RegisterDriver
  <2>1. In(registry, d) \/ d = Head(todo)
    BY <1>3, Rest, Registration, TypeParts DEF RegisterDriver, InLoader, Lists, Reg
  <2> QED BY <1>3, <2>1 DEF RegisterDriver, CodeInv
<1>4. CASE DriverInitSucceeds
  <2>1. Head(todo) \in Drivers /\ loaded \in Seq(Drivers)
    BY <1>4, Rest, TypeParts DEF DriverInitSucceeds, InLoader, Lists, Slots
  <2>2. /\ loaded' = Append(loaded, Head(todo)) /\ UNCHANGED <<build, registry>>
    BY <1>4 DEF DriverInitSucceeds
  <2>3. \A e \in {loaded[i] : i \in DOMAIN loaded} \cup {Head(todo)} :
            \E i \in DOMAIN loaded' : loaded'[i] = e
    BY <2>1, <2>2, OneMore
  <2>4. \/ build = "sim" \/ d \in Builtin \/ d \in {loaded[i] : i \in DOMAIN loaded} \cup {Head(todo)}
    BY <2>2 DEF CodeInv
  <2> QED BY <2>2, <2>3, <2>4
<1>5. CASE InitBuses
  <2>1. registry' = EmptyRegistry
    BY <1>5 DEF InitBuses, CodeInv, BeforeDrivers
  <2> QED BY <2>1, NothingRegistered
<1>6. CASE ScanDrivers
  BY <1>6 DEF ScanDrivers, CodeInv
<1>7. CASE \/ LoadImpossible \/ ReadDriver \/ RunDriver \/ RefuseDriver \/ RelocateFails
           \/ AskConfig \/ GetConfig \/ DriverInitFails
  <2>1. load # "registered" /\ UNCHANGED <<build, registry, loaded>>
    BY <1>7 DEF LoadImpossible, ReadDriver, RunDriver, RefuseDriver, RelocateFails, AskConfig,
       GetConfig, DriverInitFails
  <2> QED BY <2>1 DEF CodeInv
<1>8. CASE Boot /\ ~RegisterBoard /\ ~InitBuses /\ ~ScanDrivers
  <2>1. UNCHANGED <<build, registry, loaded>>
    BY <1>8 DEF Boot, ReadBoardJson, NoBoardJson, InitBoard, BoardDone, ConfigError,
       BoardConfigFails, BoardInit, DriversDone, StartDriver, StartFails, ConfigDone, Fallback,
       ScanDone, StartServices
  <2>2. load # "registered"
    BY <1>8 DEF Boot, ReadBoardJson, NoBoardJson, InitBoard, BoardDone, ConfigError,
       DriversDone, StartDriver, StartFails, ConfigDone, Fallback, ScanDone, StartServices,
       LoadInv
  <2> QED BY <2>1, <2>2 DEF CodeInv
<1>9. CASE (\E e \in Drivers, file \in Files : ReplaceFile(e, file)) \/ UNCHANGED vars
  <2>1. UNCHANGED <<build, registry, loaded, load, todo>>
    BY <1>9 DEF ReplaceFile, loading, vars
  <2> QED BY <2>1 DEF CodeInv
<1> QED BY <1>1, <1>2, <1>3, <1>4, <1>5, <1>6, <1>7, <1>8, <1>9 DEF Next, Loader

LEMMA CodeNext == TypeOK /\ LoadInv /\ CodeInv /\ [Next]_vars => CodeInv'
<1> SUFFICES ASSUME TypeOK, LoadInv, CodeInv, [Next]_vars PROVE CodeInv'
  OBVIOUS
<1>1. (step \in BeforeDrivers => registry = EmptyRegistry)'
  BY EmptyNext
<1>2. OnBoardIsBuiltin'
  BY BoardNext
<1>3. (\A d \in Drivers : In(registry, d) => There(d))'
  BY ThereNext
<1> QED BY <1>1, <1>2, <1>3 DEF CodeInv, OnBoardIsBuiltin, There

\* Before everything is registered nothing is started; a step of the registration
\* leads to the next or to the start.
LEMMA StartNext ==
    TypeOK /\ KindsMatch(registry) /\ OnceInv /\ StartInv /\ [Next]_vars => StartInv'
<1> SUFFICES ASSUME TypeOK, KindsMatch(registry), OnceInv, StartInv, [Next]_vars PROVE StartInv'
  OBVIOUS
<1> USE DEF BeforeDrivers, Registering, OnBoard, Starting
<1>1. CASE BoardDone \/ DriversDone \/ (Fallback /\ step' = "fallback start")
  <2>1. /\ step \in BeforeDrivers \cup Registering /\ step' \in Starting
        /\ todo' = StartOrder(registry) /\ started' = started
    BY <1>1 DEF BoardDone, DriversDone, Fallback, BoardInit
  <2>2. IsInjective(StartOrder(registry))
    BY <2>1, StartsEachOnce, TypeParts DEF Reg, OnceInv
  <2>3. started = <<>>
    BY <2>1 DEF StartInv
  <2>4. DOMAIN <<>> = {}
    OBVIOUS
  <2> QED BY <2>1, <2>2, <2>3, <2>4 DEF StartInv
<1>2. CASE StartDriver \/ StartFails
  <2>1. /\ step \in Starting /\ step' = step /\ todo # <<>> /\ todo \in Seq(Drivers)
        /\ started' = Append(started, Head(todo)) /\ todo' \in {<<>>, Tail(todo)}
        /\ started \in Seq(Drivers)
    BY <1>2, TypeParts DEF StartDriver, StartFails, Lists
  <2>2. /\ Head(todo) \in Drivers /\ 1 \in DOMAIN todo /\ todo[1] = Head(todo)
        /\ \A i \in DOMAIN Tail(todo) : i + 1 \in DOMAIN todo /\ Tail(todo)[i] = todo[i + 1]
        /\ IsInjective(Tail(todo)) /\ \A i \in DOMAIN Tail(todo) : Tail(todo)[i] # Head(todo)
    BY <2>1, Rest DEF StartInv
  <2>3. \A i \in DOMAIN started : started[i] # Head(todo)
    BY <2>1, <2>2 DEF StartInv
  <2>4. /\ IsInjective(started')
        /\ \A i \in DOMAIN started' :
              started'[i] = Head(todo) \/ (i \in DOMAIN started /\ started'[i] = started[i])
    <3>1. IsInjective(started)
      BY DEF StartInv
    <3>2. started \in Seq(Drivers) /\ Head(todo) \in Drivers
      BY <2>1, <2>2
    <3>3. IsInjective(Append(started, Head(todo)))
      BY <2>3, <3>1, <3>2, OneMore
    <3>4. \A i \in DOMAIN Append(started, Head(todo)) :
             \/ Append(started, Head(todo))[i] = Head(todo)
             \/ i \in DOMAIN started /\ Append(started, Head(todo))[i] = started[i]
      BY <3>2, OneMore
    <3> QED BY <2>1, <3>3, <3>4
  <2>5. \A i \in DOMAIN started', j \in DOMAIN Tail(todo) : started'[i] # Tail(todo)[j]
    <3>1. \A i \in DOMAIN started, j \in DOMAIN todo : started[i] # todo[j]
      BY <2>1 DEF StartInv
    <3> SUFFICES ASSUME NEW i \in DOMAIN started', NEW j \in DOMAIN Tail(todo)
                 PROVE  started'[i] # Tail(todo)[j]
      OBVIOUS
    <3>2. j + 1 \in DOMAIN todo /\ Tail(todo)[j] = todo[j + 1] /\ Tail(todo)[j] # Head(todo)
      BY <2>2
    <3>3. CASE started'[i] = Head(todo)
      BY <3>2, <3>3
    <3>4. CASE i \in DOMAIN started /\ started'[i] = started[i]
      BY <3>1, <3>2, <3>4
    <3> QED BY <2>4, <3>3, <3>4
  <2>6. IsInjective(todo') /\ \A i \in DOMAIN started', j \in DOMAIN todo' : started'[i] # todo'[j]
    <3>1. CASE todo' = <<>>
      BY <3>1 DEF IsInjective
    <3>2. CASE todo' = Tail(todo)
      BY <2>2, <2>5, <3>2
    <3> QED BY <2>1, <3>1, <3>2
  <2> QED BY <2>1, <2>4, <2>6 DEF StartInv
<1>3. CASE \/ ReadBoardJson \/ NoBoardJson \/ InitBoard \/ RegisterBoard \/ ConfigError \/ InitBuses
           \/ (Fallback /\ step' = "fallback register")
  <2>1. /\ step \in BeforeDrivers \cup Registering /\ step' \notin Starting
        /\ started' = started
    BY <1>3 DEF ReadBoardJson, NoBoardJson, InitBoard, RegisterBoard, ConfigError,
       BoardConfigFails, InitBuses, Fallback, BoardInit
  <2> QED BY <2>1 DEF StartInv
<1>4. CASE ConfigDone \/ ScanDrivers \/ ScanDone \/ StartServices
  <2>1. step' \notin BeforeDrivers \cup Registering \cup Starting /\ started' = started
    BY <1>4 DEF ConfigDone, ScanDrivers, ScanDone, StartServices
  <2> QED BY <2>1 DEF StartInv
<1>5. CASE Loader
  <2>1. /\ step' = step /\ step \notin Starting /\ started' = started
    BY <1>5 DEF Loader, UseBuiltin, LoadImpossible, ReadDriver, RunDriver, RefuseDriver,
       RelocateFails, AskConfig, GetConfig, RegisterDriver, DriverInitSucceeds, DriverInitFails,
       InLoader
  <2> QED BY <2>1 DEF StartInv
<1>6. CASE (\E d \in Drivers, file \in Files : ReplaceFile(d, file)) \/ UNCHANGED vars
  <2>1. UNCHANGED <<step, todo, started>>
    BY <1>6 DEF ReplaceFile, vars
  <2> QED BY <2>1 DEF StartInv
<1>7. CASE Fallback
  BY <1>1, <1>3, <1>7 DEF Fallback, BoardInit
<1> QED BY <1>1, <1>2, <1>3, <1>4, <1>5, <1>6, <1>7 DEF Next, Boot

LEMMA BootInit == Init => BootInv
<1> SUFFICES ASSUME Init PROVE BootInv
  OBVIOUS
<1>1. KindsMatch(registry) /\ Once(registry) /\ \A d \in Drivers : ~In(registry, d)
  BY NothingRegistered DEF Init
<1>2. LoadInv /\ ConfigIsOwn
  BY DEF Init, LoadInv, ConfigIsOwn
<1>3. OnceInv
  BY <1>1 DEF Init, OnceInv, Registering, OnBoard
<1>4. CodeInv
  BY <1>1 DEF Init, CodeInv, OnBoard
<1>5. StartInv
  BY DEF Init, StartInv, Starting, IsInjective
<1> QED BY <1>1, <1>2, <1>3, <1>4, <1>5 DEF BootInv

LEMMA BootNext == TypeOK /\ BootInv /\ [Next]_vars => TypeOK' /\ BootInv'
<1> SUFFICES ASSUME TypeOK, BootInv, [Next]_vars PROVE TypeOK' /\ BootInv'
  OBVIOUS
<1> USE DEF BootInv
<1>1. TypeOK' /\ LoadInv'
  BY TypeNext, LoadNext
<1>2. KindsMatch(registry)' /\ OnceInv' /\ CodeInv'
  BY KindsNext, OnceNext, CodeNext
<1>3. StartInv' /\ ConfigIsOwn'
  BY StartNext, ConfigNext
<1> QED BY <1>1, <1>2, <1>3

LEMMA Inductive == Spec => [](TypeOK /\ BootInv)
<1>1. Init => TypeOK /\ BootInv
  BY TypeInit, BootInit
<1>2. TypeOK /\ BootInv /\ [Next]_vars => (TypeOK /\ BootInv)'
  BY BootNext
<1> QED BY <1>1, <1>2, PTL DEF Spec

-----------------------------------------------------------------------------
(* Theorems                                                                *)

\* Every variable keeps its type: neither the loader's slots nor the places of the
\* registry are ever exceeded, whichever drivers a board lists (driver_loader.rs,
\* hal_registry.rs).
THEOREM TypeCorrect == Spec => []TypeOK
BY Inductive, PTL

\* Whatever fails and is started over, each driver is started once, from code that
\* is there, and with its own configuration (kernel_init).
THEOREM DriversSound == Spec => []DriversAreSound
<1>1. TypeOK /\ BootInv => DriversAreSound
  <2> SUFFICES ASSUME TypeOK, BootInv PROVE DriversAreSound
    OBVIOUS
  <2>1. EachStartedOnce /\ ConfigIsOwn
    BY DEF BootInv, StartInv, EachStartedOnce
  <2>2. \A d \in Registered(registry) : d \in Drivers /\ In(registry, d)
    BY StartsWhatIsRegistered, TypeParts DEF Reg
  <2>3. RegistryIsExecutable
    BY <2>2 DEF BootInv, CodeInv, RegistryIsExecutable, Range
  <2> QED BY <2>1, <2>3 DEF DriversAreSound
<1> QED BY <1>1, Inductive, PTL

\* On the device only bytes that the verifier accepted, or in a debug build bytes
\* without a signature, are entered; a file that is exchanged after it was read
\* does not change this (driver_signature_allows_load).
THEOREM TamperedNeverRun == Spec => TamperedNeverRuns
<1>1. ASSUME [Next]_vars, load = "read", load' = "init"
      PROVE  image = "vendor" \/ SignatureAbsent(files[Head(todo)])
  <2>1. RunDriver
    <3>1. CASE Loader
      BY <1>1, <3>1 DEF Loader, UseBuiltin, LoadImpossible, ReadDriver, RefuseDriver,
         RelocateFails, AskConfig, GetConfig, RegisterDriver, DriverInitSucceeds,
         DriverInitFails, Returns
    <3>2. CASE Boot
      BY <1>1, <3>2 DEF Boot, ReadBoardJson, NoBoardJson, InitBoard, RegisterBoard, BoardDone,
         ConfigError, BoardConfigFails, BoardInit, InitBuses, DriversDone, StartDriver,
         StartFails, ConfigDone, Fallback, ScanDrivers, ScanDone, StartServices, loading
    <3>3. CASE (\E d \in Drivers, file \in Files : ReplaceFile(d, file)) \/ UNCHANGED vars
      BY <1>1, <3>3 DEF ReplaceFile, vars, loading
    <3> QED BY <1>1, <3>1, <3>2, <3>3 DEF Next
  <2> QED BY <2>1 DEF RunDriver, SignatureAllowsLoad, SignatureValid
<1>2. [Next]_vars => [load = "read" /\ load' = "init" =>
                        image = "vendor" \/ SignatureAbsent(files[Head(todo)])]_vars
  BY <1>1
<1> QED BY <1>2, PTL DEF Spec, TamperedNeverRuns

-----------------------------------------------------------------------------
(* The panels and the sound                                                *)

\* What the drivers do once they are started. A refused command is what the invariants leave
\* room for: an OLED makes up for it with the next flush, an e-paper panel that slept
\* through a refresh with the next full one, and the sound may keep a channel it thinks is
\* stopped.

CONSTANTS
    Screens,     \* the displays: "st7789", "ili9341", "ssd1306", "co5300", "gdeq"
    Rows,        \* rows of the screen
    Percents,    \* brightness that is asked for
    Sounds,      \* samples that are played
    MaxFaults    \* bound: commands the bus refuses

VARIABLES
    kind,     \* the display of the board
    pin,      \* its backlight or reset is connected
    up,       \* s.initialized
    chip,     \* the display is on, the chip sleeps, and the light
    memory,   \* s.brightness
    fb,       \* the driver's framebuffer
    old,      \* fb_old: the picture before (gdeq)
    ram,      \* what the panel has been sent; for e-paper, what it shows
    mode,     \* the next refresh is the first one, a full or a fast one
    level,    \* ghost: the brightness that was last set
    believed, \* ghost: what sleep returned
    drawn,    \* ghost: the picture that was flushed
    synced,   \* ghost: whether the last flush went well and has been refreshed
    audio,    \* the sound: ready, playing, volume, rate and slot
    channel,  \* the channel of the I2S peripheral is enabled
    heard,    \* the last sample and what was written of it
    faults    \* commands refused so far

Panel == INSTANCE Panels WITH Kinds <- Screens

\* The framebuffer has what was flushed; the panel has it after a flush or a refresh that
\* went well; and an e-paper panel shows fb_old between refreshes, unless one met a panel
\* that slept.
PictureInv ==
    up = TRUE =>
        /\ kind \notin {"gdeq", "ssd1306"} => ram = drawn
        /\ kind = "ssd1306" => fb = drawn /\ (synced = "yes" => ram = drawn)
        /\ kind = "gdeq" =>
              /\ \A r \in 0..Rows - 1 : fb[Panel!Mirrored(r)] = drawn[r]
              /\ synced = "yes" => \A r \in 0..Rows - 1 : ram[r] = fb[r]
              /\ mode # "first" /\ synced # "no" => \A r \in 0..Rows - 1 : ram[r] = old[r]

\* Upside down, every row has one place on the screen.
LEMMA MirroredTwice ==
    ASSUME Rows \in Nat, NEW r \in 0..Rows - 1
    PROVE  /\ Panel!Mirrored(r) \in 0..Rows - 1
           /\ \A y \in 0..Rows : Panel!Mirrored(y) = Panel!Mirrored(r) <=> y = r
BY DEF Panel!Mirrored

\* init leaves a picture of the driver's own.
LEMMA PanelStarted ==
    ASSUME Rows \in Nat, Panel!DisplayInit
    PROVE  PictureInv'
<1>1. up' = TRUE /\ kind' = kind /\ mode' = "first"
      /\ synced' = IF kind = "gdeq" THEN "due" ELSE "yes"
  BY DEF Panel!DisplayInit
<1>2. CASE kind = "gdeq"
  <2>1. fb' = Panel!Blank /\ drawn' = Panel!Blank
    BY <1>2 DEF Panel!DisplayInit
  <2>2. \A r \in 0..Rows - 1 : Panel!Blank[Panel!Mirrored(r)] = Panel!Blank[r]
    BY MirroredTwice DEF Panel!Blank
  <2> QED
    BY <1>1, <1>2, <2>1, <2>2 DEF PictureInv
<1>3. CASE kind = "ssd1306"
  <2>1. fb' = Panel!Blank /\ ram' = Panel!Blank /\ drawn' = Panel!Blank
    BY <1>3 DEF Panel!DisplayInit
  <2> QED
    BY <1>1, <1>3, <2>1 DEF PictureInv
<1>4. CASE kind \notin {"gdeq", "ssd1306"}
  <2>1. ram' = ram /\ drawn' = ram
    BY <1>4 DEF Panel!DisplayInit
  <2> QED
    BY <1>1, <1>4, <2>1 DEF PictureInv
<1> QED
  BY <1>2, <1>3, <1>4

\* An LCD or AMOLED panel is sent the area that is flushed.
LEMMA AreaSent ==
    ASSUME PictureInv, NEW first, NEW last, NEW colour, NEW denied \in BOOLEAN,
           kind \notin {"gdeq", "ssd1306"}, Panel!Sent(first, last, colour, denied)
    PROVE  PictureInv'
<1>1. up' = up /\ kind' = kind
  BY DEF Panel!Sent
<1>2. CASE denied
  BY <1>1, <1>2 DEF Panel!Sent, PictureInv
<1>3. CASE ~denied
  <2>1. /\ ram' = Panel!Painted(ram, first, last, colour, Panel!Straight)
        /\ drawn' = Panel!Painted(drawn, first, last, colour, Panel!Straight)
    BY <1>3, Zenon DEF Panel!Sent
  <2> QED
    BY <1>1, <2>1, Zenon DEF PictureInv
<1> QED
  BY <1>2, <1>3

\* ssd1306_flush.
LEMMA OledFlushed ==
    ASSUME PictureInv, NEW first, NEW last, NEW colour, NEW denied \in BOOLEAN,
           Panel!FlushOled(first, last, colour, denied)
    PROVE  PictureInv'
<1>1. up' = up /\ kind' = kind /\ kind = "ssd1306" /\ up = TRUE
      /\ synced' = (IF denied THEN "due" ELSE "yes") /\ ram' = (IF denied THEN ram ELSE fb')
  BY Zenon DEF Panel!FlushOled
<1>2. /\ fb' = Panel!Painted(fb, first, last, colour, Panel!Straight)
      /\ drawn' = Panel!Painted(drawn, first, last, colour, Panel!Straight)
  BY Zenon DEF Panel!FlushOled
<1>3. fb = drawn
  BY <1>1 DEF PictureInv
<1>4. fb' = drawn'
  BY <1>2, <1>3, Zenon
<1> QED
  BY <1>1, <1>4 DEF PictureInv

\* gdeq031t10_flush turns the area upside down.
LEMMA EpaperFlushed ==
    ASSUME Rows \in Nat, PictureInv, NEW first \in 0..Rows, NEW last \in 0..Rows, NEW colour,
           Panel!FlushEpaper(first, last, colour)
    PROVE  PictureInv'
<1>1. /\ up = TRUE /\ kind = "gdeq" /\ synced' = (IF synced = "yes" THEN "due" ELSE synced)
      /\ UNCHANGED <<kind, up, old, ram, mode>>
  BY DEF Panel!FlushEpaper
<1>2. /\ fb' = [r \in 0..Rows - 1 |-> IF \E y \in first..last : y < Rows /\ Panel!Mirrored(y) = r
                                     THEN colour ELSE fb[r]]
      /\ drawn' = [r \in 0..Rows - 1 |-> IF \E y \in first..last : y < Rows /\ y = r
                                        THEN colour ELSE drawn[r]]
  BY Zenon DEF Panel!FlushEpaper, Panel!Painted, Panel!Straight
<1>3. \A r \in 0..Rows - 1 : fb[Panel!Mirrored(r)] = drawn[r]
  BY <1>1 DEF PictureInv
<1>4. ASSUME NEW r \in 0..Rows - 1 PROVE fb'[Panel!Mirrored(r)] = drawn'[r]
  <2>1. Panel!Mirrored(r) \in 0..Rows - 1
    BY MirroredTwice
  <2>2. \A y \in first..last : y \in 0..Rows
    OBVIOUS
  <2>3. (\E y \in first..last : y < Rows /\ Panel!Mirrored(y) = Panel!Mirrored(r))
        <=> (\E y \in first..last : y < Rows /\ y = r)
    BY <2>2, MirroredTwice
  <2>4. fb'[Panel!Mirrored(r)] =
           IF \E y \in first..last : y < Rows /\ Panel!Mirrored(y) = Panel!Mirrored(r)
                                THEN colour ELSE fb[Panel!Mirrored(r)]
    BY <1>2, <2>1
  <2>5. drawn'[r] = IF \E y \in first..last : y < Rows /\ y = r THEN colour ELSE drawn[r]
    BY <1>2
  <2> QED
    BY <1>3, <2>3, <2>4, <2>5, Zenon
<1>5. synced' # "yes" /\ (synced' # "no" => synced # "no")
  BY <1>1
<1> QED
  BY <1>1, <1>4, <1>5 DEF PictureInv

\* gdeq031t10_refresh: a row changes if it differs from fb_old, which is what the panel
\* shows.
LEMMA EpaperRefreshed ==
    ASSUME PictureInv, Panel!Refresh
    PROVE  PictureInv'
<1>1. /\ up = TRUE /\ kind = "gdeq" /\ old' = fb /\ mode' = "fast"
      /\ synced' = (IF chip.asleep \/ (mode = "fast" /\ synced = "no") THEN "no" ELSE "yes")
      /\ UNCHANGED <<kind, up, fb, drawn>>
  BY DEF Panel!Refresh
<1>2. ram' = IF chip.asleep THEN ram
             ELSE IF mode # "fast" THEN fb
             ELSE [r \in 0..Rows - 1 |-> IF fb[r] # old[r] THEN fb[r] ELSE ram[r]]
  BY DEF Panel!Refresh
<1>3. ASSUME synced' # "no" PROVE \A r \in 0..Rows - 1 : ram'[r] = fb[r]
  <2>1. ~chip.asleep /\ (mode = "fast" => synced # "no")
    BY <1>1, <1>3
  <2>2. CASE mode # "fast"
    BY <1>2, <2>1, <2>2
  <2>3. CASE mode = "fast"
    <3>1. ram' = [r \in 0..Rows - 1 |-> IF fb[r] # old[r] THEN fb[r] ELSE ram[r]]
      BY <1>2, <2>1, <2>3
    <3>2. \A r \in 0..Rows - 1 : ram[r] = old[r]
      BY <1>1, <2>1, <2>3 DEF PictureInv
    <3> QED
      BY <3>1, <3>2
  <2> QED
    BY <2>2, <2>3
<1>4. synced' = "no" \/ synced' # "no"
  OBVIOUS
<1> QED
  BY <1>1, <1>3 DEF PictureInv

\* gdeq031t10_refresh of a picture that has not changed: the panel shows it.
LEMMA EpaperSkipped ==
    ASSUME PictureInv, Panel!RefreshSkips
    PROVE  PictureInv'
<1>1. /\ up = TRUE /\ kind = "gdeq" /\ mode # "first" /\ fb = old
      /\ synced' = (IF synced = "no" THEN "no" ELSE "yes")
      /\ UNCHANGED <<kind, up, fb, old, ram, mode, drawn>>
  BY DEF Panel!RefreshSkips, Panel!NothingNew
<1> QED
  BY <1>1 DEF PictureInv

\* Every step of the displays and of the sound keeps the invariant.
LEMMA PictureInvInductive ==
    ASSUME Rows \in Nat
    PROVE  PictureInv /\ [Panel!Next]_Panel!vars => PictureInv'
<1> SUFFICES ASSUME PictureInv, [Panel!Next]_Panel!vars
             PROVE  PictureInv'
  OBVIOUS
<1>1. CASE UNCHANGED <<kind, up, fb, old, ram, mode, drawn, synced>>
  BY <1>1 DEF PictureInv
<1>2. ASSUME NEW denied \in BOOLEAN, Panel!DisplayDeinit(denied) PROVE PictureInv'
  BY <1>2 DEF Panel!DisplayDeinit, PictureInv
<1>3. ASSUME NEW percent \in Percents, NEW denied \in BOOLEAN,
             \/ Panel!LcdBrightness(percent, denied) \/ Panel!OledBrightness(percent, denied)
             \/ Panel!AmoledBrightness(percent, denied)
      PROVE  PictureInv'
  BY <1>1, <1>3, Zenon
     DEF Panel!LcdBrightness, Panel!OledBrightness, Panel!AmoledBrightness, Panel!Brightened
<1>4. ASSUME NEW first \in 0..Rows, NEW last \in 0..Rows, NEW colour \in Panel!Colours,
             NEW denied \in BOOLEAN,
             \/ Panel!FlushLcd(first, last, colour, denied)
             \/ Panel!FlushAmoled(first, last, colour, denied)
      PROVE  PictureInv'
  BY <1>4, AreaSent DEF Panel!FlushLcd, Panel!FlushAmoled, Panel!Lcds
<1>5. ASSUME NEW enter \in BOOLEAN, NEW denied \in SUBSET (1..3), Panel!Sleep(enter, denied)
      PROVE  PictureInv'
  BY <1>1, <1>5, Zenon DEF Panel!Sleep
<1>6. ASSUME NEW m \in {"full", "fast"}, Panel!SetRefreshMode(m) PROVE PictureInv'
  <2>1. mode' # "first" => mode # "first"
    BY <1>6 DEF Panel!SetRefreshMode
  <2>2. UNCHANGED <<kind, up, fb, old, ram, drawn, synced>>
    BY <1>6 DEF Panel!SetRefreshMode
  <2> QED
    BY <2>1, <2>2 DEF PictureInv
<1>7. CASE Panel!DisplayNext
  BY <1>2, <1>3, <1>4, <1>5, <1>6, <1>7, PanelStarted, OledFlushed, EpaperFlushed, EpaperRefreshed,
     EpaperSkipped
     DEF Panel!DisplayNext
<1>8. CASE UNCHANGED Panel!displayVars
  BY <1>1, <1>8, Zenon DEF Panel!displayVars
<1> QED
  BY <1>7, <1>8, Zenon DEF Panel!Next, Panel!vars

\* What a flush (on e-paper, a refresh) that went well leaves on a panel is every picture
\* flushed before, those the OLED refused among them (the flush functions of the display
\* drivers, gdeq031t10_refresh): for any number of rows.
THEOREM PanelsShowWhatTheyAreSent ==
    ASSUME Rows \in Nat
    PROVE  Panel!Init /\ [][Panel!Next]_Panel!vars => []Panel!PanelShowsThePicture
<1>1. Panel!Init => PictureInv
  BY DEF Panel!Init, Panel!DisplayStart, PictureInv
<1>2. PictureInv => Panel!PanelShowsThePicture
  <2> SUFFICES ASSUME PictureInv, up = TRUE, synced = "yes"
               PROVE  CASE kind = "gdeq" -> \A r \in 0..Rows - 1 : ram[Panel!Mirrored(r)] = drawn[r]
                        [] OTHER -> ram = drawn
    BY DEF Panel!PanelShowsThePicture
  <2>1. CASE kind = "gdeq"
    <3>1. \A r \in 0..Rows - 1 : ram[Panel!Mirrored(r)] = drawn[r]
      BY <2>1, MirroredTwice DEF PictureInv
    <3> QED
      BY <2>1, <3>1
  <2>2. CASE kind # "gdeq"
    BY <2>2 DEF PictureInv
  <2> QED
    BY <2>1, <2>2
<1> QED
  BY <1>1, <1>2, PictureInvInductive, PTL

\* The inductive invariant of the sound.
SoundInv ==
    /\ audio \in [ready : BOOLEAN, playing : BOOLEAN, volume : 0..100, rate : 0..2, slot : 0..2]
    /\ channel \in BOOLEAN
    /\ faults \in Nat
    /\ Panel!SoundIsSound

\* apply_volume never amplifies a sample or turns it over.
LEMMA ScaledIsSmaller ==
    ASSUME NEW a \in Int, NEW v \in 0..100
    PROVE  /\ a >= 0 => Panel!Scaled(a, v) \in 0..a
           /\ a < 0 => Panel!Scaled(a, v) \in a..0
<1>1. CASE v >= 100
  BY <1>1 DEF Panel!Scaled
<1>2. CASE v < 100 /\ a >= 0
  <2> DEFINE p == a * v
  <2>1. p \in Int /\ 0 <= p /\ p <= 100 * a
    BY <1>2, SMTT(30)
  <2>2. Panel!Scaled(a, v) = p \div 100
    BY <1>2, <2>1 DEF Panel!Scaled, Panel!Quotient
  <2>3. p \div 100 \in 0..a
    <3> HIDE DEF p
    <3> QED
      BY <2>1, <1>2
  <2> QED
    BY <1>2, <2>2, <2>3
<1>3. CASE v < 100 /\ a < 0
  <2> DEFINE p == a * v
  <2>1. p \in Int /\ p <= 0 /\ 100 * a <= p
    BY <1>3, SMTT(30)
  <2>2. Panel!Scaled(a, v) = IF p < 0 THEN -((-p) \div 100) ELSE p \div 100
    BY <1>3, <2>1 DEF Panel!Scaled, Panel!Quotient
  <2>3. (IF p < 0 THEN -((-p) \div 100) ELSE p \div 100) \in a..0
    <3> HIDE DEF p
    <3> QED
      BY <2>1, <1>3
  <2> QED
    BY <1>3, <2>2, <2>3
<1> QED
  BY <1>1, <1>2, <1>3

\* A set of commands that are refused is counted, and is empty if it counts for nothing.
LEMMA FaultsCounted ==
    ASSUME NEW denied, IsFiniteSet(denied)
    PROVE  /\ Panel!Cardinality(denied) \in Nat
           /\ Panel!Cardinality(denied) = 0 => denied = {}
<1>1. Panel!Cardinality(denied) = Cardinality(denied)
  BY Zenon DEF Panel!Cardinality, Cardinality
<1> QED
  BY <1>1, FS_CardinalityType, FS_EmptySet

\* The displays leave the sound alone, and refused commands are never forgotten.
LEMMA DisplayIsSilent ==
    ASSUME SoundInv, Panel!DisplayNext, UNCHANGED <<audio, channel, heard>>
    PROVE  SoundInv'
<1> SUFFICES faults' \in Nat /\ (faults' = 0 => faults = 0)
  <2> USE DEF SoundInv, Panel!SoundIsSound
  <2> QED
    OBVIOUS
<1> USE DEF SoundInv
<1>1. ASSUME NEW enter \in BOOLEAN, NEW denied \in SUBSET (1..3), Panel!Sleep(enter, denied)
      PROVE  faults' \in Nat /\ (faults' = 0 => faults = 0)
  <2>1. IsFiniteSet(1..3)
    <3>1. 1 \in Int /\ 3 \in Int
      OBVIOUS
    <3> QED
      BY <3>1, FS_Interval, Zenon
  <2>0. IsFiniteSet(denied)
    BY <2>1, FS_Subset, Zenon
  <2>2. faults' = faults + Panel!Cardinality(denied)
    BY <1>1, Zenon DEF Panel!Sleep
  <2> QED
    BY <2>0, <2>2, FaultsCounted
<1>2. ASSUME NEW denied \in BOOLEAN, NEW percent \in Percents, Panel!Brightened(percent, denied)
      PROVE  faults' \in Nat /\ (faults' = 0 => faults = 0)
  BY <1>2 DEF Panel!Brightened
<1>3. ASSUME NEW denied \in BOOLEAN, NEW first \in 0..Rows, NEW last \in 0..Rows,
             NEW colour \in Panel!Colours, Panel!Sent(first, last, colour, denied)
      PROVE  faults' \in Nat /\ (faults' = 0 => faults = 0)
  BY <1>3 DEF Panel!Sent
<1>4. ASSUME NEW denied \in BOOLEAN, NEW first \in 0..Rows, NEW last \in 0..Rows,
             NEW colour \in Panel!Colours, Panel!FlushOled(first, last, colour, denied)
      PROVE  faults' \in Nat /\ (faults' = 0 => faults = 0)
  BY <1>4 DEF Panel!FlushOled
<1>5. ASSUME NEW denied \in BOOLEAN, Panel!DisplayDeinit(denied)
      PROVE  faults' \in Nat /\ (faults' = 0 => faults = 0)
  BY <1>5 DEF Panel!DisplayDeinit
<1>6. ASSUME NEW first \in 0..Rows, NEW last \in 0..Rows, NEW colour \in Panel!Colours,
             Panel!FlushEpaper(first, last, colour)
      PROVE  faults' = faults
  BY <1>6, Zenon DEF Panel!FlushEpaper
<1>7. ASSUME \/ Panel!DisplayInit \/ Panel!RefreshSkips \/ Panel!Refresh
             \/ \E m \in {"full", "fast"} : Panel!SetRefreshMode(m)
      PROVE  faults' = faults
  BY <1>7, Zenon DEF Panel!DisplayInit, Panel!RefreshSkips, Panel!Refresh, Panel!SetRefreshMode
<1> QED
  BY <1>1, <1>2, <1>3, <1>4, <1>5, <1>6, <1>7
     DEF Panel!DisplayNext, Panel!LcdBrightness, Panel!OledBrightness, Panel!AmoledBrightness,
         Panel!FlushLcd, Panel!FlushAmoled

\* pcm5102a_play.
LEMMA SamplePlayed ==
    ASSUME Sounds \subseteq Int, SoundInv, NEW sample \in Sounds,
           NEW denied \in {"no", "enable", "write"}, Panel!Play(sample, denied)
    PROVE  SoundInv'
<1>1. faults' \in Nat /\ (faults' = 0 => faults = 0)
  BY DEF Panel!Play, SoundInv
<1>2. CASE denied = "enable"
  BY <1>1, <1>2 DEF Panel!Play, SoundInv, Panel!SoundIsSound
<1>3. CASE denied # "enable"
  <2>1. audio' = [audio EXCEPT !.playing = TRUE] /\ channel' = TRUE
        /\ heard' = (IF denied = "write" THEN heard
                     ELSE <<sample, Panel!Scaled(sample, audio.volume)>>)
    BY <1>3 DEF Panel!Play
  <2>2. faults' = 0 => audio.rate = audio.slot
    BY <1>1 DEF SoundInv, Panel!SoundIsSound
  <2>3. /\ heard'[1] >= 0 => heard'[2] \in 0..heard'[1]
        /\ heard'[1] < 0 => heard'[2] \in heard'[1]..0
    <3>1. CASE denied = "write"
      BY <2>1, <3>1 DEF SoundInv, Panel!SoundIsSound
    <3>2. CASE denied # "write"
      <4>1. heard'[1] = sample /\ heard'[2] = Panel!Scaled(sample, audio.volume)
        BY <2>1, <3>2
      <4>2. sample \in Int /\ audio.volume \in 0..100
        BY DEF SoundInv
      <4> QED
        BY <4>1, <4>2, ScaledIsSmaller
    <3> QED
      BY <3>1, <3>2
  <2> QED
    BY <1>1, <2>1, <2>2, <2>3 DEF SoundInv, Panel!SoundIsSound
<1> QED
  BY <1>2, <1>3

\* Every step of the displays and of the sound keeps the invariant.
LEMMA SoundInvInductive ==
    ASSUME Percents \subseteq Nat, Sounds \subseteq Int
    PROVE  SoundInv /\ [Panel!Next]_Panel!vars => SoundInv'
<1> SUFFICES ASSUME SoundInv, [Panel!Next]_Panel!vars
             PROVE  SoundInv'
  OBVIOUS
<1>1. CASE Panel!AudioInit \/ Panel!AudioDeinit
  <2>1. audio' \in [ready : BOOLEAN, playing : BOOLEAN, volume : 0..100, rate : 0..2, slot : 0..2]
    <3>1. CASE Panel!AudioInit
      <4> DEFINE zero == 0
      <4>1. audio' = [audio EXCEPT !.ready = TRUE, !.playing = FALSE, !.rate = zero, !.slot = zero]
        BY <3>1 DEF Panel!AudioInit
      <4>3. zero \in 0..2
        OBVIOUS
      <4> HIDE DEF zero
      <4>2. audio \in [ready : BOOLEAN, playing : BOOLEAN,
                      volume : 0..100, rate : 0..2, slot : 0..2]
        BY DEF SoundInv
      <4> QED
        BY <4>1, <4>2, <4>3
    <3>2. CASE Panel!AudioDeinit
      BY <3>2 DEF Panel!AudioDeinit, SoundInv
    <3> QED
      BY <1>1, <3>1, <3>2
  <2>2. audio'.playing = FALSE /\ channel' = FALSE /\ UNCHANGED <<heard, faults>>
    BY <1>1 DEF Panel!AudioInit, Panel!AudioDeinit, SoundInv
  <2>3. audio.rate = audio.slot => audio'.rate = audio'.slot
    BY <1>1 DEF Panel!AudioInit, Panel!AudioDeinit, SoundInv
  <2> QED
    BY <2>1, <2>2, <2>3 DEF SoundInv, Panel!SoundIsSound
<1>2. ASSUME NEW denied \in BOOLEAN, Panel!Stop(denied) PROVE SoundInv'
  BY <1>2 DEF Panel!Stop, SoundInv, Panel!SoundIsSound
<1>3. ASSUME NEW percent \in Percents, Panel!SetVolume(percent) PROVE SoundInv'
  BY <1>3 DEF Panel!SetVolume, Panel!Lit, SoundInv, Panel!SoundIsSound
<1>4. ASSUME NEW c \in {1, 2}, NEW denied \in SUBSET {"disable", "bits", "clock", "slot"},
             Panel!Configure(c, denied)
      PROVE  SoundInv'
  <2> DEFINE All == {"disable", "bits", "clock", "slot"}
  <2>0. IsFiniteSet(All)
    <3>1. All = (({"disable"} \cup {"bits"}) \cup {"clock"}) \cup {"slot"}
      OBVIOUS
    <3>2. \A x, S : IsFiniteSet(S) => IsFiniteSet(S \cup {x})
      BY FS_AddElement, Zenon
    <3>3. IsFiniteSet({"disable"})
      BY FS_Singleton, Zenon
    <3> QED
      BY <3>1, <3>2, <3>3, Zenon
  <2>1. IsFiniteSet(denied)
    BY <2>0, FS_Subset, Zenon
  <2> HIDE DEF All
  <2>2. faults' \in Nat /\ (faults' = 0 => faults = 0 /\ denied = {})
    BY <1>4, <2>1, FaultsCounted DEF Panel!Configure, SoundInv
  <2>6. audio' \in [ready : BOOLEAN, playing : BOOLEAN, volume : 0..100, rate : 0..2, slot : 0..2]
    <3> DEFINE r == IF denied \cap {"bits", "clock"} = {} THEN c ELSE audio.rate
               sl == IF denied \cap {"bits", "clock", "slot"} = {} THEN c ELSE audio.slot
    <3>1. audio' = [audio EXCEPT !.playing = FALSE, !.rate = r, !.slot = sl]
      BY <1>4 DEF Panel!Configure
    <3>2. audio \in [ready : BOOLEAN, playing : BOOLEAN, volume : 0..100, rate : 0..2, slot : 0..2]
      BY DEF SoundInv
    <3>3. r \in 0..2 /\ sl \in 0..2
      BY <3>2
    <3> HIDE DEF r, sl
    <3> QED
      BY <3>1, <3>2, <3>3
  <2>7. channel' \in BOOLEAN
    BY <1>4 DEF Panel!Configure, SoundInv
  <2>3. heard' = heard /\ audio'.playing = FALSE
    BY <1>4 DEF Panel!Configure, SoundInv
  <2>4. denied = {} => audio'.rate = c /\ audio'.slot = c
    BY <1>4 DEF Panel!Configure, SoundInv
  <2>5. denied = {} /\ faults = 0 => channel' = FALSE
    BY <1>4 DEF Panel!Configure, SoundInv, Panel!SoundIsSound
  <2> QED
    BY <2>2, <2>3, <2>4, <2>5, <2>6, <2>7 DEF SoundInv, Panel!SoundIsSound
<1>5. CASE UNCHANGED <<audio, channel, heard, faults>>
  BY <1>5 DEF SoundInv, Panel!SoundIsSound
<1>6. CASE Panel!AudioNext
  BY <1>1, <1>2, <1>3, <1>4, <1>6, SamplePlayed DEF Panel!AudioNext
<1> QED
  BY <1>5, <1>6, DisplayIsSilent DEF Panel!Next, Panel!vars, Panel!audioVars

\* Volume never amplifies a sample or turns it over, the channel is enabled while the driver
\* thinks so, and while no command was refused clock and slot are of one configuration
\* (drv_audio_pcm5102a.rs): for any samples and volumes.
THEOREM SoundPlaysAsSet ==
    ASSUME Percents \subseteq Nat, Sounds \subseteq Int
    PROVE  Panel!Init /\ [][Panel!Next]_Panel!vars => []Panel!SoundIsSound
<1>1. Panel!Init => SoundInv
  <2> SUFFICES ASSUME Panel!Init PROVE SoundInv
    OBVIOUS
  <2>1. /\ audio = [ready |-> FALSE, playing |-> FALSE, volume |-> 100, rate |-> 0, slot |-> 0]
        /\ channel = FALSE /\ heard = <<0, 0>> /\ faults = 0
    BY DEF Panel!Init, Panel!AudioStart
  <2>2. heard[1] = 0 /\ heard[2] = 0
    BY <2>1
  <2>3. audio.playing = FALSE /\ audio.rate = audio.slot
    BY <2>1
  <2>4. audio \in [ready : BOOLEAN, playing : BOOLEAN, volume : 0..100, rate : 0..2, slot : 0..2]
    BY <2>1
  <2> QED
    <3>1. heard[2] \in 0..heard[1] /\ ~(heard[1] < 0)
      BY <2>2
    <3> QED
      BY <2>1, <2>3, <2>4, <3>1 DEF SoundInv, Panel!SoundIsSound
<1>2. SoundInv => Panel!SoundIsSound
  BY DEF SoundInv
<1> QED
  BY <1>1, <1>2, SoundInvInductive, PTL

-----------------------------------------------------------------------------
(* The GPS receiver, the clock, the motion sensors and the battery         *)

\* The sensors have no state in common, so that each has an invariant of its own, which the
\* steps of the others cannot disturb. What remains is arithmetic: of the two digits in a
\* register, and of the ten pieces of the curve of the battery.

CONSTANTS
    Sentences,   \* what the GPS receiver sends
    Callbacks,   \* functions that are registered for fixes
    Times,       \* dates and times the clock is set to
    Samples,     \* averages of the converter of the battery
    Rates,       \* sample rates that are asked for, in Hz
    Lights,      \* pairs of the channels of the light sensor
    MaxLines     \* bound: sentences the receiver sends

VARIABLES
    gps, rx, line, fix, cb, told, torn, copy, lines, \* the GPS receiver
    rtc,       \* the clock: "off" or "ready"
    regs,      \* its registers
    wanted,    \* ghost: the time it was last set to
    power,     \* the driver of the battery
    taken,     \* ghost: converters and calibrations that exist
    reading,   \* the last two readings
    imu,       \* "off", "on" or "asleep"
    odr,       \* the output rates of accelerometer and gyroscope
    rated,     \* ghost: the last rate that was set with success
    light, lux \* the light sensor, and the last brightness that was read

Sensor == INSTANCE Sensors WITH given <- told

\* A position has its fields.
IsFix(f) ==
    f = [lat |-> f.lat, lon |-> f.lon, speed |-> f.speed, sats |-> f.sats, when |-> f.when,
         valid |-> f.valid]

\* A line that is being processed is one whole RMC sentence.
LineInv ==
    /\ line = [start |-> line.start, end |-> line.end]
    /\ line.start \in Sentences \cup {Sensor!NoOne} /\ line.end \in Sentences \cup {Sensor!NoOne}
    /\ rx \in {"lat", "lon", "rest", "tell"} =>
          line.start \in Sentences /\ line.end = line.start /\ line.start.kind = "rmc"

\* The same position elsewhere.
LEMMA PlacedFix ==
    ASSUME NEW f, IsFix(f), NEW a, NEW b
    PROVE  [f EXCEPT !.lat = a, !.lon = b]
               = [lat |-> a, lon |-> b, speed |-> f.speed, sats |-> f.sats, when |-> f.when,
                  valid |-> f.valid]
<1> DEFINE g == [f EXCEPT !.lat = a]
<1>1. g = [lat |-> a, lon |-> f.lon, speed |-> f.speed, sats |-> f.sats, when |-> f.when,
           valid |-> f.valid]
  BY DEF IsFix
<1>2. [f EXCEPT !.lat = a, !.lon = b] = [g EXCEPT !.lon = b]
  BY Zenon
<1> HIDE DEF g
<1> QED
  BY <1>1, <1>2

\* Nothing is half written, neither by the task nor by one that was deleted.
Still == ~torn /\ rx \notin {"lon", "rest"}

\* The fields written so far are those of the line, and a valid position of which nothing is
\* half written is of one sentence.
FixInv ==
    /\ IsFix(fix)
    /\ rx \in {"lon", "rest"} => fix.lat = Sensor!Coord(line.start.lat)
    /\ rx = "rest" => fix.lon = Sensor!Coord(line.start.lon)
    /\ rx = "tell" => Sensor!OfOne(fix)
    /\ fix.valid /\ Still => Sensor!OfOne(fix)

\* A copy that nothing was half written under is of the fields that are still there, or of a
\* position that init has cleared since.
CopyInv ==
    /\ copy = [at |-> copy.at, fix |-> copy.fix, calm |-> copy.calm]
    /\ IsFix(copy.fix)
    /\ copy.at \in {"lon", "rest"} /\ copy.calm =>
          /\ Still
          /\ fix.valid => copy.fix.lat = fix.lat /\ (copy.at = "rest" => copy.fix.lon = fix.lon)
    /\ Sensor!FixIsOfOneSentence

\* The inductive invariant of the GPS receiver.
GpsInv ==
    /\ gps # "on" => rx = "none"
    /\ LineInv /\ FixInv /\ CopyInv
    /\ Sensor!ToldFixesAreWhole

\* A position is of this sentence.
OfThis(f, s) ==
    /\ s.kind = "rmc"
    /\ f.lat = Sensor!Coord(s.lat) /\ f.lon = Sensor!Coord(s.lon) /\ f.speed = s.speed
    /\ Sensor!Timestamp(s.time) # <<0, 0>> => f.when = Sensor!Timestamp(s.time)

\* The same for some sentence.
LEMMA OfOneIs ==
    ASSUME NEW f
    PROVE  Sensor!OfOne(f) <=> \E s \in Sentences : OfThis(f, s)
BY DEF Sensor!OfOne, OfThis

\* The satellites and whether there is a fix do not matter to that.
LEMMA SameFields ==
    ASSUME NEW f, NEW g, f.lat = g.lat, f.lon = g.lon, f.speed = g.speed, f.when = g.when, Sensor!OfOne(f)
    PROVE  Sensor!OfOne(g)
<1>1. PICK s \in Sentences : OfThis(f, s)
  BY OfOneIs, Zenon
<1>2. OfThis(g, s)
  BY <1>1, Zenon DEF OfThis
<1> QED
  BY <1>2, OfOneIs, Zenon

\* What the receiver does to a copy that is being made: nothing, or it is no longer calm, or
\* the position under it is no longer valid or is as it was.
LEMMA CopyLeft ==
    ASSUME GpsInv, Sensor!ToldFixesAreWhole',
           gps' # "on" => rx' = "none", LineInv', FixInv',
           \/ copy' = copy /\ Still' /\ fix'.lat = fix.lat /\ fix'.lon = fix.lon /\ (fix'.valid => fix.valid)
           \/ copy' = copy /\ ~Still
           \/ copy' = [copy EXCEPT !.calm = copy.calm /\ copy.at \notin {"lon", "rest"}]
    PROVE  GpsInv'
<1> DEFINE calm == copy.calm /\ copy.at \notin {"lon", "rest"}
<1>1. CASE copy' = copy /\ (\/ ~Still
                           \/ /\ Still' /\ fix'.lat = fix.lat /\ fix'.lon = fix.lon
                              /\ fix'.valid => fix.valid)
  <2>1. copy'.at = copy.at /\ copy'.fix = copy.fix /\ copy'.calm = copy.calm
    BY <1>1
  <2>2. Sensor!FixIsOfOneSentence'
    BY <2>1 DEF GpsInv, CopyInv, Sensor!FixIsOfOneSentence
  <2>3. ASSUME copy.at \in {"lon", "rest"}, copy.calm
        PROVE  /\ Still'
               /\ fix'.valid => copy.fix.lat = fix'.lat /\ (copy.at = "rest" => copy.fix.lon = fix'.lon)
    <3>1. Still /\ (fix.valid => copy.fix.lat = fix.lat /\ (copy.at = "rest" => copy.fix.lon = fix.lon))
      BY <2>3 DEF GpsInv, CopyInv
    <3>2. Still' /\ fix'.lat = fix.lat /\ fix'.lon = fix.lon /\ (fix'.valid => fix.valid)
      BY <1>1, <2>3, <3>1
    <3> QED
      BY <3>1, <3>2
  <2> QED
    BY <1>1, <2>1, <2>2, <2>3 DEF GpsInv, CopyInv, IsFix
<1>2. CASE copy' = [copy EXCEPT !.calm = calm]
  <2>1. copy' = [at |-> copy.at, fix |-> copy.fix, calm |-> calm]
    BY <1>2 DEF GpsInv, CopyInv
  <2>2. copy'.at = copy.at /\ copy'.fix = copy.fix /\ copy'.calm = calm
    BY <2>1
  <2>3. Sensor!FixIsOfOneSentence'
    BY <2>2 DEF GpsInv, CopyInv, Sensor!FixIsOfOneSentence
  <2> QED
    BY <2>1, <2>2, <2>3 DEF GpsInv, CopyInv, IsFix
<1> QED
  BY <1>1, <1>2

\* A dollar, and the end of a line; a line that mixes two sentences fails its checksum.
LEMMA LineRead ==
    ASSUME GpsInv, NEW s \in Sentences, Sensor!Dollar(s) \/ Sensor!Newline(s)
    PROVE  GpsInv'
<1>1. rx = "read" /\ gps' = gps /\ fix' = fix /\ told' = told /\ torn' = torn /\ copy' = copy
  BY DEF Sensor!Dollar, Sensor!Newline
<1>2. Sensor!ToldFixesAreWhole' /\ IsFix(fix') /\ gps = "on"
  BY <1>1 DEF GpsInv, FixInv, Sensor!ToldFixesAreWhole
<1>3. LineInv' /\ rx' \in {"read", "lat", "gga"}
  <2>1. CASE Sensor!Dollar(s)
    <3>1. line' = [start |-> s, end |-> Sensor!NoOne] /\ rx' = rx
      BY <2>1 DEF Sensor!Dollar
    <3> QED
      BY <1>1, <3>1 DEF LineInv
  <2>2. CASE Sensor!Newline(s)
    <3> DEFINE whole == [line EXCEPT !.end = IF line.end = Sensor!NoOne THEN s ELSE line.end]
    <3>1. whole = [start |-> line.start, end |-> IF line.end = Sensor!NoOne THEN s ELSE line.end]
      BY DEF GpsInv, LineInv
    <3>2. \/ /\ whole.start # Sensor!NoOne /\ whole.start = whole.end /\ line' = whole
             /\ rx' = IF whole.start.kind = "rmc" THEN "lat" ELSE "gga"
          \/ line' = [start |-> Sensor!NoOne, end |-> Sensor!NoOne] /\ rx' = rx
      BY <2>2 DEF Sensor!Newline, Sensor!Verified, Sensor!NoLine
    <3>3. whole.start \in Sentences \cup {Sensor!NoOne} /\ whole.end \in Sentences \cup {Sensor!NoOne}
          /\ whole = [start |-> whole.start, end |-> whole.end]
      BY <3>1 DEF GpsInv, LineInv
    <3> HIDE DEF whole
    <3>4. CASE line' = whole /\ whole.start # Sensor!NoOne /\ whole.start = whole.end
               /\ rx' = IF whole.start.kind = "rmc" THEN "lat" ELSE "gga"
      BY <3>3, <3>4 DEF LineInv
    <3>5. CASE line' = [start |-> Sensor!NoOne, end |-> Sensor!NoOne] /\ rx' = rx
      BY <1>1, <3>5 DEF LineInv
    <3> QED
      BY <3>2, <3>4, <3>5, Zenon
  <2> QED
    BY <2>1, <2>2
<1>4. FixInv' /\ (Still' \/ ~Still)
  BY <1>1, <1>2, <1>3 DEF GpsInv, FixInv, Still
<1> QED
  BY <1>1, <1>2, <1>3, <1>4, CopyLeft

\* process_gnrmc writes latitude, then longitude,
LEMMA FieldWritten ==
    ASSUME GpsInv, Sensor!WriteLat \/ Sensor!WriteLon
    PROVE  GpsInv'
<1>1. gps' = gps /\ line' = line /\ told' = told /\ torn' = torn /\ gps = "on"
  BY DEF Sensor!WriteLat, Sensor!WriteLon, GpsInv
<1>2. Sensor!ToldFixesAreWhole'
  BY <1>1 DEF GpsInv, Sensor!ToldFixesAreWhole
<1>3. CASE Sensor!WriteLat
  <2>1. /\ rx = "lat" /\ rx' = "lon" /\ fix' = [fix EXCEPT !.lat = Sensor!Coord(line.start.lat)]
        /\ copy' = [copy EXCEPT !.calm = copy.calm /\ copy.at \notin {"lon", "rest"}]
    BY <1>3 DEF Sensor!WriteLat
  <2>2. fix' = [lat |-> Sensor!Coord(line.start.lat), lon |-> fix.lon, speed |-> fix.speed,
                sats |-> fix.sats, when |-> fix.when, valid |-> fix.valid]
    BY <2>1 DEF GpsInv, FixInv, IsFix
  <2>3. IsFix(fix') /\ fix'.lat = Sensor!Coord(line.start.lat)
    BY <2>2 DEF IsFix
  <2>4. LineInv' /\ FixInv'
    BY <1>1, <2>1, <2>3 DEF GpsInv, LineInv, FixInv, Still
  <2> QED
    BY <1>1, <1>2, <2>1, <2>4, CopyLeft
<1>4. CASE Sensor!WriteLon
  <2>1. rx = "lon" /\ rx' = "rest" /\ fix' = [fix EXCEPT !.lon = Sensor!Coord(line.end.lon)]
        /\ line.end = line.start /\ copy' = copy
    BY <1>4 DEF Sensor!WriteLon, GpsInv, LineInv
  <2>2. fix' = [lat |-> fix.lat, lon |-> Sensor!Coord(line.start.lon), speed |-> fix.speed,
                sats |-> fix.sats, when |-> fix.when, valid |-> fix.valid]
    BY <2>1 DEF GpsInv, FixInv, IsFix
  <2>3. IsFix(fix') /\ fix'.lat = fix.lat /\ fix'.lon = Sensor!Coord(line.start.lon)
    BY <2>2 DEF IsFix
  <2>4. LineInv' /\ FixInv' /\ ~Still
    BY <1>1, <2>1, <2>3 DEF GpsInv, LineInv, FixInv, Still
  <2> QED
    BY <1>1, <1>2, <2>1, <2>4, CopyLeft
<1> QED
  BY <1>3, <1>4

\* then the rest: the position is of one sentence again, whatever was torn before.
LEMMA RestWritten ==
    ASSUME GpsInv, Sensor!WriteRest
    PROVE  GpsInv'
<1> DEFINE s == line.start
           ts == Sensor!Timestamp(s.time)
           then == IF ts # <<0, 0>> THEN ts ELSE fix.when
<1>1. /\ gps' = gps /\ line' = line /\ told' = told /\ rx = "rest" /\ rx' = "tell" /\ gps = "on"
      /\ line.end = s /\ s \in Sentences /\ s.kind = "rmc" /\ copy' = copy
  BY DEF Sensor!WriteRest, GpsInv, LineInv
<1>2. fix' = [fix EXCEPT !.speed = s.speed, !.valid = s.ok, !.when = then]
  BY <1>1 DEF Sensor!WriteRest
<1>3. fix.lat = Sensor!Coord(s.lat) /\ fix.lon = Sensor!Coord(s.lon)
  BY <1>1 DEF GpsInv, FixInv
<1>4. IsFix(fix) /\ ~Still /\ Sensor!ToldFixesAreWhole'
  BY <1>1 DEF GpsInv, FixInv, Still, Sensor!ToldFixesAreWhole
<1>5. ts # <<0, 0>> => then = Sensor!Timestamp(s.time)
  OBVIOUS
<1>6. LineInv'
  BY <1>1 DEF GpsInv, LineInv, s
<1> HIDE DEF s, then
<1>7. fix' = [lat |-> fix.lat, lon |-> fix.lon, speed |-> s.speed, sats |-> fix.sats, when |-> then,
              valid |-> s.ok]
  BY <1>2, <1>4 DEF IsFix
<1>8. IsFix(fix') /\ fix'.lat = fix.lat /\ fix'.lon = fix.lon /\ fix'.speed = s.speed /\ fix'.when = then
  BY <1>7 DEF IsFix
<1>9. Sensor!OfOne(fix')
  <2>1. OfThis(fix', s)
    BY <1>1, <1>3, <1>5, <1>8, Zenon DEF OfThis
  <2> QED
    BY <1>1, <2>1, OfOneIs, Zenon
<1>10. FixInv'
  BY <1>1, <1>8, <1>9 DEF FixInv
<1> QED
  BY <1>1, <1>4, <1>6, <1>10, CopyLeft

\* The callback is called with it; and process_gngga changes no position.
LEMMA FixTold ==
    ASSUME GpsInv, Sensor!Tell \/ Sensor!WriteGga
    PROVE  GpsInv'
<1>1. /\ gps' = gps /\ gps = "on" /\ torn' = torn /\ rx' = "read" /\ rx \in {"tell", "gga"} /\ copy' = copy
      /\ line' = [start |-> Sensor!NoOne, end |-> Sensor!NoOne]
  BY DEF Sensor!Tell, Sensor!WriteGga, Sensor!NoLine, GpsInv
<1>2. LineInv' /\ (Still' \/ ~Still) /\ (Still' <=> Still)
  BY <1>1 DEF LineInv, Still
<1>3. CASE Sensor!Tell
  <2>1. /\ rx = "tell" /\ fix' = fix
        /\ told' = IF cb.func # "none" /\ fix.valid THEN [fix |-> fix, cb |-> cb] ELSE told
    BY <1>3 DEF Sensor!Tell
  <2>2. Sensor!OfOne(fix)
    BY <2>1 DEF GpsInv, FixInv
  <2>3. Sensor!ToldFixesAreWhole'
    <3>1. CASE cb.func # "none" /\ fix.valid
      <4>1. told'.fix = fix
        BY <2>1, <3>1
      <4> QED
        BY <2>2, <3>1, <4>1 DEF Sensor!ToldFixesAreWhole
    <3>2. CASE ~(cb.func # "none" /\ fix.valid)
      <4>1. told' = told
        BY <2>1, <3>2
      <4> QED
        BY <4>1 DEF GpsInv, Sensor!ToldFixesAreWhole
    <3> QED
      BY <3>1, <3>2
  <2>4. FixInv'
    BY <1>1, <2>1, <2>2 DEF GpsInv, FixInv
  <2> QED
    BY <1>1, <1>2, <2>1, <2>3, <2>4, CopyLeft
<1>4. CASE Sensor!WriteGga
  <2> DEFINE ok == line.start.ok
  <2>1. /\ rx = "gga" /\ told' = told
        /\ fix' = [fix EXCEPT !.sats = line.start.speed, !.valid = fix.valid /\ ok]
    BY <1>4 DEF Sensor!WriteGga
  <2>2. fix' = [lat |-> fix.lat, lon |-> fix.lon, speed |-> fix.speed, sats |-> line.start.speed,
                when |-> fix.when, valid |-> fix.valid /\ ok]
    BY <2>1 DEF GpsInv, FixInv, IsFix
  <2>3. IsFix(fix') /\ fix'.lat = fix.lat /\ fix'.lon = fix.lon /\ fix'.speed = fix.speed
        /\ fix'.when = fix.when
    BY <2>2 DEF IsFix
  <2>4. fix'.valid => fix.valid
    BY <2>2
  <2>5. ASSUME fix'.valid, Still' PROVE Sensor!OfOne(fix')
    <3>1. Sensor!OfOne(fix)
      BY <1>2, <2>4, <2>5 DEF GpsInv, FixInv
    <3> QED
      BY <2>3, <3>1, SameFields
  <2>6. FixInv' /\ Sensor!ToldFixesAreWhole'
    BY <1>1, <2>1, <2>3, <2>5 DEF GpsInv, FixInv, Sensor!ToldFixesAreWhole
  <2> QED
    BY <1>1, <1>2, <2>3, <2>4, <2>6, CopyLeft
<1> QED
  BY <1>3, <1>4

\* init, enable, disable and deinit: a task that is deleted while it writes leaves a torn
\* position.
LEMMA TaskHandled ==
    ASSUME GpsInv,
           Sensor!GpsInit \/ Sensor!GpsEnable \/ Sensor!GpsDisable \/ Sensor!GpsDeinit
    PROVE  GpsInv'
<1>1. told' = told /\ copy' = copy
  BY DEF Sensor!GpsInit, Sensor!GpsEnable, Sensor!GpsDisable, Sensor!GpsDeinit, Sensor!GpsStop
<1>2. Sensor!ToldFixesAreWhole'
  BY <1>1 DEF GpsInv, Sensor!ToldFixesAreWhole
<1>3. CASE Sensor!GpsInit
  <2>1. /\ gps = "off" /\ gps' = "ready" /\ rx' = rx /\ fix' = Sensor!NoFix /\ torn' = FALSE
        /\ line' = [start |-> Sensor!NoOne, end |-> Sensor!NoOne] /\ rx = "none"
    BY <1>3 DEF Sensor!GpsInit, Sensor!NoLine, GpsInv
  <2>2. LineInv'
    BY <2>1 DEF LineInv
  <2>3. IsFix(fix') /\ fix'.valid = FALSE
    BY <2>1 DEF IsFix, Sensor!NoFix
  <2>4. FixInv' /\ Still'
    BY <2>1, <2>3 DEF FixInv, Still
  <2>5. CopyInv'
    BY <1>1, <2>3, <2>4 DEF GpsInv, CopyInv, IsFix, Sensor!FixIsOfOneSentence
  <2> QED
    BY <1>2, <2>1, <2>2, <2>4, <2>5 DEF GpsInv
<1>4. CASE Sensor!GpsEnable
  <2>1. /\ gps = "ready" /\ gps' = "on" /\ rx' = "read" /\ rx = "none"
        /\ UNCHANGED <<line, fix, torn>>
    BY <1>4 DEF Sensor!GpsEnable, GpsInv
  <2>2. LineInv' /\ FixInv' /\ (Still' \/ ~Still)
    BY <2>1 DEF GpsInv, LineInv, FixInv, Still
  <2> QED
    BY <1>1, <1>2, <2>1, <2>2, CopyLeft
<1>5. CASE Sensor!GpsDisable \/ Sensor!GpsDeinit
  <2>1. /\ rx' = "none" /\ torn' = (torn \/ rx \in {"lon", "rest"})
        /\ UNCHANGED <<line, fix>>
    BY <1>5 DEF Sensor!GpsDisable, Sensor!GpsDeinit, Sensor!GpsStop
  <2>2. Still' <=> Still
    BY <2>1 DEF Still
  <2>3. LineInv' /\ FixInv'
    BY <2>1, <2>2 DEF GpsInv, LineInv, FixInv
  <2> QED
    BY <1>1, <1>2, <2>1, <2>2, <2>3, CopyLeft
<1> QED
  BY <1>3, <1>4, <1>5

\* get_position: a copy that begins while nothing is half written, and stays calm, ends as
\* the position that is there, which is of one sentence.
LEMMA PositionCopied ==
    ASSUME GpsInv, Sensor!CopyLat \/ Sensor!CopyLon \/ Sensor!CopyRest
    PROVE  GpsInv'
<1>1. UNCHANGED <<gps, rx, line, fix, told, torn>>
  BY DEF Sensor!CopyLat, Sensor!CopyLon, Sensor!CopyRest
<1>2. LineInv' /\ FixInv' /\ Sensor!ToldFixesAreWhole' /\ (gps' # "on" => rx' = "none") /\ (Still' <=> Still)
  BY <1>1 DEF GpsInv, LineInv, FixInv, Still, Sensor!ToldFixesAreWhole
<1>3. CASE Sensor!CopyLat
  <2> DEFINE some == [lat |-> fix.lat, lon |-> 0, speed |-> 0, sats |-> 0, when |-> <<0, 0>>,
                      valid |-> FALSE]
  <2>1. copy' = [at |-> "lon", fix |-> [Sensor!NoFix EXCEPT !.lat = fix.lat],
                 calm |-> ~torn /\ rx \notin {"lon", "rest"}]
    BY <1>3 DEF Sensor!CopyLat
  <2>2. copy' = [at |-> "lon", fix |-> some, calm |-> Still]
    BY <2>1 DEF Sensor!NoFix, Still
  <2>3. copy'.at = "lon" /\ copy'.fix.lat = fix.lat /\ copy'.calm = Still /\ IsFix(copy'.fix)
        /\ copy' = [at |-> copy'.at, fix |-> copy'.fix, calm |-> copy'.calm]
    BY <2>2 DEF IsFix
  <2>4. CopyInv'
    BY <1>1, <1>2, <2>3 DEF CopyInv, Sensor!FixIsOfOneSentence, IsFix
  <2> QED
    BY <1>2, <2>4 DEF GpsInv
<1>4. CASE Sensor!CopyLon
  <2> DEFINE some == [copy.fix EXCEPT !.lon = fix.lon]
  <2>1. copy.at = "lon" /\ copy' = [copy EXCEPT !.at = "rest", !.fix = some]
    BY <1>4 DEF Sensor!CopyLon
  <2>2. some = [lat |-> copy.fix.lat, lon |-> fix.lon, speed |-> copy.fix.speed, sats |-> copy.fix.sats,
                when |-> copy.fix.when, valid |-> copy.fix.valid]
    BY DEF GpsInv, CopyInv, IsFix
  <2>3. IsFix(some) /\ some.lat = copy.fix.lat /\ some.lon = fix.lon
    BY <2>2 DEF IsFix
  <2> HIDE DEF some
  <2>4. copy' = [at |-> "rest", fix |-> some, calm |-> copy.calm]
    BY <2>1 DEF GpsInv, CopyInv
  <2>5. copy'.at = "rest" /\ copy'.fix = some /\ copy'.calm = copy.calm
        /\ copy' = [at |-> copy'.at, fix |-> copy'.fix, calm |-> copy'.calm]
    BY <2>4
  <2>6. copy.calm => Still /\ (fix.valid => copy.fix.lat = fix.lat)
    BY <2>1 DEF GpsInv, CopyInv
  <2>7. CopyInv'
    BY <1>1, <1>2, <2>3, <2>5, <2>6 DEF CopyInv, Sensor!FixIsOfOneSentence, IsFix
  <2> QED
    BY <1>2, <2>7 DEF GpsInv
<1>5. CASE Sensor!CopyRest
  <2> DEFINE some == [fix EXCEPT !.lat = copy.fix.lat, !.lon = copy.fix.lon]
             end == IF fix.valid THEN "given" ELSE "idle"
  <2>1. copy.at = "rest" /\ copy' = [copy EXCEPT !.at = end, !.fix = some]
    BY <1>5 DEF Sensor!CopyRest
  <2>2. some = [lat |-> copy.fix.lat, lon |-> copy.fix.lon, speed |-> fix.speed, sats |-> fix.sats,
                when |-> fix.when, valid |-> fix.valid]
    <3>1. IsFix(fix)
      BY DEF GpsInv, FixInv
    <3> QED
      BY <3>1, PlacedFix, Zenon
  <2>3. IsFix(some) /\ some.lat = copy.fix.lat /\ some.lon = copy.fix.lon /\ some.speed = fix.speed
        /\ some.when = fix.when
    BY <2>2 DEF IsFix
  <2>4. end \in {"given", "idle"} /\ (end = "given" => fix.valid)
    OBVIOUS
  <2> HIDE DEF some, end
  <2>5. copy' = [at |-> end, fix |-> some, calm |-> copy.calm]
    BY <2>1 DEF GpsInv, CopyInv
  <2>6. copy'.at = end /\ copy'.fix = some /\ copy'.calm = copy.calm
        /\ copy' = [at |-> copy'.at, fix |-> copy'.fix, calm |-> copy'.calm]
    BY <2>5
  <2>7. ASSUME end = "given", copy.calm PROVE Sensor!OfOne(some)
    <3>1. fix.valid /\ Still /\ copy.fix.lat = fix.lat /\ copy.fix.lon = fix.lon
      BY <2>1, <2>4, <2>7 DEF GpsInv, CopyInv
    <3>2. Sensor!OfOne(fix)
      BY <3>1 DEF GpsInv, FixInv
    <3> QED
      BY <2>3, <3>1, <3>2, SameFields
  <2>8. CopyInv'
    BY <2>3, <2>4, <2>6, <2>7 DEF CopyInv, Sensor!FixIsOfOneSentence, IsFix
  <2> QED
    BY <1>2, <2>8 DEF GpsInv
<1> QED
  BY <1>3, <1>4, <1>5

\* Every step of the sensors keeps the invariant of the receiver.
LEMMA GpsInvInductive == GpsInv /\ [Sensor!Next]_Sensor!vars => GpsInv'
<1> SUFFICES ASSUME GpsInv, [Sensor!Next]_Sensor!vars
             PROVE  GpsInv'
  OBVIOUS
<1>1. CASE UNCHANGED <<gps, rx, line, fix, told, torn, copy>>
  BY <1>1 DEF GpsInv, LineInv, FixInv, CopyInv, Still, IsFix, Sensor!FixIsOfOneSentence,
              Sensor!ToldFixesAreWhole
<1>2. ASSUME NEW f \in Callbacks \cup {"none"}, Sensor!GpsRegister(f) PROVE GpsInv'
  BY <1>1, <1>2 DEF Sensor!GpsRegister
<1>3. CASE Sensor!GpsRegistered
  BY <1>1, <1>3 DEF Sensor!GpsRegistered
<1>4. CASE Sensor!GpsNext
  BY <1>2, <1>3, <1>4, LineRead, FieldWritten, RestWritten, FixTold, TaskHandled, PositionCopied, Zenon
     DEF Sensor!GpsNext
<1>5. CASE UNCHANGED Sensor!gpsVars
  BY <1>1, <1>5 DEF Sensor!gpsVars
<1> QED
  BY <1>4, <1>5, Zenon DEF Sensor!Next, Sensor!vars

\* Position, course and time of what get_position gives are those of one sentence, if
\* nothing was half written while it was copied; and what a callback is given is valid and
\* of one sentence, always (process_gnrmc, mia_m10q_get_position, nmea_process_sentence,
\* gps_rx_task): for any sentences, lost bytes and steps of disable, enable, deinit and
\* register_callback in between.
THEOREM FixesAreOfOneSentence ==
    Sensor!Init /\ [][Sensor!Next]_Sensor!vars
        => [](Sensor!FixIsOfOneSentence /\ Sensor!ToldFixesAreWhole)
<1>1. Sensor!Init => GpsInv
  <2> SUFFICES ASSUME Sensor!Init PROVE GpsInv
    OBVIOUS
  <2>1. /\ gps = "off" /\ rx = "none" /\ fix = Sensor!NoFix
        /\ line = [start |-> Sensor!NoOne, end |-> Sensor!NoOne]
        /\ told.cb.func = "none" /\ copy = [at |-> "idle", fix |-> Sensor!NoFix, calm |-> FALSE]
    BY DEF Sensor!Init, Sensor!GpsStart, Sensor!NoLine, Sensor!NoCopy
  <2>2. IsFix(Sensor!NoFix) /\ Sensor!NoFix.valid = FALSE
    BY DEF IsFix, Sensor!NoFix
  <2>3. LineInv /\ FixInv
    BY <2>1, <2>2 DEF LineInv, FixInv
  <2>4. CopyInv
    BY <2>1, <2>2 DEF CopyInv, IsFix, Sensor!FixIsOfOneSentence
  <2> QED
    BY <2>1, <2>3, <2>4 DEF GpsInv, Sensor!ToldFixesAreWhole
<1>2. GpsInv => Sensor!FixIsOfOneSentence /\ Sensor!ToldFixesAreWhole
  BY DEF GpsInv, CopyInv
<1> QED
  BY <1>1, <1>2, GpsInvInductive, PTL

\* What the clock is set to are times of day and dates.
TimesAssumption ==
    Times \subseteq [second : 0..59, hour : 0..23, day : 1..31, month : 1..12, year : Nat]

\* The registers of a valid clock are those of the time it was set to.
ClockInv ==
    ~regs.lost => wanted \in Times /\ regs = Sensor!RegistersOf(wanted)

\* A register holds the digits, but for the bits its mask leaves out.
Written(n, m) == Sensor!bin_to_bcd(n) % m
\* What is read of it, through the mask.
Read(b, m) == Sensor!bcd_to_bin(b % m)

\* Two decimal digits survive the registers, and what is masked out of them is not theirs.
LEMMA BcdAndBack ==
    ASSUME NEW n \in 0..99
    PROVE  /\ Sensor!bin_to_bcd(n) \in 0..153
           /\ Sensor!bcd_to_bin(Sensor!bin_to_bcd(n)) = n
           /\ n < 80 => Read(Written(n, 128), 128) = n
           /\ n < 40 => Read(Written(n, 64), 64) = n
           /\ n < 20 => Read(Written(n, 32), 32) = n
<1> DEFINE t == n \div 10
           u == n % 10
           b == Sensor!bin_to_bcd(n)
<1>1. t \in 0..9 /\ u \in 0..9 /\ n = 10 * t + u
  OBVIOUS
<1>2. b = 16 * t + u
  BY DEF Sensor!bin_to_bcd
<1> HIDE DEF t, u, b
<1>3. b \div 16 = t /\ b % 16 = u
  BY <1>1, <1>2
<1>4. Sensor!bcd_to_bin(b) = n
  BY <1>1, <1>3 DEF Sensor!bcd_to_bin
<1>5. b \in 0..153 /\ (n < 80 => b < 128) /\ (n < 40 => b < 64) /\ (n < 20 => b < 32)
  BY <1>1, <1>2
<1>6. /\ b < 128 => (b % 128) % 128 = b
      /\ b < 64 => (b % 64) % 64 = b
      /\ b < 32 => (b % 32) % 32 = b
  BY <1>5
<1>7. /\ b \in 0..153 /\ Sensor!bcd_to_bin(b) = n
      /\ n < 80 => Read(Written(n, 128), 128) = n
      /\ n < 40 => Read(Written(n, 64), 64) = n
      /\ n < 20 => Read(Written(n, 32), 32) = n
  BY <1>4, <1>5, <1>6 DEF b, Read, Written
<1> QED
  BY <1>7 DEF b

\* The seconds fit,
LEMMA Bits7Kept ==
    ASSUME NEW n \in Nat, n < 80
    PROVE  Read(Written(n, 128), 128) = n
<1>1. n \in 0..99
  OBVIOUS
<1> QED
  BY <1>1, BcdAndBack

\* the hours and days too,
LEMMA Bits6Kept ==
    ASSUME NEW n \in Nat, n < 40
    PROVE  Read(Written(n, 64), 64) = n
<1>1. n \in 0..99
  OBVIOUS
<1> QED
  BY <1>1, BcdAndBack

\* and the months.
LEMMA Bits5Kept ==
    ASSUME NEW n \in Nat, n < 20
    PROVE  Read(Written(n, 32), 32) = n
<1>1. n \in 0..99
  OBVIOUS
<1> QED
  BY <1>1, BcdAndBack

\* The years of a century have a register of their own.
LEMMA YearKept ==
    ASSUME NEW n \in 0..99
    PROVE  Sensor!bcd_to_bin(Sensor!bin_to_bcd(n)) = n
BY BcdAndBack

\* pcf8563_get_time reads the fields pcf8563_set_time wrote,
LEMMA FieldsKept ==
    ASSUME TimesAssumption, NEW t \in Times
    PROVE  LET r == Sensor!RegistersOf(t)
           IN  /\ Read(r.second, 128) = t.second /\ Read(r.hour, 64) = t.hour
               /\ Read(r.day, 64) = t.day /\ Read(r.month, 32) = t.month
<1> DEFINE r == Sensor!RegistersOf(t)
<1>1. /\ t.second \in Nat /\ t.second < 80 /\ t.hour \in Nat /\ t.hour < 40
      /\ t.day \in Nat /\ t.day < 40 /\ t.month \in Nat /\ t.month < 20
  BY DEF TimesAssumption
<1>2. /\ r.second = Written(t.second, 128) /\ r.hour = Written(t.hour, 64)
      /\ r.day = Written(t.day, 64) /\ r.month = Written(t.month, 32)
  BY DEF Sensor!RegistersOf, Written
<1> HIDE DEF r
<1>3. Read(r.second, 128) = t.second
  <2>1. Read(Written(t.second, 128), 128) = t.second
    BY <1>1, Bits7Kept, Zenon
  <2> QED
    BY <1>2, <2>1, Zenon
<1>4. Read(r.hour, 64) = t.hour
  <2>1. Read(Written(t.hour, 64), 64) = t.hour
    BY <1>1, Bits6Kept, Zenon
  <2> QED
    BY <1>2, <2>1, Zenon
<1>5. Read(r.day, 64) = t.day
  <2>1. Read(Written(t.day, 64), 64) = t.day
    BY <1>1, Bits6Kept, Zenon
  <2> QED
    BY <1>2, <2>1, Zenon
<1>6. Read(r.month, 32) = t.month
  <2>1. Read(Written(t.month, 32), 32) = t.month
    BY <1>1, Bits5Kept, Zenon
  <2> QED
    BY <1>2, <2>1, Zenon
<1> QED
  BY <1>3, <1>4, <1>5, <1>6 DEF r

\* and the year, with its century.
LEMMA YearsKept ==
    ASSUME TimesAssumption, NEW t \in Times, t.year \in 1900..2099
    PROVE  LET r == Sensor!RegistersOf(t)
           IN  (IF r.century THEN 2000 ELSE 1900) + Sensor!bcd_to_bin(r.year) = t.year
<1> DEFINE r == Sensor!RegistersOf(t)
           y == t.year % 100
           late == t.year >= 2000
<1>1. t.year \in Nat /\ y \in 0..99
  BY DEF TimesAssumption
<1>2. r.year = Sensor!bin_to_bcd(y) /\ r.century = late
  BY DEF Sensor!RegistersOf
<1>3. Sensor!bcd_to_bin(Sensor!bin_to_bcd(y)) = y
  <2> HIDE DEF y
  <2> QED
    BY <1>1, YearKept
<1>4. Sensor!bcd_to_bin(r.year) = y
  <2> HIDE DEF r, y, late
  <2> QED
    BY <1>2, <1>3
<1>5. CASE t.year >= 2000
  <2>1. late = TRUE /\ y = t.year - 2000
    BY <1>1, <1>5
  <2> HIDE DEF r, late, y
  <2>2. r.century = TRUE
    BY <1>2, <2>1
  <2> QED
    BY <1>1, <1>4, <2>1, <2>2 DEF r
<1>6. CASE ~(t.year >= 2000)
  <2>1. late = FALSE /\ y = t.year - 1900
    BY <1>1, <1>6
  <2> HIDE DEF r, late, y
  <2>2. r.century = FALSE
    BY <1>2, <2>1
  <2> QED
    BY <1>1, <1>4, <2>1, <2>2 DEF r
<1> QED
  BY <1>5, <1>6

\* pcf8563_get_time undoes pcf8563_set_time in the two centuries the clock has.
LEMMA RegistersKeepTime ==
    ASSUME TimesAssumption, NEW t \in Times, t.year \in 1900..2099
    PROVE  Sensor!TimeOf(Sensor!RegistersOf(t)) = t
<1> DEFINE r == Sensor!RegistersOf(t)
<1>1. t = [second |-> t.second, hour |-> t.hour, day |-> t.day, month |-> t.month, year |-> t.year]
  BY DEF TimesAssumption
<1>2. /\ Read(r.second, 128) = t.second /\ Read(r.hour, 64) = t.hour
      /\ Read(r.day, 64) = t.day /\ Read(r.month, 32) = t.month
  BY FieldsKept
<1>3. (IF r.century THEN 2000 ELSE 1900) + Sensor!bcd_to_bin(r.year) = t.year
  BY YearsKept
<1> HIDE DEF r
<1>4. Sensor!TimeOf(r) = [second |-> Read(r.second, 128), hour |-> Read(r.hour, 64),
                          day |-> Read(r.day, 64), month |-> Read(r.month, 32),
                          year |-> (IF r.century THEN 2000 ELSE 1900) + Sensor!bcd_to_bin(r.year)]
  BY DEF Sensor!TimeOf, Read
<1>5. Sensor!TimeOf(r) = t
  BY <1>1, <1>2, <1>3, <1>4
<1> QED
  BY <1>5 DEF r

\* Every step of the sensors keeps the invariant of the clock.
LEMMA ClockInvInductive ==
    ClockInv /\ [Sensor!Next]_Sensor!vars => ClockInv'
<1> SUFFICES ASSUME ClockInv, [Sensor!Next]_Sensor!vars
             PROVE  ClockInv'
  OBVIOUS
<1>1. ASSUME NEW t \in Times, NEW works \in BOOLEAN, Sensor!RtcSet(t, works) PROVE ClockInv'
  <2>1. CASE works
    <3>1. regs' = Sensor!RegistersOf(t) /\ wanted' = t
      BY <1>1, <2>1, Zenon DEF Sensor!RtcSet
    <3> QED
      BY <3>1, Zenon DEF ClockInv
  <2>2. CASE ~works
    <3>1. regs' = regs /\ wanted' = wanted
      BY <1>1, <2>2, Zenon DEF Sensor!RtcSet
    <3> QED
      BY <3>1, Zenon DEF ClockInv
  <2> QED
    BY <2>1, <2>2, Zenon
<1>2. CASE Sensor!RtcLosesPower
  <2>1. regs'.lost = TRUE
    BY <1>2 DEF Sensor!RtcLosesPower, Sensor!Unset
  <2> QED
    BY <2>1 DEF ClockInv
<1>3. CASE UNCHANGED <<regs, wanted>>
  <2>1. regs' = regs /\ wanted' = wanted
    BY <1>3
  <2> QED
    BY <2>1, Zenon DEF ClockInv
<1>4. ASSUME NEW works \in BOOLEAN, Sensor!RtcInit(works) PROVE UNCHANGED <<regs, wanted>>
  BY <1>4, Zenon DEF Sensor!RtcInit
<1>5. Sensor!RtcDeinit => UNCHANGED <<regs, wanted>>
  BY Zenon DEF Sensor!RtcDeinit
<1>6. CASE Sensor!RtcNext
  BY <1>1, <1>2, <1>3, <1>4, <1>5, <1>6, Zenon DEF Sensor!RtcNext
<1>7. CASE UNCHANGED Sensor!rtcVars
  BY <1>3, <1>7, Zenon DEF Sensor!rtcVars
<1> QED
  BY <1>6, <1>7, Zenon DEF Sensor!Next, Sensor!vars

\* A valid clock says what it was set to, in the two centuries it has (pcf8563_set_time,
\* pcf8563_get_time): for any times.
THEOREM ClockTellsWhatItWasSet ==
    ASSUME TimesAssumption
    PROVE  Sensor!Init /\ [][Sensor!Next]_Sensor!vars => []Sensor!ClockKeepsTime
<1>1. Sensor!Init => ClockInv
  <2> SUFFICES ASSUME Sensor!Init PROVE regs.lost = TRUE
    BY DEF ClockInv
  <2> QED
    BY DEF Sensor!Init, Sensor!RtcStart, Sensor!Unset
<1>2. ClockInv => Sensor!ClockKeepsTime
  <2> SUFFICES ASSUME ClockInv, Sensor!IsValid
               PROVE  /\ wanted # Sensor!NoTime
                      /\ wanted.year \in 1900..2099 => Sensor!TimeOf(regs) = wanted
    BY Zenon DEF Sensor!ClockKeepsTime
  <2>1. wanted \in Times /\ regs = Sensor!RegistersOf(wanted)
    BY Zenon DEF ClockInv, Sensor!IsValid
  <2>2. DOMAIN wanted # DOMAIN Sensor!NoTime
    BY <2>1 DEF TimesAssumption, Sensor!NoTime
  <2>3. wanted # Sensor!NoTime
    BY <2>2
  <2>4. ASSUME wanted.year \in 1900..2099 PROVE Sensor!TimeOf(regs) = wanted
    <3>1. Sensor!TimeOf(Sensor!RegistersOf(wanted)) = wanted
      BY <2>1, <2>4, RegistersKeepTime
    <3> QED
      BY <2>1, <3>1, Zenon
  <2> QED
    BY <2>3, <2>4
<1> QED
  BY <1>1, <1>2, ClockInvInductive, PTL

\* A rate that was set with success is the rate of both sensors.
RatesInv ==
    imu # "off" /\ rated # 0 =>
        rated \in Nat /\ odr.accel = Sensor!OdrOf(rated) /\ odr.gyro = Sensor!OdrOf(rated)

\* hz_to_odr: the greatest rate that is not above the one asked for, or the lowest.
LEMMA OdrFits ==
    ASSUME NEW hz \in Nat
    PROVE  /\ Sensor!OdrOf(hz) <= 32 * hz \/ Sensor!OdrOf(hz) = 1000
           /\ \A r \in Sensor!Odrs : r <= 32 * hz => r <= Sensor!OdrOf(hz)
<1>1. \A r \in Sensor!Odrs : r \in {256000, 128000, 64000, 32000, 16000, 8000, 4000, 2000, 1000}
  BY DEF Sensor!Odrs
<1>2. CASE hz >= 8000
  <2>1. Sensor!OdrOf(hz) = 256000
    BY <1>2 DEF Sensor!OdrOf
  <2> QED
    BY <1>1, <1>2, <2>1
<1>3. CASE hz >= 4000 /\ hz < 8000
  <2>1. Sensor!OdrOf(hz) = 128000
    BY <1>3 DEF Sensor!OdrOf
  <2> QED
    BY <1>1, <1>3, <2>1
<1>4. CASE hz >= 2000 /\ hz < 4000
  <2>1. Sensor!OdrOf(hz) = 64000
    BY <1>4 DEF Sensor!OdrOf
  <2> QED
    BY <1>1, <1>4, <2>1
<1>5. CASE hz >= 1000 /\ hz < 2000
  <2>1. Sensor!OdrOf(hz) = 32000
    BY <1>5 DEF Sensor!OdrOf
  <2> QED
    BY <1>1, <1>5, <2>1
<1>6. CASE hz >= 500 /\ hz < 1000
  <2>1. Sensor!OdrOf(hz) = 16000
    BY <1>6 DEF Sensor!OdrOf
  <2> QED
    BY <1>1, <1>6, <2>1
<1>7. CASE hz >= 250 /\ hz < 500
  <2>1. Sensor!OdrOf(hz) = 8000
    BY <1>7 DEF Sensor!OdrOf
  <2> QED
    BY <1>1, <1>7, <2>1
<1>8. CASE hz >= 125 /\ hz < 250
  <2>1. Sensor!OdrOf(hz) = 4000
    BY <1>8 DEF Sensor!OdrOf
  <2> QED
    BY <1>1, <1>8, <2>1
<1>9. CASE hz >= 63 /\ hz < 125
  <2>1. Sensor!OdrOf(hz) = 2000
    BY <1>9 DEF Sensor!OdrOf
  <2> QED
    BY <1>1, <1>9, <2>1
<1>10. CASE hz < 63
  <2>1. Sensor!OdrOf(hz) = 1000
    BY <1>10 DEF Sensor!OdrOf
  <2> QED
    BY <1>1, <1>10, <2>1
<1> QED
  BY <1>2, <1>3, <1>4, <1>5, <1>6, <1>7, <1>8, <1>9, <1>10

\* Every step of the sensors keeps the invariant of the rates.
LEMMA RatesInvInductive ==
    ASSUME Rates \subseteq Nat
    PROVE  RatesInv /\ [Sensor!Next]_Sensor!vars => RatesInv'
<1> SUFFICES ASSUME RatesInv, [Sensor!Next]_Sensor!vars
             PROVE  RatesInv'
  OBVIOUS
<1>1. ASSUME NEW phase \in {"accel", "gyro", "all"}, Sensor!ImuInit(phase) PROVE RatesInv'
  <2>1. CASE phase = "all"
    <3>1. odr' = [accel |-> Sensor!OdrOf(100), gyro |-> Sensor!OdrOf(100)] /\ rated' = 100
      BY <1>1, <2>1 DEF Sensor!ImuInit
    <3>2. odr'.accel = Sensor!OdrOf(100) /\ odr'.gyro = Sensor!OdrOf(100) /\ 100 \in Nat
      BY <3>1
    <3> QED
      BY <3>1, <3>2 DEF RatesInv
  <2>2. CASE phase # "all"
    <3>1. rated' = 0
      BY <1>1, <2>2 DEF Sensor!ImuInit
    <3> QED
      BY <3>1 DEF RatesInv
  <2> QED
    BY <2>1, <2>2
<1>2. ASSUME NEW phase \in {"accel", "gyro", "all"}, NEW hz \in Rates, Sensor!ImuSetRate(hz, phase)
      PROVE  RatesInv'
  <2>1. CASE phase = "all"
    <3>1. odr' = [accel |-> Sensor!OdrOf(hz), gyro |-> Sensor!OdrOf(hz)] /\ rated' = hz
      BY <1>2, <2>1 DEF Sensor!ImuSetRate
    <3>2. odr'.accel = Sensor!OdrOf(hz) /\ odr'.gyro = Sensor!OdrOf(hz) /\ hz \in Nat
      BY <3>1
    <3> QED
      BY <3>1, <3>2 DEF RatesInv
  <2>2. CASE phase = "accel"
    <3>1. odr' = [accel |-> odr.accel, gyro |-> odr.gyro] /\ rated' = rated /\ imu' = imu
      BY <1>2, <2>2 DEF Sensor!ImuSetRate
    <3>2. odr'.accel = odr.accel /\ odr'.gyro = odr.gyro
      BY <3>1
    <3> QED
      BY <3>1, <3>2 DEF RatesInv
  <2>3. CASE phase = "gyro"
    <3>1. rated' = 0
      BY <1>2, <2>3 DEF Sensor!ImuSetRate
    <3> QED
      BY <3>1 DEF RatesInv
  <2> QED
    BY <2>1, <2>2, <2>3
<1>3. CASE Sensor!ImuDeinit
  BY <1>3 DEF Sensor!ImuDeinit, RatesInv
<1>4. ASSUME NEW enter \in BOOLEAN, Sensor!ImuSleep(enter) PROVE RatesInv'
  BY <1>4 DEF Sensor!ImuSleep, RatesInv
<1>5. CASE UNCHANGED Sensor!imuVars
  BY <1>5 DEF Sensor!imuVars, RatesInv
<1>6. CASE Sensor!ImuNext
  BY <1>1, <1>2, <1>3, <1>4, <1>6, Zenon DEF Sensor!ImuNext
<1> QED
  BY <1>5, <1>6, Zenon DEF Sensor!Next, Sensor!vars

\* Both motion sensors run at the greatest rate that is not above the one asked for, or at
\* the lowest there is (hz_to_odr, qmi8658_set_sample_rate): for any rates, whichever write
\* fails.
THEOREM MotionRatesAgree ==
    ASSUME Rates \subseteq Nat
    PROVE  Sensor!Init /\ [][Sensor!Next]_Sensor!vars => []Sensor!RatesAgree
<1>1. Sensor!Init => RatesInv
  BY DEF Sensor!Init, Sensor!ImuStart, RatesInv
<1>2. RatesInv => Sensor!RatesAgree
  BY OdrFits DEF RatesInv, Sensor!RatesAgree
<1> QED
  BY <1>1, <1>2, RatesInvInductive, PTL

\* Point i of LIPO_CURVE is the first one whose successor is not above the voltage.
OnCurve(i, mv) ==
    /\ Sensor!Curve[i + 1][1] <= mv /\ mv <= Sensor!Curve[i][1]
    /\ \A j \in 1..i - 1 : mv < Sensor!Curve[j + 1][1]

\* The charge between point i of the curve and the next, rounded.
Between(i, mv) ==
    Sensor!Curve[i + 1][2]
    + ((mv - Sensor!Curve[i + 1][1]) * (Sensor!Curve[i][2] - Sensor!Curve[i + 1][2])
       + (Sensor!Curve[i][1] - Sensor!Curve[i + 1][1]) \div 2)
      \div (Sensor!Curve[i][1] - Sensor!Curve[i + 1][1])

\* The same, with the numbers of the curve.
Line(mv, low, base, range) == base + ((mv - low) * 10 + range \div 2) \div range

\* The point of LIPO_CURVE that voltage_to_percent takes.
Segment(mv) == CHOOSE k \in 1..10 :
                  /\ Sensor!Curve[k + 1][1] <= mv /\ mv <= Sensor!Curve[k][1]
                  /\ \A j \in 1..k - 1 : mv < Sensor!Curve[j + 1][1]

\* voltage_to_percent between the ends of the curve.
LEMMA OnTheCurve ==
    ASSUME NEW mv, ~(mv >= Sensor!Curve[1][1]), ~(mv <= Sensor!Curve[11][1])
    PROVE  Sensor!Percent(mv) = Between(Segment(mv), mv)
BY Zenon DEF Sensor!Percent, Between, Segment

\* voltage_to_percent looks between the only two points there are.
LEMMA OnlyOnce ==
    ASSUME NEW mv \in Int, NEW i \in 1..10, OnCurve(i, mv), 3000 < mv, mv < 4200
    PROVE  Sensor!Percent(mv) = Between(i, mv)
<1> DEFINE chosen == CHOOSE k \in 1..10 : OnCurve(k, mv)
<1>1. chosen \in 1..10 /\ OnCurve(chosen, mv)
  <2>1. \E k \in 1..10 : OnCurve(k, mv)
    OBVIOUS
  <2> QED
    BY <2>1
<1>2. chosen = i
  <2> HIDE DEF chosen
  <2>1. ASSUME NEW a \in 1..10, NEW b \in 1..10, OnCurve(a, mv), OnCurve(b, mv), a < b PROVE FALSE
    <3>1. a \in 1..b - 1
      BY <2>1
    <3>2. mv < Sensor!Curve[a + 1][1] /\ Sensor!Curve[a + 1][1] <= mv
      BY <2>1, <3>1 DEF OnCurve
    <3>3. Sensor!Curve[a + 1][1] \in Int
      BY DEF Sensor!Curve
    <3> QED
      BY <3>2, <3>3
  <2>2. ~(chosen < i) /\ ~(i < chosen)
    BY <1>1, <2>1
  <2> QED
    BY <1>1, <2>2
<1>3. Sensor!Percent(mv) = Between(chosen, mv)
  <2>1. ~(mv >= Sensor!Curve[1][1]) /\ ~(mv <= Sensor!Curve[11][1])
    BY DEF Sensor!Curve
  <2>2. Sensor!Percent(mv) = Between(Segment(mv), mv)
    BY <2>1, OnTheCurve
  <2>3. chosen = Segment(mv)
    BY DEF OnCurve, Segment
  <2> HIDE DEF chosen
  <2> QED
    BY <2>2, <2>3
<1> HIDE DEF chosen
<1> QED
  BY <1>2, <1>3

\* From 3000 to 3500 millivolts.
LEMMA Segment10 ==
    ASSUME NEW mv \in 3001..3499
    PROVE  /\ Sensor!Percent(mv) = Line(mv, 3000, 0, 500)
           /\ Sensor!Percent(mv) \in 0..10
<1>1. OnCurve(10, mv)
  BY DEF OnCurve, Sensor!Curve
<1>2. Sensor!Percent(mv) = Between(10, mv)
  BY <1>1, OnlyOnce
<1>3. /\ Sensor!Curve[10 + 1][1] = 3000 /\ Sensor!Curve[10 + 1][2] = 0
      /\ Sensor!Curve[10][1] = 3500 /\ Sensor!Curve[10][2] = 10
  BY DEF Sensor!Curve
<1>4. Sensor!Percent(mv) = Line(mv, 3000, 0, 500)
  BY <1>2, <1>3 DEF Between, Line
<1>5. Line(mv, 3000, 0, 500) \in 0..10
  BY DEF Line
<1> QED
  BY <1>4, <1>5

\* From 3500 to 3620 millivolts.
LEMMA Segment9 ==
    ASSUME NEW mv \in 3500..3619
    PROVE  /\ Sensor!Percent(mv) = Line(mv, 3500, 10, 120)
           /\ Sensor!Percent(mv) \in 10..20
<1>1. OnCurve(9, mv)
  BY DEF OnCurve, Sensor!Curve
<1>2. Sensor!Percent(mv) = Between(9, mv)
  BY <1>1, OnlyOnce
<1>3. /\ Sensor!Curve[9 + 1][1] = 3500 /\ Sensor!Curve[9 + 1][2] = 10
      /\ Sensor!Curve[9][1] = 3620 /\ Sensor!Curve[9][2] = 20
  BY DEF Sensor!Curve
<1>4. Sensor!Percent(mv) = Line(mv, 3500, 10, 120)
  BY <1>2, <1>3 DEF Between, Line
<1>5. Line(mv, 3500, 10, 120) \in 10..20
  BY DEF Line
<1> QED
  BY <1>4, <1>5

\* From 3620 to 3700 millivolts.
LEMMA Segment8 ==
    ASSUME NEW mv \in 3620..3699
    PROVE  /\ Sensor!Percent(mv) = Line(mv, 3620, 20, 80)
           /\ Sensor!Percent(mv) \in 20..30
<1>1. OnCurve(8, mv)
  BY DEF OnCurve, Sensor!Curve
<1>2. Sensor!Percent(mv) = Between(8, mv)
  BY <1>1, OnlyOnce
<1>3. /\ Sensor!Curve[8 + 1][1] = 3620 /\ Sensor!Curve[8 + 1][2] = 20
      /\ Sensor!Curve[8][1] = 3700 /\ Sensor!Curve[8][2] = 30
  BY DEF Sensor!Curve
<1>4. Sensor!Percent(mv) = Line(mv, 3620, 20, 80)
  BY <1>2, <1>3 DEF Between, Line
<1>5. Line(mv, 3620, 20, 80) \in 20..30
  BY DEF Line
<1> QED
  BY <1>4, <1>5

\* From 3700 to 3750 millivolts.
LEMMA Segment7 ==
    ASSUME NEW mv \in 3700..3749
    PROVE  /\ Sensor!Percent(mv) = Line(mv, 3700, 30, 50)
           /\ Sensor!Percent(mv) \in 30..40
<1>1. OnCurve(7, mv)
  BY DEF OnCurve, Sensor!Curve
<1>2. Sensor!Percent(mv) = Between(7, mv)
  BY <1>1, OnlyOnce
<1>3. /\ Sensor!Curve[7 + 1][1] = 3700 /\ Sensor!Curve[7 + 1][2] = 30
      /\ Sensor!Curve[7][1] = 3750 /\ Sensor!Curve[7][2] = 40
  BY DEF Sensor!Curve
<1>4. Sensor!Percent(mv) = Line(mv, 3700, 30, 50)
  BY <1>2, <1>3 DEF Between, Line
<1>5. Line(mv, 3700, 30, 50) \in 30..40
  BY DEF Line
<1> QED
  BY <1>4, <1>5

\* From 3750 to 3820 millivolts.
LEMMA Segment6 ==
    ASSUME NEW mv \in 3750..3819
    PROVE  /\ Sensor!Percent(mv) = Line(mv, 3750, 40, 70)
           /\ Sensor!Percent(mv) \in 40..50
<1>1. OnCurve(6, mv)
  BY DEF OnCurve, Sensor!Curve
<1>2. Sensor!Percent(mv) = Between(6, mv)
  BY <1>1, OnlyOnce
<1>3. /\ Sensor!Curve[6 + 1][1] = 3750 /\ Sensor!Curve[6 + 1][2] = 40
      /\ Sensor!Curve[6][1] = 3820 /\ Sensor!Curve[6][2] = 50
  BY DEF Sensor!Curve
<1>4. Sensor!Percent(mv) = Line(mv, 3750, 40, 70)
  BY <1>2, <1>3 DEF Between, Line
<1>5. Line(mv, 3750, 40, 70) \in 40..50
  BY DEF Line
<1> QED
  BY <1>4, <1>5

\* From 3820 to 3870 millivolts.
LEMMA Segment5 ==
    ASSUME NEW mv \in 3820..3869
    PROVE  /\ Sensor!Percent(mv) = Line(mv, 3820, 50, 50)
           /\ Sensor!Percent(mv) \in 50..60
<1>1. OnCurve(5, mv)
  BY DEF OnCurve, Sensor!Curve
<1>2. Sensor!Percent(mv) = Between(5, mv)
  BY <1>1, OnlyOnce
<1>3. /\ Sensor!Curve[5 + 1][1] = 3820 /\ Sensor!Curve[5 + 1][2] = 50
      /\ Sensor!Curve[5][1] = 3870 /\ Sensor!Curve[5][2] = 60
  BY DEF Sensor!Curve
<1>4. Sensor!Percent(mv) = Line(mv, 3820, 50, 50)
  BY <1>2, <1>3 DEF Between, Line
<1>5. Line(mv, 3820, 50, 50) \in 50..60
  BY DEF Line
<1> QED
  BY <1>4, <1>5

\* From 3870 to 3920 millivolts.
LEMMA Segment4 ==
    ASSUME NEW mv \in 3870..3919
    PROVE  /\ Sensor!Percent(mv) = Line(mv, 3870, 60, 50)
           /\ Sensor!Percent(mv) \in 60..70
<1>1. OnCurve(4, mv)
  BY DEF OnCurve, Sensor!Curve
<1>2. Sensor!Percent(mv) = Between(4, mv)
  BY <1>1, OnlyOnce
<1>3. /\ Sensor!Curve[4 + 1][1] = 3870 /\ Sensor!Curve[4 + 1][2] = 60
      /\ Sensor!Curve[4][1] = 3920 /\ Sensor!Curve[4][2] = 70
  BY DEF Sensor!Curve
<1>4. Sensor!Percent(mv) = Line(mv, 3870, 60, 50)
  BY <1>2, <1>3 DEF Between, Line
<1>5. Line(mv, 3870, 60, 50) \in 60..70
  BY DEF Line
<1> QED
  BY <1>4, <1>5

\* From 3920 to 3980 millivolts.
LEMMA Segment3 ==
    ASSUME NEW mv \in 3920..3979
    PROVE  /\ Sensor!Percent(mv) = Line(mv, 3920, 70, 60)
           /\ Sensor!Percent(mv) \in 70..80
<1>1. OnCurve(3, mv)
  BY DEF OnCurve, Sensor!Curve
<1>2. Sensor!Percent(mv) = Between(3, mv)
  BY <1>1, OnlyOnce
<1>3. /\ Sensor!Curve[3 + 1][1] = 3920 /\ Sensor!Curve[3 + 1][2] = 70
      /\ Sensor!Curve[3][1] = 3980 /\ Sensor!Curve[3][2] = 80
  BY DEF Sensor!Curve
<1>4. Sensor!Percent(mv) = Line(mv, 3920, 70, 60)
  BY <1>2, <1>3 DEF Between, Line
<1>5. Line(mv, 3920, 70, 60) \in 70..80
  BY DEF Line
<1> QED
  BY <1>4, <1>5

\* From 3980 to 4060 millivolts.
LEMMA Segment2 ==
    ASSUME NEW mv \in 3980..4059
    PROVE  /\ Sensor!Percent(mv) = Line(mv, 3980, 80, 80)
           /\ Sensor!Percent(mv) \in 80..90
<1>1. OnCurve(2, mv)
  BY DEF OnCurve, Sensor!Curve
<1>2. Sensor!Percent(mv) = Between(2, mv)
  BY <1>1, OnlyOnce
<1>3. /\ Sensor!Curve[2 + 1][1] = 3980 /\ Sensor!Curve[2 + 1][2] = 80
      /\ Sensor!Curve[2][1] = 4060 /\ Sensor!Curve[2][2] = 90
  BY DEF Sensor!Curve
<1>4. Sensor!Percent(mv) = Line(mv, 3980, 80, 80)
  BY <1>2, <1>3 DEF Between, Line
<1>5. Line(mv, 3980, 80, 80) \in 80..90
  BY DEF Line
<1> QED
  BY <1>4, <1>5

\* From 4060 to 4200 millivolts.
LEMMA Segment1 ==
    ASSUME NEW mv \in 4060..4199
    PROVE  /\ Sensor!Percent(mv) = Line(mv, 4060, 90, 140)
           /\ Sensor!Percent(mv) \in 90..100
<1>1. OnCurve(1, mv)
  BY DEF OnCurve, Sensor!Curve
<1>2. Sensor!Percent(mv) = Between(1, mv)
  BY <1>1, OnlyOnce
<1>3. /\ Sensor!Curve[1 + 1][1] = 4060 /\ Sensor!Curve[1 + 1][2] = 90
      /\ Sensor!Curve[1][1] = 4200 /\ Sensor!Curve[1][2] = 100
  BY DEF Sensor!Curve
<1>4. Sensor!Percent(mv) = Line(mv, 4060, 90, 140)
  BY <1>2, <1>3 DEF Between, Line
<1>5. Line(mv, 4060, 90, 140) \in 90..100
  BY DEF Line
<1> QED
  BY <1>4, <1>5

\* Beyond the curve.
LEMMA OffTheCurve ==
    ASSUME NEW mv \in Int
    PROVE  /\ mv <= 3000 => Sensor!Percent(mv) = 0
           /\ mv >= 4200 => Sensor!Percent(mv) = 100
<1>1. ASSUME mv >= Sensor!Curve[1][1] PROVE Sensor!Percent(mv) = 100
  BY <1>1, Zenon DEF Sensor!Percent
<1>2. ASSUME ~(mv >= Sensor!Curve[1][1]), mv <= Sensor!Curve[11][1] PROVE Sensor!Percent(mv) = 0
  BY <1>2, Zenon DEF Sensor!Percent
<1>3. Sensor!Curve[1][1] = 4200 /\ Sensor!Curve[11][1] = 3000
  BY DEF Sensor!Curve
<1> QED
  BY <1>1, <1>2, <1>3

\* A voltage of a point of the curve has its charge at least.
LEMMA AtLeast ==
    ASSUME NEW mv \in Int
    PROVE  /\ Sensor!Percent(mv) \in 0..100
           /\ mv >= 3500 => Sensor!Percent(mv) >= 10
           /\ mv >= 3620 => Sensor!Percent(mv) >= 20
           /\ mv >= 3700 => Sensor!Percent(mv) >= 30
           /\ mv >= 3750 => Sensor!Percent(mv) >= 40
           /\ mv >= 3820 => Sensor!Percent(mv) >= 50
           /\ mv >= 3870 => Sensor!Percent(mv) >= 60
           /\ mv >= 3920 => Sensor!Percent(mv) >= 70
           /\ mv >= 3980 => Sensor!Percent(mv) >= 80
           /\ mv >= 4060 => Sensor!Percent(mv) >= 90
<1>1. CASE mv <= 3000 \/ mv >= 4200
  BY <1>1, OffTheCurve
<1>2. CASE mv \in 3001..3499
  BY <1>2, Segment10
<1>3. CASE mv \in 3500..3619
  BY <1>3, Segment9
<1>4. CASE mv \in 3620..3699
  BY <1>4, Segment8
<1>5. CASE mv \in 3700..3749
  BY <1>5, Segment7
<1>6. CASE mv \in 3750..3819
  BY <1>6, Segment6
<1>7. CASE mv \in 3820..3869
  BY <1>7, Segment5
<1>8. CASE mv \in 3870..3919
  BY <1>8, Segment4
<1>9. CASE mv \in 3920..3979
  BY <1>9, Segment3
<1>10. CASE mv \in 3980..4059
  BY <1>10, Segment2
<1>11. CASE mv \in 4060..4199
  BY <1>11, Segment1
<1> QED
  BY <1>1, <1>2, <1>3, <1>4, <1>5, <1>6, <1>7, <1>8, <1>9, <1>10, <1>11

\* voltage_to_percent: more voltage is never less charge.
LEMMA MoreIsNotLess ==
    ASSUME NEW x \in Int, NEW y \in Int, x <= y
    PROVE  Sensor!Percent(x) <= Sensor!Percent(y)
<1>1. CASE x <= 3000 \/ x >= 4200
  BY <1>1, OffTheCurve, AtLeast
<1>2. CASE x \in 3001..3499
  <2>1. CASE y < 3500
    <3>1. Sensor!Percent(y) = Line(y, 3000, 0, 500)
      <4>1. y \in 3001..3499
        BY <1>2, <2>1
      <4> QED
        BY <4>1, Segment10
    <3>2. Sensor!Percent(x) = Line(x, 3000, 0, 500)
      BY <1>2, Segment10
    <3>3. Line(x, 3000, 0, 500) <= Line(y, 3000, 0, 500)
      BY <1>2 DEF Line
    <3> QED
      BY <3>1, <3>2, <3>3
  <2>2. CASE y >= 3500
    <3>1. Sensor!Percent(x) <= 10
      BY <1>2, Segment10
    <3>2. Sensor!Percent(y) >= 10
      BY <2>2, AtLeast
    <3> QED
      BY <3>1, <3>2, AtLeast
  <2> QED
    BY <2>1, <2>2
<1>3. CASE x \in 3500..3619
  <2>1. CASE y < 3620
    <3>1. Sensor!Percent(y) = Line(y, 3500, 10, 120)
      <4>1. y \in 3500..3619
        BY <1>3, <2>1
      <4> QED
        BY <4>1, Segment9
    <3>2. Sensor!Percent(x) = Line(x, 3500, 10, 120)
      BY <1>3, Segment9
    <3>3. Line(x, 3500, 10, 120) <= Line(y, 3500, 10, 120)
      BY <1>3 DEF Line
    <3> QED
      BY <3>1, <3>2, <3>3
  <2>2. CASE y >= 3620
    <3>1. Sensor!Percent(x) <= 20
      BY <1>3, Segment9
    <3>2. Sensor!Percent(y) >= 20
      BY <2>2, AtLeast
    <3> QED
      BY <3>1, <3>2, AtLeast
  <2> QED
    BY <2>1, <2>2
<1>4. CASE x \in 3620..3699
  <2>1. CASE y < 3700
    <3>1. Sensor!Percent(y) = Line(y, 3620, 20, 80)
      <4>1. y \in 3620..3699
        BY <1>4, <2>1
      <4> QED
        BY <4>1, Segment8
    <3>2. Sensor!Percent(x) = Line(x, 3620, 20, 80)
      BY <1>4, Segment8
    <3>3. Line(x, 3620, 20, 80) <= Line(y, 3620, 20, 80)
      BY <1>4 DEF Line
    <3> QED
      BY <3>1, <3>2, <3>3
  <2>2. CASE y >= 3700
    <3>1. Sensor!Percent(x) <= 30
      BY <1>4, Segment8
    <3>2. Sensor!Percent(y) >= 30
      BY <2>2, AtLeast
    <3> QED
      BY <3>1, <3>2, AtLeast
  <2> QED
    BY <2>1, <2>2
<1>5. CASE x \in 3700..3749
  <2>1. CASE y < 3750
    <3>1. Sensor!Percent(y) = Line(y, 3700, 30, 50)
      <4>1. y \in 3700..3749
        BY <1>5, <2>1
      <4> QED
        BY <4>1, Segment7
    <3>2. Sensor!Percent(x) = Line(x, 3700, 30, 50)
      BY <1>5, Segment7
    <3>3. Line(x, 3700, 30, 50) <= Line(y, 3700, 30, 50)
      BY <1>5 DEF Line
    <3> QED
      BY <3>1, <3>2, <3>3
  <2>2. CASE y >= 3750
    <3>1. Sensor!Percent(x) <= 40
      BY <1>5, Segment7
    <3>2. Sensor!Percent(y) >= 40
      BY <2>2, AtLeast
    <3> QED
      BY <3>1, <3>2, AtLeast
  <2> QED
    BY <2>1, <2>2
<1>6. CASE x \in 3750..3819
  <2>1. CASE y < 3820
    <3>1. Sensor!Percent(y) = Line(y, 3750, 40, 70)
      <4>1. y \in 3750..3819
        BY <1>6, <2>1
      <4> QED
        BY <4>1, Segment6
    <3>2. Sensor!Percent(x) = Line(x, 3750, 40, 70)
      BY <1>6, Segment6
    <3>3. Line(x, 3750, 40, 70) <= Line(y, 3750, 40, 70)
      BY <1>6 DEF Line
    <3> QED
      BY <3>1, <3>2, <3>3
  <2>2. CASE y >= 3820
    <3>1. Sensor!Percent(x) <= 50
      BY <1>6, Segment6
    <3>2. Sensor!Percent(y) >= 50
      BY <2>2, AtLeast
    <3> QED
      BY <3>1, <3>2, AtLeast
  <2> QED
    BY <2>1, <2>2
<1>7. CASE x \in 3820..3869
  <2>1. CASE y < 3870
    <3>1. Sensor!Percent(y) = Line(y, 3820, 50, 50)
      <4>1. y \in 3820..3869
        BY <1>7, <2>1
      <4> QED
        BY <4>1, Segment5
    <3>2. Sensor!Percent(x) = Line(x, 3820, 50, 50)
      BY <1>7, Segment5
    <3>3. Line(x, 3820, 50, 50) <= Line(y, 3820, 50, 50)
      BY <1>7 DEF Line
    <3> QED
      BY <3>1, <3>2, <3>3
  <2>2. CASE y >= 3870
    <3>1. Sensor!Percent(x) <= 60
      BY <1>7, Segment5
    <3>2. Sensor!Percent(y) >= 60
      BY <2>2, AtLeast
    <3> QED
      BY <3>1, <3>2, AtLeast
  <2> QED
    BY <2>1, <2>2
<1>8. CASE x \in 3870..3919
  <2>1. CASE y < 3920
    <3>1. Sensor!Percent(y) = Line(y, 3870, 60, 50)
      <4>1. y \in 3870..3919
        BY <1>8, <2>1
      <4> QED
        BY <4>1, Segment4
    <3>2. Sensor!Percent(x) = Line(x, 3870, 60, 50)
      BY <1>8, Segment4
    <3>3. Line(x, 3870, 60, 50) <= Line(y, 3870, 60, 50)
      BY <1>8 DEF Line
    <3> QED
      BY <3>1, <3>2, <3>3
  <2>2. CASE y >= 3920
    <3>1. Sensor!Percent(x) <= 70
      BY <1>8, Segment4
    <3>2. Sensor!Percent(y) >= 70
      BY <2>2, AtLeast
    <3> QED
      BY <3>1, <3>2, AtLeast
  <2> QED
    BY <2>1, <2>2
<1>9. CASE x \in 3920..3979
  <2>1. CASE y < 3980
    <3>1. Sensor!Percent(y) = Line(y, 3920, 70, 60)
      <4>1. y \in 3920..3979
        BY <1>9, <2>1
      <4> QED
        BY <4>1, Segment3
    <3>2. Sensor!Percent(x) = Line(x, 3920, 70, 60)
      BY <1>9, Segment3
    <3>3. Line(x, 3920, 70, 60) <= Line(y, 3920, 70, 60)
      BY <1>9 DEF Line
    <3> QED
      BY <3>1, <3>2, <3>3
  <2>2. CASE y >= 3980
    <3>1. Sensor!Percent(x) <= 80
      BY <1>9, Segment3
    <3>2. Sensor!Percent(y) >= 80
      BY <2>2, AtLeast
    <3> QED
      BY <3>1, <3>2, AtLeast
  <2> QED
    BY <2>1, <2>2
<1>10. CASE x \in 3980..4059
  <2>1. CASE y < 4060
    <3>1. Sensor!Percent(y) = Line(y, 3980, 80, 80)
      <4>1. y \in 3980..4059
        BY <1>10, <2>1
      <4> QED
        BY <4>1, Segment2
    <3>2. Sensor!Percent(x) = Line(x, 3980, 80, 80)
      BY <1>10, Segment2
    <3>3. Line(x, 3980, 80, 80) <= Line(y, 3980, 80, 80)
      BY <1>10 DEF Line
    <3> QED
      BY <3>1, <3>2, <3>3
  <2>2. CASE y >= 4060
    <3>1. Sensor!Percent(x) <= 90
      BY <1>10, Segment2
    <3>2. Sensor!Percent(y) >= 90
      BY <2>2, AtLeast
    <3> QED
      BY <3>1, <3>2, AtLeast
  <2> QED
    BY <2>1, <2>2
<1>11. CASE x \in 4060..4199
  <2>1. CASE y < 4200
    <3>1. Sensor!Percent(y) = Line(y, 4060, 90, 140)
      <4>1. y \in 4060..4199
        BY <1>11, <2>1
      <4> QED
        BY <4>1, Segment1
    <3>2. Sensor!Percent(x) = Line(x, 4060, 90, 140)
      BY <1>11, Segment1
    <3>3. Line(x, 4060, 90, 140) <= Line(y, 4060, 90, 140)
      BY <1>11 DEF Line
    <3> QED
      BY <3>1, <3>2, <3>3
  <2>2. CASE y >= 4200
    <3>1. Sensor!Percent(x) <= 100
      BY <1>11, Segment1
    <3>2. Sensor!Percent(y) >= 100
      BY <2>2, AtLeast, OffTheCurve
    <3> QED
      BY <3>1, <3>2, AtLeast
  <2> QED
    BY <2>1, <2>2
<1> QED
  BY <1>1, <1>2, <1>3, <1>4, <1>5, <1>6, <1>7, <1>8, <1>9, <1>10, <1>11

\* A reading, or none yet, has the charge of its voltage.
ReadInv(r) == r.mv \in Int /\ r.percent = Sensor!Percent(r.mv)

\* The inductive invariant of the battery: what exists is what the driver knows of and what
\* it gave up.
BatteryInv ==
    /\ power \in [ready : BOOLEAN, calibrated : BOOLEAN]
    /\ taken \in [adc : Int, cali : Int, dropped : Int]
    /\ taken.adc = IF power.ready THEN 1 ELSE 0
    /\ taken.cali - taken.dropped = IF power.calibrated THEN 1 ELSE 0
    /\ power.calibrated => power.ready
    /\ ReadInv(reading.before) /\ ReadInv(reading.last)

\* tp4065b_init, and one that fails at its pins.
LEMMA BatteryStarted ==
    ASSUME BatteryInv, NEW phase \in Sensor!Schemes \cup {"pins"}, Sensor!BatteryInit(phase)
    PROVE  BatteryInv'
<1>1. reading' = reading /\ power.ready = FALSE
  BY DEF Sensor!BatteryInit, BatteryInv
<1>2. CASE UNCHANGED <<power, taken>>
  <2>1. power' = power /\ taken' = taken
    BY <1>2
  <2> QED
    BY <1>1, <2>1 DEF BatteryInv
<1>3. CASE /\ power' = [ready |-> TRUE, calibrated |-> phase # "none"]
           /\ taken' = [adc |-> taken.adc + 1,
                        cali |-> taken.cali + (IF phase = "none" THEN 0 ELSE 1),
                        dropped |-> taken.dropped]
  <2>1. power.calibrated = FALSE
    BY <1>1 DEF BatteryInv
  <2>2. taken.adc = 0 /\ taken.cali \in Int /\ taken.dropped \in Int /\ taken.cali = taken.dropped
    BY <1>1, <2>1 DEF BatteryInv
  <2>3. CASE phase = "none"
    <3>3. (IF phase = "none" THEN 0 ELSE 1) = 0 /\ (phase # "none") = FALSE
      BY <2>3
    <3>4. power' = [ready |-> TRUE, calibrated |-> FALSE]
          /\ taken' = [adc |-> taken.adc + 1, cali |-> taken.cali + 0, dropped |-> taken.dropped]
      BY <1>3, <3>3, Zenon
    <3>1. power' = [ready |-> TRUE, calibrated |-> FALSE]
          /\ taken' = [adc |-> 1, cali |-> taken.cali, dropped |-> taken.dropped]
      BY <2>2, <3>4
    <3>2. power'.ready = TRUE /\ power'.calibrated = FALSE /\ taken'.adc = 1
          /\ taken'.cali = taken.cali /\ taken'.dropped = taken.dropped
      BY <3>1
    <3> QED
      BY <1>1, <2>2, <3>1, <3>2 DEF BatteryInv
  <2>4. CASE phase # "none"
    <3>3. (IF phase = "none" THEN 0 ELSE 1) = 1 /\ (phase # "none") = TRUE
      BY <2>4
    <3>4. power' = [ready |-> TRUE, calibrated |-> TRUE]
          /\ taken' = [adc |-> taken.adc + 1, cali |-> taken.cali + 1, dropped |-> taken.dropped]
      BY <1>3, <3>3, Zenon
    <3>1. power' = [ready |-> TRUE, calibrated |-> TRUE]
          /\ taken' = [adc |-> 1, cali |-> taken.cali + 1, dropped |-> taken.dropped]
      BY <2>2, <3>4
    <3>2. power'.ready = TRUE /\ power'.calibrated = TRUE /\ taken'.adc = 1
          /\ taken'.cali = taken.cali + 1 /\ taken'.dropped = taken.dropped
      BY <3>1, <2>2
    <3> QED
      BY <1>1, <2>2, <3>1, <3>2 DEF BatteryInv
  <2> QED
    BY <2>3, <2>4
<1> QED
  BY <1>2, <1>3, Zenon DEF Sensor!BatteryInit

\* tp4065b_deinit.
LEMMA BatteryStopped ==
    ASSUME BatteryInv, Sensor!BatteryDeinit
    PROVE  BatteryInv'
<1>1. /\ reading' = reading /\ power.ready = TRUE
      /\ power' = [ready |-> FALSE, calibrated |-> FALSE]
      /\ taken' = [taken EXCEPT !.adc = @ - 1, !.cali = IF power.calibrated THEN @ - 1 ELSE @]
  BY DEF Sensor!BatteryDeinit, Sensor!PowerOff, BatteryInv
<1>2. /\ taken'.adc = 0 /\ taken'.cali = taken'.dropped
      /\ taken' \in [adc : Int, cali : Int, dropped : Int]
  <2> DEFINE left == IF power.calibrated THEN taken.cali - 1 ELSE taken.cali
             none == taken.adc - 1
  <2>1. taken' = [taken EXCEPT !.adc = none, !.cali = left]
    BY <1>1
  <2>2. taken \in [adc : Int, cali : Int, dropped : Int]
    BY DEF BatteryInv
  <2>3. none = 0 /\ left \in Int /\ left = taken.dropped
    BY <1>1 DEF BatteryInv
  <2> HIDE DEF left, none
  <2>4. taken'.adc = none /\ taken'.cali = left /\ taken'.dropped = taken.dropped
    BY <2>1, <2>2
  <2>5. none \in Int
    BY <2>3
  <2>6. taken' \in [adc : Int, cali : Int, dropped : Int]
    BY <2>1, <2>2, <2>3, <2>5
  <2> QED
    BY <2>3, <2>4, <2>6
<1> QED
  BY <1>1, <1>2 DEF BatteryInv

\* A reading; a calibration that fails is given up, and stays.
LEMMA BatteryReadIs ==
    ASSUME Samples \subseteq Nat, BatteryInv, NEW raw \in Samples,
           NEW how \in {"read", "uncalibrated", "unread"}, NEW charging \in BOOLEAN,
           Sensor!BatteryRead(raw, how, charging)
    PROVE  BatteryInv'
<1> DEFINE mv == IF how = "unread" THEN 0 ELSE Sensor!Clamped(raw)
           drops == how = "uncalibrated" /\ power.calibrated
<1>1. mv \in Int
  BY DEF Sensor!Clamped
<1>2. reading'.before = reading.last /\ reading'.last.mv = mv
      /\ reading'.last.percent = Sensor!Percent(mv)
  BY DEF Sensor!BatteryRead
<1>3. ReadInv(reading'.before) /\ ReadInv(reading'.last)
  <2> HIDE DEF mv
  <2>1. ReadInv(reading'.last)
    BY <1>1, <1>2 DEF ReadInv
  <2>2. ReadInv(reading'.before)
    BY <1>2, Zenon DEF BatteryInv
  <2> QED
    BY <2>1, <2>2
<1>4. /\ power' = [power EXCEPT !.calibrated = @ /\ ~drops]
      /\ taken' = [taken EXCEPT !.dropped = IF drops THEN @ + 1 ELSE @]
  BY Zenon DEF Sensor!BatteryRead
<1>5. power \in [ready : BOOLEAN, calibrated : BOOLEAN]
      /\ taken \in [adc : Int, cali : Int, dropped : Int]
  BY DEF BatteryInv
<1>6. power.ready = TRUE
  BY DEF Sensor!BatteryRead, BatteryInv
<1>7. CASE drops
  <2>1. power'.calibrated = FALSE /\ power'.ready = TRUE
        /\ power' \in [ready : BOOLEAN, calibrated : BOOLEAN]
    BY <1>4, <1>5, <1>6, <1>7
  <2>2. taken'.adc = taken.adc /\ taken'.cali = taken.cali /\ taken'.dropped = taken.dropped + 1
        /\ taken' \in [adc : Int, cali : Int, dropped : Int]
    BY <1>4, <1>5, <1>7
  <2>3. taken.adc = 1 /\ taken.cali - taken.dropped = 1
    BY <1>6, <1>7 DEF BatteryInv
  <2> QED
    BY <1>3, <1>5, <2>1, <2>2, <2>3 DEF BatteryInv
<1>8. CASE ~drops
  <2>1. power' = power /\ taken' = taken
    BY <1>4, <1>5, <1>8
  <2> QED
    BY <1>3, <2>1 DEF BatteryInv
<1> QED
  BY <1>7, <1>8

\* Every step of the sensors keeps the invariant of the battery.
LEMMA BatteryInvInductive ==
    ASSUME Samples \subseteq Nat
    PROVE  BatteryInv /\ [Sensor!Next]_Sensor!vars => BatteryInv'
<1> SUFFICES ASSUME BatteryInv, [Sensor!Next]_Sensor!vars
             PROVE  BatteryInv'
  OBVIOUS
<1>1. CASE UNCHANGED Sensor!batteryVars
  <2>1. power' = power /\ taken' = taken /\ reading' = reading
    BY <1>1 DEF Sensor!batteryVars
  <2> QED
    BY <2>1 DEF BatteryInv
<1>2. CASE Sensor!BatteryNext
  BY <1>2, BatteryStarted, BatteryStopped, BatteryReadIs, Zenon DEF Sensor!BatteryNext
<1> QED
  BY <1>1, <1>2, Zenon DEF Sensor!Next, Sensor!vars

\* More voltage is never less charge, the charge is a percentage, and what init took deinit
\* gives back, but for a calibration that was given up (voltage_to_percent, tp4065b_init,
\* tp4065b_deinit): for any samples.
THEOREM BatteryTellsItsCharge ==
    ASSUME Samples \subseteq Nat
    PROVE  Sensor!Init /\ [][Sensor!Next]_Sensor!vars => []Sensor!BatteryIsSound
<1>1. Sensor!Init => BatteryInv
  <2> SUFFICES ASSUME Sensor!Init PROVE BatteryInv
    OBVIOUS
  <2>1. power = [ready |-> FALSE, calibrated |-> FALSE]
        /\ taken = [adc |-> 0, cali |-> 0, dropped |-> 0]
    BY DEF Sensor!Init, Sensor!BatteryStart, Sensor!PowerOff
  <2>2. /\ reading.before.mv = -1 /\ reading.before.percent = 0
        /\ reading.last.mv = -1 /\ reading.last.percent = 0
    BY DEF Sensor!Init, Sensor!BatteryStart, Sensor!NoReading
  <2>3. Sensor!Percent(-1) = 0
    BY OffTheCurve
  <2>4. ReadInv(reading.before) /\ ReadInv(reading.last)
    BY <2>2, <2>3 DEF ReadInv
  <2> QED
    BY <2>1, <2>4 DEF BatteryInv
<1>2. BatteryInv => Sensor!BatteryIsSound
  <2> SUFFICES ASSUME BatteryInv PROVE Sensor!BatteryIsSound
    OBVIOUS
  <2>1. /\ reading.before.mv \in Int /\ reading.before.percent = Sensor!Percent(reading.before.mv)
        /\ reading.last.mv \in Int /\ reading.last.percent = Sensor!Percent(reading.last.mv)
    BY DEF BatteryInv, ReadInv
  <2>2. reading.before.mv <= reading.last.mv => reading.before.percent <= reading.last.percent
    BY <2>1, MoreIsNotLess
  <2>3. reading.last.mv <= reading.before.mv => reading.last.percent <= reading.before.percent
    BY <2>1, MoreIsNotLess
  <2>4. reading.last.percent \in 0..100 /\ reading.before.percent \in 0..100
    BY <2>1, AtLeast
  <2> QED
    BY <2>1, <2>2, <2>3, <2>4 DEF BatteryInv, Sensor!BatteryIsSound
<1> QED
  BY <1>1, <1>2, BatteryInvInductive, PTL
=============================================================================
