-------------------------- MODULE HalRegistryProofs --------------------------
(***************************************************************************)
(* Proofs about HalRegistry.  The inductive invariant says where a writer  *)
(* is: it holds the mutex, its clone is the last generation of the heap,   *)
(* newer than the current one, and equal to the current one but for the    *)
(* fields its program counter says it has written.  What is current stays  *)
(* as it is until the clone is complete; and since no generation up to the *)
(* current one changes, what a reader has loaded stays true.               *)
(***************************************************************************)
EXTENDS HalRegistry, TLAPS

\* What a registration makes of a registry.
Entered(reg, r) == WithCount(WithConfig(WithDriver(reg, r), r), r)

MutexHeld == \A t \in Tasks : pc[t] \in Holding <=> writer = t

CloneIsLast ==
    /\ \A t \in Tasks : pc[t] \in Filling => next[t] = Len(heap) /\ Len(heap) = current + 1
    /\ (\A t \in Tasks : pc[t] \notin Filling) => Len(heap) = current

\* The clone of task t is as far as the task is.
CloneOf(t) ==
    LET old == heap[current]
        new == heap[next[t]]
        r == request[t]
    IN  /\ pc[t] = "driver" => new = old
        /\ pc[t] = "config" => ~Full(old, r) /\ new = WithDriver(old, r)
        /\ pc[t] = "count" => ~Full(old, r) /\ new = WithConfig(WithDriver(old, r), r)
        /\ pc[t] = "publish" =>
               \/ result[t] = "OK" /\ ~Full(old, r) /\ new = Entered(old, r)
               \/ result[t] = "NO_MEM" /\ Full(old, r) /\ new = old

ClonesProgress == \A t \in Tasks : CloneOf(t)

GenerationsCoherent == \A g \in 1 .. current : heap[g].driver = heap[g].config

ViewsPublished == \A q \in Readers : view[q].at # "idle" => view[q].gen \in 1 .. current

ViewMatches(q) ==
    /\ view[q].at = "config" =>
           view[q].driver \in Requests /\ view[q].driver = Generation(q).driver[view[q].place]
    /\ view[q].at = "done" => view[q].driver \in Requests /\ view[q].config = view[q].driver

ViewsMatch == \A q \in Readers : ViewMatches(q)

IInv ==
    /\ TypeOK /\ MutexHeld /\ CloneIsLast /\ ClonesProgress
    /\ GenerationsCoherent /\ ViewsPublished /\ ViewsMatch

-----------------------------------------------------------------------------
(* What a registration does to a registry                                  *)

\* Each request is for a kind, and each kind has its places.
LEMMA RegistryFacts ==
    /\ Nobody \notin Tasks /\ NoRequest \notin Requests
    /\ Singles \subseteq Kinds
    /\ KindOf \in [Requests -> Kinds]
    /\ Capacity \in [Kinds -> Nat] /\ \A k \in Singles : Capacity[k] = 1
    /\ MaxCalls \in Nat
<1>1. KindOf \in [Requests -> Kinds]
  BY DEF Requests, KindOf
<1>2. /\ Capacity = [k \in Kinds |-> Capacity[k]]
      /\ \A k \in Singles : Capacity[k] = 1
      /\ \A k \in Kinds \ Singles : Capacity[k] \in {MaxInputs, MaxStorage}
  BY RegistryAssumption DEF Capacity
<1>3. Capacity \in [Kinds -> Nat]
  BY <1>2, RegistryAssumption
<1> QED BY <1>1, <1>2, <1>3, RegistryAssumption

LEMMA PlaceExists ==
    ASSUME NEW k \in Kinds, NEW i \in 1 .. Capacity[k]
    PROVE  <<k, i>> \in Places
  <1>1. <<k, i>> \in {k} \X (1 .. Capacity[k])
    OBVIOUS
  <1>2. QED
    BY <1>1 DEF Places

LEMMA DriverWritten ==
    ASSUME NEW reg \in Registry, NEW r \in Requests
    PROVE  /\ WithDriver(reg, r) \in Registry
           /\ WithDriver(reg, r).driver = [reg.driver EXCEPT ![Place(reg, r)] = r]
           /\ WithDriver(reg, r).config = reg.config
           /\ WithDriver(reg, r).count = reg.count
  BY DEF WithDriver, Registry, Cells

LEMMA ConfigWritten ==
    ASSUME NEW reg \in Registry, NEW r \in Requests
    PROVE  /\ WithConfig(reg, r) \in Registry
           /\ WithConfig(reg, r).driver = reg.driver
           /\ WithConfig(reg, r).config = [reg.config EXCEPT ![Place(reg, r)] = r]
           /\ WithConfig(reg, r).count = reg.count
  BY DEF WithConfig, Registry, Cells

LEMMA CountWritten ==
    ASSUME NEW reg \in Registry, NEW r \in Requests
    PROVE  /\ WithCount(reg, r) \in Registry
           /\ WithCount(reg, r).driver = reg.driver
           /\ WithCount(reg, r).config = reg.config
           /\ WithCount(reg, r).count =
                IF KindOf[r] \in Singles THEN reg.count
                ELSE [reg.count EXCEPT ![KindOf[r]] = @ + 1]
  BY RegistryFacts DEF WithCount, Registry, Cells

LEMMA EnteredFields ==
    ASSUME NEW reg \in Registry, NEW r \in Requests
    PROVE  /\ Entered(reg, r) \in Registry
           /\ Entered(reg, r).driver = [reg.driver EXCEPT ![Place(reg, r)] = r]
           /\ Entered(reg, r).config = [reg.config EXCEPT ![Place(reg, r)] = r]
           /\ Entered(reg, r).count =
                IF KindOf[r] \in Singles THEN reg.count
                ELSE [reg.count EXCEPT ![KindOf[r]] = @ + 1]
  <1> DEFINE one == WithDriver(reg, r)
             two == WithConfig(one, r)
  <1>1. /\ one \in Registry
        /\ one.driver = [reg.driver EXCEPT ![Place(reg, r)] = r]
        /\ one.config = reg.config
        /\ one.count = reg.count
    BY DriverWritten
  <1>2. Place(one, r) = Place(reg, r)
    BY <1>1 DEF Place
  <1> HIDE DEF one
  <1>3. /\ two \in Registry
        /\ two.driver = one.driver
        /\ two.config = [one.config EXCEPT ![Place(one, r)] = r]
        /\ two.count = one.count
    BY <1>1, ConfigWritten
  <1> HIDE DEF two
  <1>4. Entered(reg, r) = WithCount(two, r)
    BY DEF Entered, one, two
  <1>5. QED
    BY <1>1, <1>2, <1>3, <1>4, CountWritten

\* A place that is free exists.
LEMMA FreePlace ==
    ASSUME NEW reg \in Registry, NEW r \in Requests, ~Full(reg, r)
    PROVE  Place(reg, r) \in Places
  <1>1. KindOf[r] \in Kinds
    BY RegistryFacts
  <1>2. CASE KindOf[r] \in Singles
    <2>1. 1 \in 1 .. Capacity[KindOf[r]]
      BY <1>2, RegistryFacts
    <2>2. QED
      BY <1>1, <1>2, <2>1, PlaceExists DEF Place
  <1>3. CASE KindOf[r] \notin Singles
    <2>1. reg.count[KindOf[r]] + 1 \in 1 .. Capacity[KindOf[r]]
      BY <1>1, <1>3, RegistryFacts DEF Full, Registry
    <2>2. QED
      BY <1>1, <1>3, <2>1, PlaceExists DEF Place
  <1>4. QED
    BY <1>2, <1>3

-----------------------------------------------------------------------------
(* What a reader of the abstract registry finds after a registration       *)

LEMMA CountedPlaces ==
    ASSUME NEW reg \in Registry, Fits(reg), NEW k \in Kinds
    PROVE  /\ Entries(reg, k) \in Nat
           /\ \A i \in 1 .. Entries(reg, k) : <<k, i>> \in Places
           /\ k \in Singles => <<k, 1>> \in Places
  <1>1. Entries(reg, k) \in Nat /\ Entries(reg, k) <= Capacity[k] /\ Capacity[k] \in Nat
    BY RegistryFacts DEF Entries, Fits, Registry
  <1>2. \A i \in 1 .. Entries(reg, k) : i \in 1 .. Capacity[k]
    BY <1>1
  <1>3. k \in Singles => 1 \in 1 .. Capacity[k]
    BY RegistryFacts
  <1>4. QED
    BY <1>1, <1>2, <1>3, PlaceExists

LEMMA OtherKindsStay ==
    ASSUME NEW reg \in Registry, Fits(reg), NEW r \in Requests,
           NEW k \in Kinds, k # KindOf[r]
    PROVE  Found(Entered(reg, r), k) = Found(reg, k)
  <1>1. PICK new \in Registry : new = Entered(reg, r)
    BY EnteredFields
  <1>2. /\ new.driver = [reg.driver EXCEPT ![Place(reg, r)] = r]
        /\ new.config = [reg.config EXCEPT ![Place(reg, r)] = r]
        /\ new.count = IF KindOf[r] \in Singles THEN reg.count
                       ELSE [reg.count EXCEPT ![KindOf[r]] = @ + 1]
    BY <1>1, EnteredFields
  <1>3. \A i : <<k, i>> # Place(reg, r)
    BY DEF Place
  <1>4. \A i : <<k, i>> \in Places =>
            new.driver[<<k, i>>] = reg.driver[<<k, i>>] /\ new.config[<<k, i>>] = reg.config[<<k, i>>]
    BY <1>2, <1>3 DEF Registry
  <1>5. Entries(new, k) = Entries(reg, k)
    BY <1>2 DEF Entries, Registry
  <1>6. k \in Singles => new.driver[<<k, 1>>] = reg.driver[<<k, 1>>]
    BY <1>4, CountedPlaces
  <1>7. [i \in 1 .. Entries(new, k) |-> <<new.driver[<<k, i>>], new.config[<<k, i>>]>>]
        = [i \in 1 .. Entries(reg, k) |-> <<reg.driver[<<k, i>>], reg.config[<<k, i>>]>>]
    BY <1>4, <1>5, CountedPlaces
  <1>8. Found(new, k) = Found(reg, k)
    BY <1>6, <1>7 DEF Found
  <1>9. QED
    BY <1>1, <1>8

LEMMA KindGainsEntry ==
    ASSUME NEW reg \in Registry, Fits(reg), NEW r \in Requests, ~Full(reg, r)
    PROVE  Found(Entered(reg, r), KindOf[r]) =
               Atomic!With(Found(reg, KindOf[r]), KindOf[r], <<r, r>>)
  <1>1. PICK new \in Registry : new = Entered(reg, r)
    BY EnteredFields
  <1>2. PICK k \in Kinds : k = KindOf[r]
    BY RegistryFacts
  <1>3. PICK p \in Places : p = Place(reg, r)
    BY FreePlace
  <1>4. /\ new.driver = [reg.driver EXCEPT ![p] = r]
        /\ new.config = [reg.config EXCEPT ![p] = r]
        /\ new.count = IF k \in Singles THEN reg.count ELSE [reg.count EXCEPT ![k] = @ + 1]
    BY <1>1, <1>2, <1>3, EnteredFields
  <1>5. /\ new.driver[p] = r /\ new.config[p] = r
        /\ \A x \in Places \ {p} : new.driver[x] = reg.driver[x] /\ new.config[x] = reg.config[x]
    BY <1>4 DEF Registry
  <1>6. CASE k \in Singles
    <2>1. p = <<k, 1>>
      BY <1>2, <1>3, <1>6 DEF Place
    <2>2. Entries(new, k) = 1 /\ new.driver[<<k, 1>>] # NoRequest
      BY <1>5, <1>6, <2>1, RegistryFacts DEF Entries
    <2>3. Found(new, k) = [i \in 1 .. 1 |-> <<new.driver[<<k, i>>], new.config[<<k, i>>]>>]
      BY <2>2 DEF Found
    <2>4. [i \in 1 .. 1 |-> <<new.driver[<<k, i>>], new.config[<<k, i>>]>>] = <<<<r, r>>>>
      BY <1>5, <2>1
    <2>5. QED
      BY <1>1, <1>2, <1>6, <2>3, <2>4 DEF Atomic!With
  <1>7. CASE k \notin Singles
    <2>1. PICK n \in Nat : n = reg.count[k]
      BY DEF Registry
    <2>2. p = <<k, n + 1>> /\ Entries(reg, k) = n /\ Entries(new, k) = n + 1
      BY <1>2, <1>3, <1>4, <1>7, <2>1 DEF Place, Entries, Registry
    <2>3. \A i \in 1 .. n : <<k, i>> \in Places \ {p}
      <3>1. \A i \in 1 .. n : <<k, i>> \in Places
        BY <2>2, CountedPlaces
      <3>2. \A i \in 1 .. n : <<k, i>> # <<k, n + 1>>
        BY <2>1
      <3>3. QED
        BY <2>2, <3>1, <3>2
    <2>4. \A i \in 1 .. n : new.driver[<<k, i>>] = reg.driver[<<k, i>>]
                            /\ new.config[<<k, i>>] = reg.config[<<k, i>>]
      BY <1>5, <2>3
    <2>5. PICK old : old = [i \in 1 .. n |-> <<reg.driver[<<k, i>>], reg.config[<<k, i>>]>>]
      OBVIOUS
    <2>6. old \in Seq(Cells \X Cells) /\ Len(old) = n
      BY <2>3, <2>5 DEF Registry
    <2>7. [i \in 1 .. (n + 1) |-> <<new.driver[<<k, i>>], new.config[<<k, i>>]>>]
          = Append(old, <<r, r>>)
      <3>1. Append(old, <<r, r>>) = [i \in 1 .. (n + 1) |-> IF i = n + 1 THEN <<r, r>> ELSE old[i]]
        BY <2>6
      <3>2. \A i \in 1 .. (n + 1) : i = n + 1 \/ i \in 1 .. n
        BY <2>1
      <3>3. \A i \in 1 .. n : i # n + 1
        BY <2>1
      <3>4. <<new.driver[<<k, n + 1>>], new.config[<<k, n + 1>>]>> = <<r, r>>
        BY <1>5, <2>2
      <3>5. QED
        BY <2>4, <2>5, <3>1, <3>2, <3>3, <3>4
    <2>8. Found(new, k) = Append(Found(reg, k), <<r, r>>)
      BY <1>7, <2>2, <2>5, <2>7 DEF Found
    <2>9. QED
      BY <1>1, <1>2, <1>7, <2>8 DEF Atomic!With
  <1>8. QED
    BY <1>6, <1>7

LEMMA FullIsFull ==
    ASSUME NEW reg \in Registry, Fits(reg), NEW r \in Requests, Full(reg, r)
    PROVE  /\ KindOf[r] \notin Singles
           /\ Len(Found(reg, KindOf[r])) = Capacity[KindOf[r]]
  <1>1. PICK k \in Kinds : k = KindOf[r]
    BY RegistryFacts
  <1>2. k \notin Singles /\ Entries(reg, k) = Capacity[k] /\ Capacity[k] \in Nat
    BY <1>1, RegistryFacts DEF Full, Fits, Entries, Registry
  <1>3. Found(reg, k) = [i \in 1 .. Capacity[k] |-> <<reg.driver[<<k, i>>], reg.config[<<k, i>>]>>]
    BY <1>2 DEF Found
  <1>4. QED
    BY <1>1, <1>2, <1>3

-----------------------------------------------------------------------------
(* The steps, one named disjunct each                                      *)

WriterStep(t) ==
    \/ \E r \in Requests : Call(t, r)
    \/ Lock(t) \/ Clone(t) \/ Refused(t) \/ WriteDriver(t) \/ WriteConfig(t)
    \/ WriteCount(t) \/ Publish(t) \/ Unlock(t)

\* The registry and its writers stay as they are.
Aside == UNCHANGED <<heap, current, taskVars>>

ReaderStep(q) == Aside /\ Reader(q)

LEMMA Steps ==
    ASSUME [Next]_vars
    PROVE  \/ \E t \in Tasks : WriterStep(t) /\ UNCHANGED view
           \/ \E q \in Readers : ReaderStep(q)
           \/ UNCHANGED vars
<1>1. ASSUME NEW t \in Tasks, Writer(t) PROVE WriterStep(t) /\ UNCHANGED view
  <2>1. WriterStep(t)
    BY <1>1, Zenon DEF Writer, WriterStep
  <2>2. UNCHANGED view
    BY <1>1 DEF Writer, Call, Lock, Clone, Refused, WriteDriver, WriteConfig, WriteCount,
                Publish, Unlock
  <2> QED
    BY <2>1, <2>2
<1>2. ASSUME NEW q \in Readers, Reader(q) PROVE ReaderStep(q)
  BY <1>2, Zenon DEF Reader, ReaderStep, Aside, Load, LookAt, ReadDriver, ReadConfig
<1> QED
  BY <1>1, <1>2, Zenon DEF Next

LEMMA OneHolder ==
    ASSUME MutexHeld, NEW t \in Tasks, NEW u \in Tasks, pc[t] \in Holding, pc[u] \in Holding
    PROVE  t = u
  BY DEF MutexHeld

\* What the holder writes is its clone; the generations up to the current one
\* stay as they are.
LEMMA CloneWritten ==
    ASSUME TypeOK, CloneIsLast, NEW t \in Tasks, pc[t] \in Filling,
           NEW reg \in Registry, Fits(reg), heap' = [heap EXCEPT ![next[t]] = reg]
    PROVE  /\ heap' \in Seq(Registry) /\ Len(heap') = Len(heap)
           /\ \A g \in DOMAIN heap' : Fits(heap'[g])
           /\ heap'[next[t]] = reg
           /\ \A g \in 1 .. current : heap'[g] = heap[g]
  <1>1. next[t] = Len(heap) /\ current < Len(heap)
    <2>1. next[t] = Len(heap) /\ Len(heap) = current + 1 /\ Len(heap) \in Nat /\ current \in Nat
      BY DEF CloneIsLast, TypeOK, HeapTypeOK
    <2>2. QED
      BY <2>1
  <1>2. heap \in Seq(Registry) /\ current \in 1 .. Len(heap) /\ Len(heap) \in Nat
    BY DEF TypeOK, HeapTypeOK
  <1>3. \A g \in 1 .. Len(heap) : Fits(heap[g])
    BY <1>2 DEF TypeOK, HeapTypeOK
  <1>4. heap' \in Seq(Registry) /\ Len(heap') = Len(heap)
    <2>1. heap \in [1 .. Len(heap) -> Registry]
      BY <1>2
    <2>2. \A h \in [1 .. Len(heap) -> Registry] :
              [h EXCEPT ![next[t]] = reg] \in [1 .. Len(heap) -> Registry]
      OBVIOUS
    <2>3. heap' \in [1 .. Len(heap) -> Registry]
      BY <2>1, <2>2
    <2>4. QED
      BY <1>2, <2>3
  <1>5. \A g \in 1 .. Len(heap) : heap'[g] = IF g = next[t] THEN reg ELSE heap[g]
    BY <1>1, <1>2
  <1>6. DOMAIN heap' = 1 .. Len(heap)
    BY <1>4
  <1>7. \A g \in DOMAIN heap' : Fits(heap'[g])
    BY <1>3, <1>5, <1>6
  <1>8. next[t] \in 1 .. Len(heap) /\ \A g \in 1 .. current : g \in 1 .. Len(heap) /\ g # next[t]
    BY <1>1, <1>2
  <1>9. QED
    BY <1>4, <1>5, <1>7, <1>8

\* The clone the holder has, and what it makes of it.
LEMMA CloneFilled ==
    ASSUME TypeOK, NEW t \in Tasks, pc[t] \in Filling
    PROVE  /\ heap[next[t]] \in Registry /\ Fits(heap[next[t]])
           /\ WithDriver(heap[next[t]], request[t]) \in Registry
           /\ Fits(WithDriver(heap[next[t]], request[t]))
           /\ WithConfig(heap[next[t]], request[t]) \in Registry
           /\ Fits(WithConfig(heap[next[t]], request[t]))
           /\ WithCount(heap[next[t]], request[t]) \in Registry
           /\ ~Full(heap[next[t]], request[t]) => Fits(WithCount(heap[next[t]], request[t]))
  <1>1. PICK r \in Requests : r = request[t]
    BY DEF TypeOK, TasksTypeOK, Filling
  <1>2. next[t] \in DOMAIN heap /\ heap \in Seq(Registry)
    BY DEF TypeOK, TasksTypeOK, HeapTypeOK
  <1>3. PICK reg \in Registry : reg = heap[next[t]] /\ Fits(reg)
    BY <1>2 DEF TypeOK, HeapTypeOK
  <1>4. WithDriver(reg, r) \in Registry /\ Fits(WithDriver(reg, r))
    BY <1>3, DriverWritten DEF Fits
  <1>5. WithConfig(reg, r) \in Registry /\ Fits(WithConfig(reg, r))
    BY <1>3, ConfigWritten DEF Fits
  <1>6. WithCount(reg, r) \in Registry
    BY CountWritten
  <1>7. ASSUME ~Full(reg, r) PROVE Fits(WithCount(reg, r))
    <2>1. KindOf[r] \in Kinds
      BY RegistryFacts
    <2>2. CASE KindOf[r] \in Singles
      BY <1>3, <2>2, CountWritten DEF Fits
    <2>3. CASE KindOf[r] \notin Singles
      <3>1. reg.count \in [Kinds -> Nat] /\ reg.count[KindOf[r]] + 1 <= Capacity[KindOf[r]]
        BY <1>7, <2>1, <2>3, RegistryFacts DEF Full, Registry
      <3>2. WithCount(reg, r).count = [reg.count EXCEPT ![KindOf[r]] = @ + 1]
        BY <2>3, CountWritten
      <3>3. QED
        BY <1>3, <2>1, <3>1, <3>2 DEF Fits
    <2>4. QED
      BY <2>2, <2>3
  <1>8. QED
    BY <1>1, <1>3, <1>4, <1>5, <1>6, <1>7

\* The heap grows, what is current only changes to what is newer, and the
\* generations up to the current one stay as they are.
HeapGrows ==
    /\ heap' \in Seq(Registry) /\ Len(heap') >= Len(heap)
    /\ \A g \in DOMAIN heap' : Fits(heap'[g])
    /\ \A g \in 1 .. current : heap'[g] = heap[g]
    /\ current' \in DOMAIN heap' /\ current' >= current

LEMMA HeapStep ==
    ASSUME IInv, [Next]_vars
    PROVE  HeapGrows
  <1>1. heap \in Seq(Registry) /\ Len(heap) \in Nat /\ current \in 1 .. Len(heap)
    BY DEF IInv, TypeOK, HeapTypeOK
  <1>2. \A g \in 1 .. Len(heap) : Fits(heap[g])
    BY <1>1 DEF IInv, TypeOK, HeapTypeOK
  <1>3. ASSUME heap' = heap, current' = current PROVE HeapGrows
    BY <1>1, <1>2, <1>3 DEF HeapGrows
  <1>4. ASSUME NEW t \in Tasks, pc[t] \in Filling, NEW reg \in Registry, Fits(reg),
               heap' = [heap EXCEPT ![next[t]] = reg], current' = current
        PROVE  HeapGrows
    <2>1. TypeOK /\ CloneIsLast
      BY DEF IInv
    <2>2. /\ heap' \in Seq(Registry) /\ Len(heap') = Len(heap)
          /\ \A g \in DOMAIN heap' : Fits(heap'[g])
          /\ \A g \in 1 .. current : heap'[g] = heap[g]
      BY <1>4, <2>1, CloneWritten
    <2>3. current' \in DOMAIN heap'
      BY <1>1, <1>4, <2>2
    <2>4. QED
      BY <1>1, <1>4, <2>2, <2>3 DEF HeapGrows
  <1>5. ASSUME NEW t \in Tasks, WriterStep(t) PROVE HeapGrows
    <2>1. CASE heap' = heap /\ current' = current
      BY <1>3, <2>1
    <2>2. CASE Clone(t)
      <3>1. heap[current] \in Registry /\ Fits(heap[current])
        BY <1>1, <1>2
      <3>2. heap' = Append(heap, heap[current]) /\ current' = current
        BY <2>2 DEF Clone
      <3>3. heap' \in Seq(Registry) /\ Len(heap') = Len(heap) + 1
        BY <1>1, <3>1, <3>2
      <3>4. \A g \in 1 .. Len(heap') : heap'[g] = IF g <= Len(heap) THEN heap[g] ELSE heap[current]
        BY <1>1, <3>2, <3>3
      <3>5. \A g \in 1 .. Len(heap') : Fits(heap'[g])
        BY <1>1, <1>2, <3>1, <3>3, <3>4
      <3>6. \A g \in 1 .. current : heap'[g] = heap[g]
        BY <1>1, <3>3, <3>4
      <3>7. QED
        BY <1>1, <3>2, <3>3, <3>5, <3>6 DEF HeapGrows
    <2>3. CASE WriteDriver(t)
      <3>1. pc[t] \in Filling
        BY <2>3 DEF WriteDriver, Filling
      <3>2. QED
        BY <1>4, <2>3, <3>1, CloneFilled DEF WriteDriver, IInv
    <2>4. CASE WriteConfig(t)
      <3>1. pc[t] \in Filling
        BY <2>4 DEF WriteConfig, Filling
      <3>2. QED
        BY <1>4, <2>4, <3>1, CloneFilled DEF WriteConfig, IInv
    <2>5. CASE WriteCount(t)
      <3>1. pc[t] \in Filling
        BY <2>5 DEF WriteCount, Filling
      <3>2. ~Full(heap[next[t]], request[t])
        <4>1. PICK r \in Requests : r = request[t]
          BY <3>1 DEF IInv, TypeOK, TasksTypeOK, Filling
        <4>2. PICK old \in Registry : old = heap[current]
          BY <1>1
        <4>3. PICK half \in Registry : half = WithDriver(old, r)
          BY DriverWritten
        <4>4. heap[next[t]] = WithConfig(half, r) /\ ~Full(old, r)
          BY <2>5, <4>1, <4>2, <4>3 DEF IInv, ClonesProgress, CloneOf, WriteCount
        <4>5. WithConfig(half, r).count = old.count
          <5>1. half.count = old.count
            BY <4>3, DriverWritten
          <5>2. WithConfig(half, r).count = half.count
            BY ConfigWritten
          <5>3. QED
            BY <5>1, <5>2
        <4>6. QED
          BY <4>1, <4>4, <4>5 DEF Full
      <3>3. QED
        BY <1>4, <2>5, <3>1, <3>2, CloneFilled DEF WriteCount, IInv
    <2>6. CASE Publish(t)
      <3>1. current' = Len(heap) /\ heap' = heap /\ current < Len(heap)
        BY <1>1, <2>6 DEF Publish, IInv, CloneIsLast, Filling
      <3>2. QED
        BY <1>1, <1>2, <3>1 DEF HeapGrows
    <2>7. QED
      BY <1>5, <2>1, <2>2, <2>3, <2>4, <2>5, <2>6
         DEF WriterStep, Call, Lock, Refused, Unlock
  <1>6. QED
    BY <1>3, <1>5, Steps DEF ReaderStep, Aside, vars

-----------------------------------------------------------------------------
(* Each part of the invariant is preserved                                 *)

LEMMA HeapTypeStep ==
    ASSUME IInv, [Next]_vars
    PROVE  HeapTypeOK'
  BY HeapStep DEF HeapGrows, HeapTypeOK

LEMMA TasksTypeStep ==
    ASSUME IInv, [Next]_vars
    PROVE  TasksTypeOK'
  <1> USE DEF TasksTypeOK
  <1>1. TasksTypeOK /\ heap \in Seq(Registry) /\ current \in DOMAIN heap
    BY DEF IInv, TypeOK, HeapTypeOK
  <1>2. DOMAIN heap \subseteq DOMAIN heap' /\ DOMAIN heap' = 1 .. Len(heap') /\ Len(heap) \in Nat
    BY <1>1, HeapStep DEF HeapGrows
  <1>3. ASSUME NEW t \in Tasks, NEW r \in Requests, Call(t, r) PROVE TasksTypeOK'
    BY <1>1, <1>2, <1>3 DEF Call, Cells, Holding, Filling
  <1>4. ASSUME NEW t \in Tasks, Lock(t) PROVE TasksTypeOK'
    BY <1>1, <1>2, <1>4 DEF Lock, Holding, Filling
  <1>5. ASSUME NEW t \in Tasks, Clone(t) PROVE TasksTypeOK'
    <2>1. Len(heap) + 1 \in DOMAIN heap'
      BY <1>1, <1>2, <1>5 DEF Clone
    <2>2. QED
      BY <1>1, <1>2, <1>5, <2>1 DEF Clone, Holding, Filling
  <1>6. ASSUME NEW t \in Tasks, Refused(t) PROVE TasksTypeOK'
    BY <1>1, <1>2, <1>6 DEF Refused, Holding, Filling
  <1>7. ASSUME NEW t \in Tasks, WriteDriver(t) \/ WriteConfig(t) PROVE TasksTypeOK'
    BY <1>1, <1>2, <1>7 DEF WriteDriver, WriteConfig, Holding, Filling
  <1>8. ASSUME NEW t \in Tasks, WriteCount(t) PROVE TasksTypeOK'
    BY <1>1, <1>2, <1>8 DEF WriteCount, Holding, Filling
  <1>9. ASSUME NEW t \in Tasks, Publish(t) \/ Unlock(t) PROVE TasksTypeOK'
    BY <1>1, <1>2, <1>9 DEF Publish, Unlock, Holding, Filling
  <1>10. ASSUME UNCHANGED <<heap, taskVars>> PROVE TasksTypeOK'
    BY <1>1, <1>2, <1>10 DEF taskVars
  <1>11. QED
    BY <1>3, <1>4, <1>5, <1>6, <1>7, <1>8, <1>9, <1>10, Steps
       DEF WriterStep, ReaderStep, Aside, vars

LEMMA MutexStep ==
    ASSUME IInv, [Next]_vars
    PROVE  MutexHeld'
  <1>1. MutexHeld /\ TasksTypeOK /\ Nobody \notin Tasks
    BY RegistryFacts DEF IInv, TypeOK
  <1>2. ASSUME NEW t \in Tasks, WriterStep(t) PROVE MutexHeld'
    <2>1. CASE writer' = writer /\ pc' = [pc EXCEPT ![t] = pc'[t]]
               /\ (pc'[t] \in Holding <=> pc[t] \in Holding)
      BY <1>1, <2>1 DEF MutexHeld, TasksTypeOK
    <2>2. CASE Lock(t)
      BY <1>1, <2>2 DEF Lock, MutexHeld, TasksTypeOK, Holding
    <2>3. CASE Unlock(t)
      BY <1>1, <2>3 DEF Unlock, MutexHeld, TasksTypeOK, Holding, Filling
    <2>4. QED
      BY <1>1, <1>2, <2>1, <2>2, <2>3
         DEF WriterStep, Call, Clone, Refused, WriteDriver, WriteConfig, WriteCount, Publish,
             TasksTypeOK, Holding, Filling
  <1>3. ASSUME UNCHANGED <<writer, pc>> PROVE MutexHeld'
    BY <1>1, <1>3 DEF MutexHeld
  <1>4. QED
    BY <1>2, <1>3, Steps DEF ReaderStep, Aside, taskVars, vars

LEMMA CloneIsLastStep ==
    ASSUME IInv, [Next]_vars
    PROVE  CloneIsLast'
  <1>1. /\ CloneIsLast /\ MutexHeld /\ TasksTypeOK
        /\ heap \in Seq(Registry) /\ Len(heap) \in Nat /\ current \in 1 .. Len(heap)
    BY DEF IInv, TypeOK, HeapTypeOK
  <1>2. ASSUME NEW t \in Tasks, WriterStep(t) PROVE CloneIsLast'
    <2>1. ASSUME Len(heap') = Len(heap), current' = current, next' = next,
                 \A u \in Tasks : pc'[u] \in Filling <=> pc[u] \in Filling
          PROVE  CloneIsLast'
      BY <1>1, <2>1 DEF CloneIsLast
    <2>2. CASE Lock(t) \/ Refused(t) \/ Unlock(t) \/ \E r \in Requests : Call(t, r)
      BY <1>1, <2>1, <2>2 DEF Call, Lock, Refused, Unlock, TasksTypeOK, Filling
    <2>3. CASE WriteDriver(t) \/ WriteConfig(t) \/ WriteCount(t)
      <3>1. Len(heap') = Len(heap)
        BY <1>1, <2>3, HeapStep DEF WriteDriver, WriteConfig, WriteCount, HeapGrows
      <3>2. QED
        BY <1>1, <2>1, <2>3, <3>1 DEF WriteDriver, WriteConfig, WriteCount, TasksTypeOK, Filling
    <2>4. ASSUME pc[t] \in Holding, NEW u \in Tasks, u # t PROVE pc[u] \notin Filling
      BY <1>1, <2>4, OneHolder DEF Holding
    <2>5. CASE Clone(t)
      <3>1. Len(heap') = Len(heap) + 1 /\ current' = current
        BY <1>1, <2>5 DEF Clone
      <3>2. \A u \in Tasks : u # t => pc'[u] \notin Filling
        BY <1>1, <2>4, <2>5 DEF Clone, TasksTypeOK, Holding
      <3>3. next'[t] = Len(heap') /\ pc'[t] = "driver"
        BY <1>1, <2>5, <3>1 DEF Clone, TasksTypeOK
      <3>4. \A u \in Tasks : pc[u] \notin Filling
        BY <2>4, <2>5 DEF Clone, Holding, Filling
      <3>5. Len(heap) = current
        BY <1>1, <3>4 DEF CloneIsLast
      <3>6. QED
        BY <1>1, <3>1, <3>2, <3>3, <3>5 DEF CloneIsLast, Filling
    <2>6. CASE Publish(t)
      <3>1. \A u \in Tasks : pc'[u] \notin Filling
        BY <1>1, <2>4, <2>6 DEF Publish, TasksTypeOK, Holding, Filling
      <3>2. current' = Len(heap')
        BY <1>1, <2>6 DEF Publish, CloneIsLast, Filling
      <3>3. QED
        BY <3>1, <3>2 DEF CloneIsLast
    <2>7. QED
      BY <1>2, <2>2, <2>3, <2>5, <2>6 DEF WriterStep
  <1>3. ASSUME UNCHANGED <<heap, current, pc, next>> PROVE CloneIsLast'
    BY <1>1, <1>3 DEF CloneIsLast
  <1>4. QED
    BY <1>2, <1>3, Steps DEF ReaderStep, Aside, taskVars, vars

\* Only the holder of the mutex has a clone to be told of.
LEMMA HolderOnly ==
    ASSUME IInv, NEW t \in Tasks, pc[t] \in Holding, NEW u \in Tasks, u # t,
           pc'[u] = pc[u]
    PROVE  CloneOf(u)'
  <1>1. pc[u] \notin Holding
    BY OneHolder DEF IInv
  <1>2. pc'[u] \notin {"driver", "config", "count", "publish"}
    BY <1>1 DEF Holding, Filling
  <1>3. QED
    BY <1>2 DEF CloneOf

LEMMA ProgressStep ==
    ASSUME IInv, [Next]_vars
    PROVE  ClonesProgress'
  <1>1. /\ TypeOK /\ ClonesProgress /\ CloneIsLast /\ TasksTypeOK
        /\ heap \in Seq(Registry) /\ Len(heap) \in Nat /\ current \in 1 .. Len(heap)
    BY DEF IInv, TypeOK, HeapTypeOK
  <1>2. ASSUME NEW t \in Tasks, pc[t] \in Holding, \A u \in Tasks : u # t => pc'[u] = pc[u],
               CloneOf(t)'
        PROVE  ClonesProgress'
    BY <1>2, HolderOnly DEF ClonesProgress
  <1>3. ASSUME UNCHANGED <<heap, current, next, result>>,
               \A u \in Tasks : pc'[u] \in Filling => pc'[u] = pc[u] /\ request'[u] = request[u]
        PROVE  ClonesProgress'
    <2>1. ASSUME NEW u \in Tasks PROVE CloneOf(u)'
      <3>1. CASE pc'[u] \in Filling
        BY <1>1, <1>3, <3>1 DEF ClonesProgress, CloneOf
      <3>2. CASE pc'[u] \notin Filling
        BY <3>2 DEF CloneOf, Filling
      <3>3. QED
        BY <3>1, <3>2
    <2>2. QED
      BY <2>1 DEF ClonesProgress
  <1>4. ASSUME NEW t \in Tasks, pc[t] \in Filling
        PROVE  /\ request[t] \in Requests /\ next[t] \in 1 .. Len(heap) /\ next[t] # current
               /\ heap[next[t]] \in Registry
    BY <1>1, <1>4 DEF TasksTypeOK, CloneIsLast, Filling
  <1>5. ASSUME NEW t \in Tasks, WriterStep(t) PROVE ClonesProgress'
    <2>1. CASE Lock(t) \/ Unlock(t) \/ \E r \in Requests : Call(t, r)
      BY <1>1, <1>3, <2>1 DEF Lock, Unlock, Call, TasksTypeOK, Filling
    <2>2. CASE Clone(t)
      <3>1. heap' = Append(heap, heap[current]) /\ heap[current] \in Registry
        BY <1>1, <2>2 DEF Clone
      <3>2. heap'[Len(heap) + 1] = heap[current] /\ heap'[current] = heap[current]
        BY <1>1, <3>1
      <3>3. /\ next'[t] = Len(heap) + 1 /\ current' = current /\ pc'[t] = "driver"
            /\ \A u \in Tasks : u # t => pc'[u] = pc[u]
        BY <1>1, <2>2 DEF Clone, TasksTypeOK
      <3>4. CloneOf(t)'
        BY <3>2, <3>3 DEF CloneOf
      <3>5. QED
        BY <1>2, <2>2, <3>3, <3>4 DEF Clone, Holding
    <2>3. CASE Refused(t)
      <3>1. /\ heap' = heap /\ next' = next /\ current' = current /\ request' = request
            /\ pc[t] = "driver" /\ pc'[t] = "publish" /\ result'[t] = "NO_MEM"
            /\ Full(heap[next[t]], request[t])
            /\ \A u \in Tasks : u # t => pc'[u] = pc[u]
        BY <1>1, <2>3 DEF Refused, TasksTypeOK
      <3>2. heap[next[t]] = heap[current]
        BY <1>1, <3>1 DEF ClonesProgress, CloneOf
      <3>3. CloneOf(t)'
        BY <3>1, <3>2 DEF CloneOf
      <3>4. QED
        BY <1>2, <3>1, <3>3 DEF Holding, Filling
    <2>4. CASE WriteDriver(t)
      <3>1. PICK new \in Registry : new = WithDriver(heap[next[t]], request[t]) /\ Fits(new)
        BY <1>1, <2>4, CloneFilled DEF WriteDriver, Filling
      <3>2. /\ heap' = [heap EXCEPT ![next[t]] = new] /\ next' = next /\ current' = current
            /\ request' = request /\ pc[t] = "driver" /\ pc'[t] = "config"
            /\ ~Full(heap[next[t]], request[t])
            /\ \A u \in Tasks : u # t => pc'[u] = pc[u]
        BY <1>1, <2>4, <3>1 DEF WriteDriver, TasksTypeOK
      <3>3. heap'[next[t]] = new /\ heap'[current] = heap[current]
        BY <1>1, <1>4, <3>2, CloneWritten DEF Filling
      <3>4. heap[next[t]] = heap[current]
        BY <1>1, <3>2 DEF ClonesProgress, CloneOf
      <3>5. CloneOf(t)'
        BY <3>1, <3>2, <3>3, <3>4 DEF CloneOf
      <3>6. QED
        BY <1>2, <3>2, <3>5 DEF Holding, Filling
    <2>5. CASE WriteConfig(t)
      <3>1. PICK new \in Registry : new = WithConfig(heap[next[t]], request[t]) /\ Fits(new)
        BY <1>1, <2>5, CloneFilled DEF WriteConfig, Filling
      <3>2. /\ heap' = [heap EXCEPT ![next[t]] = new] /\ next' = next /\ current' = current
            /\ request' = request /\ pc[t] = "config" /\ pc'[t] = "count"
            /\ \A u \in Tasks : u # t => pc'[u] = pc[u]
        BY <1>1, <2>5, <3>1 DEF WriteConfig, TasksTypeOK
      <3>3. heap'[next[t]] = new /\ heap'[current] = heap[current]
        BY <1>1, <1>4, <3>2, CloneWritten DEF Filling
      <3>4. ~Full(heap[current], request[t]) /\ heap[next[t]] = WithDriver(heap[current], request[t])
        BY <1>1, <3>2 DEF ClonesProgress, CloneOf
      <3>5. CloneOf(t)'
        BY <3>1, <3>2, <3>3, <3>4 DEF CloneOf
      <3>6. QED
        BY <1>2, <3>2, <3>5 DEF Holding, Filling
    <2>6. CASE WriteCount(t)
      <3>1. /\ pc[t] = "count" /\ pc'[t] = "publish" /\ result'[t] = "OK" /\ next' = next
            /\ current' = current /\ request' = request
            /\ \A u \in Tasks : u # t => pc'[u] = pc[u]
        BY <1>1, <2>6 DEF WriteCount, TasksTypeOK
      <3>2. /\ ~Full(heap[current], request[t])
            /\ heap[next[t]] = WithConfig(WithDriver(heap[current], request[t]), request[t])
        BY <1>1, <3>1 DEF ClonesProgress, CloneOf
      <3>3. heap'[next[t]] = WithCount(heap[next[t]], request[t]) /\ heap'[current] = heap[current]
        BY <1>1, <1>4, <2>6, <3>1, HeapStep DEF WriteCount, HeapGrows, Filling
      <3>4. CloneOf(t)'
        BY <3>1, <3>2, <3>3 DEF CloneOf, Entered
      <3>5. QED
        BY <1>2, <3>1, <3>4 DEF Holding, Filling
    <2>7. CASE Publish(t)
      <3>1. pc'[t] = "unlock" /\ pc[t] = "publish" /\ \A u \in Tasks : u # t => pc'[u] = pc[u]
        BY <1>1, <2>7 DEF Publish, TasksTypeOK
      <3>2. CloneOf(t)'
        BY <3>1 DEF CloneOf
      <3>3. QED
        BY <1>2, <3>1, <3>2 DEF Holding, Filling
    <2>8. QED
      BY <1>5, <2>1, <2>2, <2>3, <2>4, <2>5, <2>6, <2>7 DEF WriterStep
  <1>6. ASSUME UNCHANGED <<heap, current, taskVars>> PROVE ClonesProgress'
    BY <1>3, <1>6 DEF taskVars
  <1>7. QED
    BY <1>5, <1>6, Steps DEF ReaderStep, Aside, vars

\* A generation that is published is what some registration made of a coherent one.
LEMMA CoherentStep ==
    ASSUME IInv, [Next]_vars
    PROVE  GenerationsCoherent'
  <1>1. /\ ClonesProgress /\ GenerationsCoherent /\ CloneIsLast /\ TasksTypeOK
        /\ heap \in Seq(Registry) /\ Len(heap) \in Nat /\ current \in 1 .. Len(heap)
    BY DEF IInv, TypeOK, HeapTypeOK
  <1>2. \A g \in 1 .. current : heap'[g] = heap[g]
    BY HeapStep DEF HeapGrows
  <1>3. ASSUME current' = current PROVE GenerationsCoherent'
    BY <1>1, <1>2, <1>3 DEF GenerationsCoherent
  <1>4. ASSUME NEW t \in Tasks, Publish(t) PROVE GenerationsCoherent'
    <2>1. heap' = heap /\ current' = Len(heap) /\ next[t] = Len(heap) /\ pc[t] = "publish"
      BY <1>1, <1>4 DEF Publish, CloneIsLast, Filling
    <2>2. PICK old \in Registry : old = heap[current] /\ old.driver = old.config
      BY <1>1 DEF GenerationsCoherent
    <2>3. request[t] \in Requests
      BY <1>1, <2>1 DEF TasksTypeOK
    <2>4. heap[Len(heap)] = old \/ heap[Len(heap)] = Entered(old, request[t])
      BY <1>1, <2>1, <2>2 DEF ClonesProgress, CloneOf
    <2>5. heap[Len(heap)].driver = heap[Len(heap)].config
      <3>1. Entered(old, request[t]).driver = Entered(old, request[t]).config
        <4>1. PICK r \in Requests : r = request[t]
          BY <2>3
        <4>2. /\ Entered(old, r).driver = [old.driver EXCEPT ![Place(old, r)] = r]
              /\ Entered(old, r).config = [old.config EXCEPT ![Place(old, r)] = r]
          BY EnteredFields
        <4>3. QED
          BY <2>2, <4>1, <4>2
      <3>2. QED
        BY <2>2, <2>4, <3>1
    <2>6. Len(heap) = current + 1 /\ \A g \in 1 .. Len(heap) : g = Len(heap) \/ g \in 1 .. current
      BY <1>1, <2>1 DEF CloneIsLast, Filling
    <2>7. QED
      BY <1>1, <2>1, <2>5, <2>6 DEF GenerationsCoherent
  <1>5. QED
    BY <1>3, <1>4, Steps
       DEF WriterStep, Call, Lock, Clone, Refused, WriteDriver, WriteConfig, WriteCount, Unlock,
           ReaderStep, Aside, vars

\* What readers hold stays where it is, as no step changes it.
LEMMA ViewsStep ==
    ASSUME IInv, [Next]_vars
    PROVE  ViewsTypeOK' /\ ViewsPublished' /\ ViewsMatch'
  <1>1. /\ ViewsTypeOK /\ ViewsPublished /\ ViewsMatch /\ GenerationsCoherent
        /\ heap \in Seq(Registry) /\ Len(heap) \in Nat /\ current \in 1 .. Len(heap)
    BY DEF IInv, TypeOK, HeapTypeOK
  <1>2. /\ \A g \in 1 .. current : heap'[g] = heap[g]
        /\ \A g \in 1 .. current : g \in 1 .. current' /\ g \in DOMAIN heap'
        /\ current \in 1 .. current'
    BY <1>1, HeapStep DEF HeapGrows
  <1>3. ASSUME view' = view PROVE ViewsTypeOK' /\ ViewsPublished' /\ ViewsMatch'
    <2>1. ViewsPublished'
      BY <1>1, <1>2, <1>3 DEF ViewsPublished
    <2>2. ViewsTypeOK'
      BY <1>1, <1>2, <1>3 DEF ViewsTypeOK, ViewsPublished
    <2>3. ASSUME NEW q \in Readers PROVE ViewMatches(q)'
      <3>1. view[q].at = "config" => Generation(q)' = Generation(q)
        BY <1>1, <1>2, <1>3 DEF ViewsPublished, Generation
      <3>2. QED
        BY <1>1, <1>3, <3>1 DEF ViewsMatch, ViewMatches
    <2>4. QED
      BY <2>1, <2>2, <2>3 DEF ViewsMatch
  <1>4. ASSUME NEW q \in Readers, ReaderStep(q)
        PROVE  ViewsTypeOK' /\ ViewsPublished' /\ ViewsMatch'
    <2>1. heap' = heap /\ current' = current
      BY <1>4 DEF ReaderStep, Aside
    <2>2. ASSUME view' \in [Readers -> View], \A u \in Readers : u # q => view'[u] = view[u],
                 view'[q].gen \in 1 .. current,
                 view'[q].at \in {"driver", "config", "done"} => view'[q].place \in Places,
                 ViewMatches(q)'
          PROVE  ViewsTypeOK' /\ ViewsPublished' /\ ViewsMatch'
      <3>1. ViewsPublished'
        BY <1>1, <2>1, <2>2 DEF ViewsPublished
      <3>2. ViewsTypeOK'
        BY <1>1, <1>2, <2>1, <2>2, <3>1 DEF ViewsTypeOK, ViewsPublished
      <3>3. ASSUME NEW u \in Readers, u # q PROVE ViewMatches(u)'
        BY <1>1, <2>1, <2>2, <3>3 DEF ViewsMatch, ViewMatches, Generation
      <3>4. QED
        BY <2>2, <3>1, <3>2, <3>3 DEF ViewsMatch
    <2>3. CASE Load(q)
      <3>1. view' = [view EXCEPT ![q] = [NoView EXCEPT !.at = "loaded", !.gen = current]]
        BY <2>3 DEF Load
      <3>2. [NoView EXCEPT !.at = "loaded", !.gen = current] \in View
        <4>1. NoView \in View
          BY DEF NoView, View, Cells
        <4>2. current \in Nat
          BY <1>1
        <4>3. QED
          BY <4>1, <4>2 DEF View
      <3>3. /\ view'[q] = [NoView EXCEPT !.at = "loaded", !.gen = current]
            /\ view' \in [Readers -> View] /\ \A u \in Readers : u # q => view'[u] = view[u]
        BY <1>1, <3>1, <3>2 DEF ViewsTypeOK
      <3>4. view'[q].at = "loaded" /\ view'[q].gen = current
        BY <3>3 DEF NoView
      <3>5. QED
        BY <1>1, <2>2, <3>3, <3>4 DEF ViewMatches
    <2>4. PICK v \in View : v = view[q]
      BY <1>1 DEF ViewsTypeOK
    <2>5. CASE \E k \in Kinds : \E i \in 1 .. Capacity[k] : LookAt(q, k, i)
      <3>0. PICK k \in Kinds : \E i \in 1 .. Capacity[k] : LookAt(q, k, i)
        BY <2>5
      <3>1. PICK i \in 1 .. Capacity[k] : LookAt(q, k, i)
        BY <3>0
      <3>2. <<k, i>> \in Places
        BY PlaceExists
      <3>3. view' = [view EXCEPT ![q] = [v EXCEPT !.at = "driver", !.place = <<k, i>>]]
        BY <1>1, <2>4, <3>1 DEF LookAt, ViewsTypeOK, View
      <3>4. [v EXCEPT !.at = "driver", !.place = <<k, i>>] \in View
        BY <3>2 DEF View
      <3>5. /\ view'[q] = [v EXCEPT !.at = "driver", !.place = <<k, i>>]
            /\ view' \in [Readers -> View] /\ \A u \in Readers : u # q => view'[u] = view[u]
        BY <1>1, <3>3, <3>4 DEF ViewsTypeOK
      <3>6. view'[q].at = "driver" /\ view'[q].gen = v.gen /\ view'[q].place = <<k, i>>
        BY <3>5 DEF View
      <3>7. v.gen \in 1 .. current
        BY <1>1, <2>4, <3>1 DEF LookAt, ViewsPublished
      <3>8. QED
        BY <2>2, <3>2, <3>5, <3>6, <3>7 DEF ViewMatches
    <2>6. ASSUME v.at \in {"driver", "config"}
          PROVE  /\ v.gen \in 1 .. current /\ v.place \in Places
                 /\ Generation(q) \in Registry /\ Generation(q).driver = Generation(q).config
                 /\ Generation(q).driver[v.place] \in Cells
      <3>1. v.gen \in 1 .. current /\ v.place \in Places
        BY <1>1, <2>4, <2>6 DEF ViewsPublished, ViewsTypeOK
      <3>2. Generation(q) \in Registry /\ Generation(q).driver = Generation(q).config
        BY <1>1, <2>4, <3>1 DEF Generation, GenerationsCoherent
      <3>3. QED
        BY <3>1, <3>2 DEF Registry
    <2>7. CASE ReadDriver(q)
      <3>1. PICK c \in Cells : c = Generation(q).driver[v.place]
        BY <2>4, <2>6, <2>7 DEF ReadDriver
      <3>2. PICK at \in {"loaded", "config"} : at = IF c = NoRequest THEN "loaded" ELSE "config"
        OBVIOUS
      <3>3. view' = [view EXCEPT ![q] = [v EXCEPT !.driver = c, !.at = at]]
        BY <1>1, <2>4, <2>7, <3>1, <3>2 DEF ReadDriver, ViewsTypeOK, View
      <3>4. [v EXCEPT !.driver = c, !.at = at] \in View
        BY <3>1, <3>2 DEF View
      <3>5. /\ view'[q] = [v EXCEPT !.driver = c, !.at = at]
            /\ view' \in [Readers -> View] /\ \A u \in Readers : u # q => view'[u] = view[u]
        BY <1>1, <3>3, <3>4 DEF ViewsTypeOK
      <3>6. view'[q].at = at /\ view'[q].gen = v.gen /\ view'[q].place = v.place /\ view'[q].driver = c
        BY <3>5 DEF View
      <3>7. v.gen \in 1 .. current /\ v.place \in Places
        BY <2>4, <2>6, <2>7 DEF ReadDriver
      <3>8. Generation(q)' = Generation(q)
        BY <2>1, <2>4, <3>6 DEF Generation
      <3>9. ViewMatches(q)'
        BY <3>1, <3>2, <3>6, <3>8 DEF ViewMatches, Cells
      <3>10. QED
        BY <2>2, <3>5, <3>6, <3>7, <3>9
    <2>8. CASE ReadConfig(q)
      <3>1. PICK c \in Cells : c = Generation(q).config[v.place]
        BY <2>4, <2>6, <2>8 DEF ReadConfig
      <3>2. c = v.driver /\ v.driver \in Requests
        BY <1>1, <2>4, <2>6, <2>8, <3>1 DEF ReadConfig, ViewsMatch, ViewMatches
      <3>3. view' = [view EXCEPT ![q] = [v EXCEPT !.config = c, !.at = "done"]]
        BY <1>1, <2>4, <2>8, <3>1 DEF ReadConfig, ViewsTypeOK, View
      <3>4. [v EXCEPT !.config = c, !.at = "done"] \in View
        BY <3>1 DEF View
      <3>5. /\ view'[q] = [v EXCEPT !.config = c, !.at = "done"]
            /\ view' \in [Readers -> View] /\ \A u \in Readers : u # q => view'[u] = view[u]
        BY <1>1, <3>3, <3>4 DEF ViewsTypeOK
      <3>6. /\ view'[q].at = "done" /\ view'[q].gen = v.gen /\ view'[q].place = v.place
            /\ view'[q].driver = v.driver /\ view'[q].config = c
        BY <3>5 DEF View
      <3>7. v.gen \in 1 .. current /\ v.place \in Places
        BY <2>4, <2>6, <2>8 DEF ReadConfig
      <3>8. ViewMatches(q)'
        BY <3>2, <3>6 DEF ViewMatches
      <3>9. QED
        BY <2>2, <3>5, <3>6, <3>7, <3>8
    <2>9. QED
      BY <1>4, <2>3, <2>5, <2>7, <2>8 DEF ReaderStep, Reader
  <1>5. QED
    BY <1>3, <1>4, Steps DEF vars

-----------------------------------------------------------------------------
(* The theorems                                                            *)

LEMMA InitIInv == Init => IInv
  <1> SUFFICES ASSUME Init PROVE IInv
    OBVIOUS
  <1>1. EmptyRegistry \in Registry /\ Fits(EmptyRegistry)
    BY RegistryFacts DEF EmptyRegistry, Registry, Cells, Fits
  <1>2. heap \in Seq(Registry) /\ Len(heap) = 1 /\ heap[1] = EmptyRegistry /\ current = 1
    BY <1>1 DEF Init
  <1>3. HeapTypeOK
    BY <1>1, <1>2 DEF HeapTypeOK
  <1>4. TasksTypeOK
    BY DEF Init, TasksTypeOK, Cells, Filling
  <1>5. ViewsTypeOK /\ ViewsPublished /\ ViewsMatch
    <2>1. NoView \in View /\ NoView.at = "idle"
      BY DEF NoView, View, Cells
    <2>2. view \in [Readers -> View] /\ \A q \in Readers : view[q].at = "idle"
      BY <2>1 DEF Init
    <2>3. QED
      BY <2>2 DEF ViewsTypeOK, ViewsPublished, ViewsMatch, ViewMatches
  <1>6. MutexHeld /\ ClonesProgress
    BY RegistryFacts DEF Init, MutexHeld, ClonesProgress, CloneOf, Holding, Filling
  <1>7. CloneIsLast
    BY <1>2 DEF Init, CloneIsLast, Filling
  <1>8. GenerationsCoherent
    BY <1>2 DEF GenerationsCoherent, EmptyRegistry
  <1>9. QED
    BY <1>3, <1>4, <1>5, <1>6, <1>7, <1>8 DEF IInv, TypeOK

LEMMA NextIInv == IInv /\ [Next]_vars => IInv'
  <1> SUFFICES ASSUME IInv, [Next]_vars PROVE IInv'
    OBVIOUS
  <1>1. TypeOK'
    BY HeapTypeStep, TasksTypeStep, ViewsStep DEF TypeOK
  <1>2. QED
    BY <1>1, MutexStep, CloneIsLastStep, ProgressStep, CoherentStep, ViewsStep DEF IInv

THEOREM Invariance == Spec => []IInv
  BY InitIInv, NextIInv, PTL DEF Spec

\* The generations, places and counts that are used exist: in particular no call
\* writes behind the arrays of the registry, whatever runs beside it.
THEOREM TypeCorrect == Spec => []TypeOK
  <1>1. IInv => TypeOK
    BY DEF IInv
  <1>2. QED
    BY <1>1, Invariance, PTL

\* Whatever is registered while a reader goes through its generation, it finds
\* each driver with the configuration it was registered with.
THEOREM ReadersAreCoherent == Spec => []ReadsAreCoherent
  <1>1. IInv => ReadsAreCoherent
    BY DEF IInv, ViewsMatch, ViewMatches, ReadsAreCoherent
  <1>2. QED
    BY <1>1, Invariance, PTL

\* A generation does not change once it was current.
THEOREM GenerationsAreImmutable == Spec => PublishedIsImmutable
  <1>1. IInv /\ [Next]_vars => [current' >= current /\ \A g \in 1 .. current : heap'[g] = heap[g]]_vars
    BY HeapStep DEF HeapGrows
  <1>2. QED
    BY <1>1, Invariance, PTL DEF Spec, PublishedIsImmutable

-----------------------------------------------------------------------------
(* HalRegistry implements AtomicRegistry                                   *)

AbstractRegistry == [k \in Kinds |-> Found(heap[current], k)]
AbstractCalls == [t \in Tasks |-> CallOf(t)]

LEMMA InitMaps == Init => Atomic!Init
  <1> SUFFICES ASSUME Init PROVE Atomic!Init
    OBVIOUS
  <1>1. heap[current] = EmptyRegistry
    BY DEF Init
  <1>2. ASSUME NEW k \in Kinds PROVE Found(EmptyRegistry, k) = <<>>
    <2>1. CASE k \in Singles
      <3>1. <<k, 1>> \in Places
        BY <2>1, RegistryFacts, PlaceExists
      <3>2. QED
        BY <2>1, <3>1 DEF Found, EmptyRegistry
    <2>2. CASE k \notin Singles
      <3>1. Entries(EmptyRegistry, k) = 0
        BY <2>2 DEF Entries, EmptyRegistry
      <3>2. QED
        BY <2>2, <3>1 DEF Found
    <2>3. QED
      BY <2>1, <2>2
  <1>3. [k \in Kinds |-> Found(heap[current], k)] = [k \in Kinds |-> <<>>]
    BY <1>1, <1>2
  <1>4. [t \in Tasks |-> CallOf(t)] = [t \in Tasks |-> [state |-> "idle"]]
    BY DEF Init, CallOf
  <1>5. QED
    BY <1>3, <1>4 DEF Atomic!Init, Atomic!Idle

LEMMA RegistryStays ==
    ASSUME heap'[current'] = heap[current]
    PROVE  AbstractRegistry' = AbstractRegistry
  BY DEF AbstractRegistry, Found, Entries

LEMMA CallMoves ==
    ASSUME NEW t \in Tasks, NEW c, CallOf(t)' = c,
           \A u \in Tasks \ {t} :
               pc'[u] = pc[u] /\ request'[u] = request[u] /\ result'[u] = result[u]
    PROVE  AbstractCalls' = [AbstractCalls EXCEPT ![t] = c]
  <1>1. \A u \in Tasks \ {t} : CallOf(u)' = CallOf(u)
    BY DEF CallOf
  <1>2. QED
    BY <1>1 DEF AbstractCalls

AbstractNext == [Atomic!Next]_<<AbstractRegistry, AbstractCalls>>

\* The publication of a clone is the moment a registration takes effect.
LEMMA PublishMaps ==
    ASSUME IInv, [Next]_vars, NEW t \in Tasks, Publish(t)
    PROVE  \E r \in Requests : Atomic!Enter(t, r) \/ Atomic!Refuse(t, r)
  <1>1. PICK r \in Requests : r = request[t]
    BY DEF Publish, IInv, TypeOK, TasksTypeOK
  <1>2. /\ heap \in Seq(Registry) /\ current \in DOMAIN heap /\ Fits(heap[current])
        /\ heap' = heap /\ current' = next[t] /\ request' = request /\ result' = result
        /\ pc[t] = "publish" /\ pc'[t] = "unlock" /\ \A u \in Tasks \ {t} : pc'[u] = pc[u]
    BY DEF Publish, IInv, TypeOK, HeapTypeOK, TasksTypeOK
  <1>3. PICK old \in Registry : old = heap[current] /\ Fits(old)
    BY <1>2
  <1>4. KindOf[r] \in Kinds
    BY RegistryFacts
  <1>5. CallOf(t) = [state |-> "called", request |-> r]
    BY <1>1, <1>2 DEF CallOf
  <1>6. AbstractCalls[t] = [state |-> "called", request |-> r]
    BY <1>5 DEF AbstractCalls
  <1>7. CASE result[t] = "OK" /\ ~Full(old, r) /\ heap[next[t]] = Entered(old, r)
    <2>1. CallOf(t)' = [state |-> "OK", request |-> r]
      BY <1>1, <1>2, <1>7 DEF CallOf
    <2>2. AbstractCalls' = [AbstractCalls EXCEPT ![t] = [state |-> "OK", request |-> r]]
      BY <1>2, <2>1, CallMoves
    <2>3. PICK new : new = Entered(old, r)
      OBVIOUS
    <2>4. heap'[current'] = new
      BY <1>2, <1>7, <2>3
    <2>5. AbstractRegistry' = [k \in Kinds |-> Found(new, k)]
      BY <2>4 DEF AbstractRegistry, Found, Entries
    <2>6. AbstractRegistry = [k \in Kinds |-> Found(old, k)]
      BY <1>3 DEF AbstractRegistry
    <2>7. \A k \in Kinds : Found(new, k) =
              IF k = KindOf[r] THEN Atomic!With(Found(old, k), k, <<r, r>>) ELSE Found(old, k)
      BY <1>3, <1>7, <2>3, OtherKindsStay, KindGainsEntry
    <2>8. AbstractRegistry' = [AbstractRegistry EXCEPT
              ![KindOf[r]] = Atomic!With(AbstractRegistry[KindOf[r]], KindOf[r], <<r, r>>)]
      BY <1>4, <2>5, <2>6, <2>7
    <2>9. QED
      BY <1>6, <2>2, <2>8 DEF Atomic!Enter, AbstractRegistry, AbstractCalls
  <1>8. CASE result[t] = "NO_MEM" /\ Full(old, r) /\ heap[next[t]] = old
    <2>1. CallOf(t)' = [state |-> "NO_MEM", request |-> r]
      BY <1>1, <1>2, <1>8 DEF CallOf
    <2>2. AbstractCalls' = [AbstractCalls EXCEPT ![t] = [state |-> "NO_MEM", request |-> r]]
      BY <1>2, <2>1, CallMoves
    <2>3. AbstractRegistry' = AbstractRegistry
      BY <1>2, <1>3, <1>8, RegistryStays
    <2>4. AbstractRegistry[KindOf[r]] = Found(old, KindOf[r])
      BY <1>3, <1>4 DEF AbstractRegistry
    <2>5. KindOf[r] \notin Singles /\ Len(AbstractRegistry[KindOf[r]]) = Capacity[KindOf[r]]
      BY <1>3, <1>8, <2>4, FullIsFull
    <2>6. QED
      BY <1>6, <2>2, <2>3, <2>5 DEF Atomic!Refuse, AbstractRegistry, AbstractCalls
  <1>9. QED
    BY <1>1, <1>2, <1>3, <1>7, <1>8 DEF IInv, ClonesProgress, CloneOf

LEMMA StepMaps == IInv /\ [Next]_vars => AbstractNext
  <1> SUFFICES ASSUME IInv, [Next]_vars PROVE AbstractNext
    OBVIOUS
  <1>1. TasksTypeOK /\ heap \in Seq(Registry) /\ current \in 1 .. Len(heap)
    BY DEF IInv, TypeOK, HeapTypeOK
  <1>2. ASSUME current' = current PROVE AbstractRegistry' = AbstractRegistry
    BY <1>1, <1>2, HeapStep, RegistryStays DEF HeapGrows
  <1>3. ASSUME UNCHANGED <<current, pc, request, result>> PROVE AbstractNext
    <2>1. AbstractCalls' = AbstractCalls
      BY <1>3 DEF AbstractCalls, CallOf
    <2>2. QED
      BY <1>2, <1>3, <2>1 DEF AbstractNext
  <1>4. ASSUME NEW t \in Tasks, WriterStep(t) PROVE AbstractNext
    <2>1. CASE \E r \in Requests : Call(t, r)
      <3>1. PICK r \in Requests : Call(t, r)
        BY <2>1
      <3>2. CallOf(t) = [state |-> "idle"] /\ CallOf(t)' = [state |-> "called", request |-> r]
        BY <1>1, <3>1 DEF Call, CallOf, TasksTypeOK
      <3>3. AbstractCalls' = [AbstractCalls EXCEPT ![t] = [state |-> "called", request |-> r]]
        BY <1>1, <3>1, <3>2, CallMoves DEF Call, TasksTypeOK
      <3>4. AbstractCalls[t] = [state |-> "idle"]
        BY <3>2 DEF AbstractCalls
      <3>5. AbstractRegistry' = AbstractRegistry
        BY <1>2, <3>1 DEF Call
      <3>6. Atomic!Invoke(t, r)
        BY <3>3, <3>4, <3>5 DEF Atomic!Invoke, Atomic!Idle, AbstractRegistry, AbstractCalls
      <3>7. QED
        BY <3>6 DEF AbstractNext, Atomic!Next
    <2>2. CASE Unlock(t)
      <3>1. PICK r \in Requests : r = request[t]
        BY <1>1, <2>2 DEF Unlock, TasksTypeOK
      <3>2. /\ CallOf(t) = [state |-> result[t], request |-> r] /\ result[t] \in {"OK", "NO_MEM"}
            /\ CallOf(t)' = [state |-> "idle"]
        BY <1>1, <2>2, <3>1 DEF Unlock, CallOf, TasksTypeOK
      <3>3. AbstractCalls' = [AbstractCalls EXCEPT ![t] = [state |-> "idle"]]
        BY <1>1, <2>2, <3>2, CallMoves DEF Unlock, TasksTypeOK
      <3>4. AbstractCalls[t] \in {[state |-> "OK", request |-> r], [state |-> "NO_MEM", request |-> r]}
        BY <3>2 DEF AbstractCalls
      <3>5. AbstractRegistry' = AbstractRegistry
        BY <1>2, <2>2 DEF Unlock
      <3>6. Atomic!Return(t, r)
        BY <3>3, <3>4, <3>5 DEF Atomic!Return, Atomic!Idle, AbstractRegistry, AbstractCalls
      <3>7. QED
        BY <3>6 DEF AbstractNext, Atomic!Next
    <2>3. CASE Publish(t)
      BY <2>3, PublishMaps DEF AbstractNext, Atomic!Next
    <2>4. CASE Lock(t) \/ Clone(t) \/ Refused(t) \/ WriteDriver(t) \/ WriteConfig(t) \/ WriteCount(t)
      <3>1. /\ current' = current /\ request' = request
            /\ pc[t] \notin {"idle", "unlock"} /\ pc'[t] \notin {"idle", "unlock"}
            /\ \A u \in Tasks \ {t} : pc'[u] = pc[u] /\ result'[u] = result[u]
        BY <1>1, <2>4
           DEF Lock, Clone, Refused, WriteDriver, WriteConfig, WriteCount, TasksTypeOK
      <3>2. \A u \in Tasks : CallOf(u)' = CallOf(u)
        BY <3>1 DEF CallOf
      <3>3. AbstractCalls' = AbstractCalls
        BY <3>2 DEF AbstractCalls
      <3>4. QED
        BY <1>2, <3>1, <3>3 DEF AbstractNext
    <2>5. QED
      BY <1>4, <2>1, <2>2, <2>3, <2>4 DEF WriterStep
  <1>5. QED
    BY <1>3, <1>4, Steps DEF ReaderStep, Aside, taskVars, vars

\* Registrations that run beside each other take effect one after the other, each
\* between its call and its return: the registry is linearizable.
THEOREM Linearizable == Spec => ImplementsAtomicRegistry
  <1>1. IInv /\ [Next]_vars => [Atomic!Next]_<<[k \in Kinds |-> Found(heap[current], k)],
                                              [t \in Tasks |-> CallOf(t)]>>
    BY StepMaps DEF AbstractNext, AbstractRegistry, AbstractCalls
  <1>2. QED
    BY <1>1, InitMaps, Invariance, PTL DEF Spec, ImplementsAtomicRegistry, Atomic!Spec
=============================================================================
