----------------------------- MODULE HalRegistry -----------------------------
(***************************************************************************)
(* The HAL registry of the kernel (hal_registry.rs): a pointer to the      *)
(* current generation, which writers replace and readers keep.             *)
(*                                                                         *)
(* A writer (hal_display_register and its kin) takes the mutex, clones the *)
(* current generation, fills the private clone field by field and, when    *)
(* its guard is dropped, publishes it and releases the mutex.  A reader    *)
(* takes no lock: it loads the pointer once and reads the fields of that   *)
(* generation one at a time, at its leisure (C code holds the pointer that *)
(* hal_get_registry returned; hal_registry_start_all reads around calls    *)
(* of init).  No generation is freed before the device restarts.           *)
(*                                                                         *)
(* A call is named by its request, a driver with the configuration that    *)
(* goes with it and the kind it is registered as.  A cell of the registry  *)
(* holds the request it was written for, so a driver beside the            *)
(* configuration of another one is visible.                                *)
(* Crypto, RTC, buses and the board's name have no configuration; they are *)
(* otherwise as the kinds here.                                            *)
(***************************************************************************)
EXTENDS Naturals, Sequences

CONSTANTS
    Tasks,     \* those that register drivers
    Readers,   \* those that use them
    Nobody,
    Drivers,   \* drivers, each with its configuration
    NoRequest, \* a null pointer
    Kinds,     \* the interfaces of the HAL
    Singles,   \* kinds with one place, which a new driver takes over
    MaxInputs, \* HAL_MAX_INPUT_DRIVERS
    MaxStorage,\* HAL_MAX_STORAGE_DRIVERS
    MaxCalls   \* bound: calls that register

\* What a call registers, and as what.
Requests == Drivers \X Kinds
KindOf == [r \in Requests |-> r[2]]

\* The places of each kind.
Capacity ==
    [k \in Kinds |-> IF k \in Singles THEN 1 ELSE IF k = "input" THEN MaxInputs ELSE MaxStorage]

ASSUME RegistryAssumption ==
    /\ Nobody \notin Tasks /\ NoRequest \notin Requests
    /\ Singles \subseteq Kinds /\ Kinds \ Singles \subseteq {"input", "storage"}
    /\ MaxInputs \in Nat /\ MaxStorage \in Nat
    /\ MaxCalls \in Nat

VARIABLES
    heap,     \* the generations that were ever allocated
    current,  \* REGISTRY.current
    writer,   \* who holds REGISTRY.writer
    pc,       \* how far each task is with its call
    request,  \* what it registers
    next,     \* its private clone
    result,   \* what its call returns
    view,     \* what each reader has loaded
    calls     \* calls so far

taskVars == <<writer, pc, request, next, result, calls>>
vars == <<heap, current, taskVars, view>>

Places == UNION {{k} \X (1 .. Capacity[k]) : k \in Kinds}
Cells == Requests \cup {NoRequest}

Registry == [driver : [Places -> Cells], config : [Places -> Cells], count : [Kinds -> Nat]]

EmptyRegistry ==
    [driver |-> [p \in Places |-> NoRequest], config |-> [p \in Places |-> NoRequest],
     count |-> [k \in Kinds |-> 0]]

Filling == {"driver", "config", "count", "publish"}
Holding == Filling \cup {"clone", "unlock"}

\* The counts stay within the arrays.
Fits(reg) == \A k \in Kinds : reg.count[k] <= Capacity[k]

HeapTypeOK ==
    /\ heap \in Seq(Registry)
    /\ \A g \in DOMAIN heap : Fits(heap[g])
    /\ current \in DOMAIN heap

TasksTypeOK ==
    /\ writer \in Tasks \cup {Nobody}
    /\ pc \in [Tasks -> Holding \cup {"idle", "lock"}]
    /\ request \in [Tasks -> Cells]
    /\ \A t \in Tasks : pc[t] # "idle" => request[t] \in Requests
    /\ next \in [Tasks -> Nat]
    /\ \A t \in Tasks : pc[t] \in Filling => next[t] \in DOMAIN heap
    /\ result \in [Tasks -> {"OK", "NO_MEM"}]
    /\ calls \in Nat

View == [at : {"idle", "loaded", "driver", "config", "done"}, gen : Nat,
         place : Places \cup {<<>>}, driver : Cells, config : Cells]

ViewsTypeOK ==
    /\ view \in [Readers -> View]
    /\ \A q \in Readers : view[q].at # "idle" => view[q].gen \in DOMAIN heap
    /\ \A q \in Readers : view[q].at \in {"driver", "config", "done"} => view[q].place \in Places

\* Type invariant: the generations, places and counts that are used exist.
TypeOK == HeapTypeOK /\ TasksTypeOK /\ ViewsTypeOK

NoView == [at |-> "idle", gen |-> 0, place |-> <<>>, driver |-> NoRequest, config |-> NoRequest]

Init ==
    /\ heap = <<EmptyRegistry>> /\ current = 1
    /\ writer = Nobody
    /\ pc = [t \in Tasks |-> "idle"]
    /\ request = [t \in Tasks |-> NoRequest]
    /\ next = [t \in Tasks |-> 0]
    /\ result = [t \in Tasks |-> "OK"]
    /\ view = [q \in Readers |-> NoView]
    /\ calls = 0

-----------------------------------------------------------------------------
(* What a registration does to its clone                                   *)

\* The place the driver goes to.
Place(reg, r) == <<KindOf[r], IF KindOf[r] \in Singles THEN 1 ELSE reg.count[KindOf[r]] + 1>>

\* (mutant: one driver more than there are places)
FullMutant(reg, r) == KindOf[r] \notin Singles /\ reg.count[KindOf[r]] > Capacity[KindOf[r]]

Full(reg, r) == KindOf[r] \notin Singles /\ reg.count[KindOf[r]] >= Capacity[KindOf[r]]

WithDriver(reg, r) == [reg EXCEPT !.driver[Place(reg, r)] = r]
WithConfig(reg, r) == [reg EXCEPT !.config[Place(reg, r)] = r]
WithCount(reg, r) ==
    IF KindOf[r] \in Singles THEN reg ELSE [reg EXCEPT !.count[KindOf[r]] = @ + 1]

-----------------------------------------------------------------------------
(* Writers: hal_display_register, hal_input_register, ...                  *)

Call(t, r) ==
    /\ pc[t] = "idle" /\ calls < MaxCalls
    /\ pc' = [pc EXCEPT ![t] = "lock"]
    /\ request' = [request EXCEPT ![t] = r]
    /\ calls' = calls + 1
    /\ UNCHANGED <<heap, current, writer, next, result, view>>

\* (mutant: the current generation is cloned beside the mutex)
LockMutant(t) ==
    /\ pc[t] = "lock"
    /\ writer' = t
    /\ pc' = [pc EXCEPT ![t] = "clone"]
    /\ UNCHANGED <<heap, current, request, next, result, view, calls>>

\* registry_mut: REGISTRY.writer.lock()
Lock(t) ==
    /\ pc[t] = "lock" /\ writer = Nobody
    /\ writer' = t
    /\ pc' = [pc EXCEPT ![t] = "clone"]
    /\ UNCHANGED <<heap, current, request, next, result, view, calls>>

\* (mutant: the guard hands out the current generation)
CloneMutant(t) ==
    /\ pc[t] = "clone"
    /\ next' = [next EXCEPT ![t] = current]
    /\ pc' = [pc EXCEPT ![t] = "driver"]
    /\ UNCHANGED <<heap, current, writer, request, result, view, calls>>

\* registry_mut: Box::new(*registry())
Clone(t) ==
    /\ pc[t] = "clone"
    /\ heap' = Append(heap, heap[current])
    /\ next' = [next EXCEPT ![t] = Len(heap) + 1]
    /\ pc' = [pc EXCEPT ![t] = "driver"]
    /\ UNCHANGED <<current, writer, request, result, view, calls>>

Refused(t) ==
    /\ pc[t] = "driver" /\ Full(heap[next[t]], request[t])
    /\ result' = [result EXCEPT ![t] = "NO_MEM"]
    /\ pc' = [pc EXCEPT ![t] = "publish"]
    /\ UNCHANGED <<heap, current, writer, request, next, view, calls>>

\* (mutant: the clone is published before it is complete)
WriteDriverMutant(t) ==
    /\ pc[t] = "driver" /\ ~Full(heap[next[t]], request[t])
    /\ heap' = [heap EXCEPT ![next[t]] = WithDriver(@, request[t])]
    /\ current' = next[t]
    /\ pc' = [pc EXCEPT ![t] = "config"]
    /\ UNCHANGED <<writer, request, next, result, view, calls>>

WriteDriver(t) ==
    /\ pc[t] = "driver" /\ ~Full(heap[next[t]], request[t])
    /\ heap' = [heap EXCEPT ![next[t]] = WithDriver(@, request[t])]
    /\ pc' = [pc EXCEPT ![t] = "config"]
    /\ UNCHANGED <<current, writer, request, next, result, view, calls>>

WriteConfig(t) ==
    /\ pc[t] = "config"
    /\ heap' = [heap EXCEPT ![next[t]] = WithConfig(@, request[t])]
    /\ pc' = [pc EXCEPT ![t] = "count"]
    /\ UNCHANGED <<current, writer, request, next, result, view, calls>>

WriteCount(t) ==
    /\ pc[t] = "count"
    /\ heap' = [heap EXCEPT ![next[t]] = WithCount(@, request[t])]
    /\ result' = [result EXCEPT ![t] = "OK"]
    /\ pc' = [pc EXCEPT ![t] = "publish"]
    /\ UNCHANGED <<current, writer, request, next, view, calls>>

\* RegistryWriteGuard::drop: a refused call publishes its clone as well.
Publish(t) ==
    /\ pc[t] = "publish"
    /\ current' = next[t]
    /\ pc' = [pc EXCEPT ![t] = "unlock"]
    /\ UNCHANGED <<heap, writer, request, next, result, view, calls>>

\* The guard's fields are dropped after it, the mutex guard among them.
Unlock(t) ==
    /\ pc[t] = "unlock"
    /\ writer' = Nobody
    /\ pc' = [pc EXCEPT ![t] = "idle"]
    /\ UNCHANGED <<heap, current, request, next, result, view, calls>>

Writer(t) ==
    \/ \E r \in Requests : Call(t, r)
    \/ Lock(t) \/ Clone(t) \/ Refused(t) \/ WriteDriver(t) \/ WriteConfig(t) \/ WriteCount(t)
    \/ Publish(t) \/ Unlock(t)

-----------------------------------------------------------------------------
(* Readers: registry, hal_get_registry, hal_registry_start_all             *)

Generation(q) == heap[view[q].gen]
Entries(reg, k) == IF k \in Singles THEN 1 ELSE reg.count[k]

\* registry(): one atomic load; the reader may have used another one before.
Load(q) ==
    /\ view' = [view EXCEPT ![q] = [NoView EXCEPT !.at = "loaded", !.gen = current]]
    /\ UNCHANGED <<heap, current, taskVars>>

\* It looks at a kind, and goes through the entries that are counted.
LookAt(q, k, i) ==
    /\ view[q].at \in {"loaded", "done"}
    /\ i \in 1 .. Entries(Generation(q), k)
    /\ view' = [view EXCEPT ![q].at = "driver", ![q].place = <<k, i>>]
    /\ UNCHANGED <<heap, current, taskVars>>

\* A null driver is passed over.
ReadDriver(q) ==
    /\ view[q].at = "driver"
    /\ view' = [view EXCEPT ![q].driver = Generation(q).driver[view[q].place],
                            ![q].at = IF Generation(q).driver[view[q].place] = NoRequest
                                      THEN "loaded" ELSE "config"]
    /\ UNCHANGED <<heap, current, taskVars>>

ReadConfig(q) ==
    /\ view[q].at = "config"
    /\ view' = [view EXCEPT ![q].config = Generation(q).config[view[q].place],
                            ![q].at = "done"]
    /\ UNCHANGED <<heap, current, taskVars>>

Reader(q) ==
    \/ Load(q) \/ ReadDriver(q) \/ ReadConfig(q)
    \/ \E k \in Kinds : \E i \in 1 .. Capacity[k] : LookAt(q, k, i)

-----------------------------------------------------------------------------

Next == (\E t \in Tasks : Writer(t)) \/ (\E q \in Readers : Reader(q))

Spec == Init /\ [][Next]_vars

-----------------------------------------------------------------------------
(* Properties                                                              *)

\* A generation never changes once it was current (hal_registry.rs: "Published
\* generations are never mutated or freed"): every one up to the current one was,
\* as they are allocated and published in one order.
PublishedIsImmutable ==
    [][current' >= current /\ \A g \in 1 .. current : heap'[g] = heap[g]]_vars

\* Whoever reads a driver and then, any number of registrations later, its
\* configuration, has the one that was registered with it (hal_registry.rs:
\* "an already-issued C or Rust reader always observes one coherent snapshot").
ReadsAreCoherent ==
    \A q \in Readers : view[q].at = "done" =>
        view[q].driver \in Requests /\ view[q].config = view[q].driver

\* The entries of a kind that a reader of the generation finds.
Found(reg, k) ==
    IF k \in Singles /\ reg.driver[<<k, 1>>] = NoRequest THEN <<>>
    ELSE [i \in 1 .. Entries(reg, k) |-> <<reg.driver[<<k, i>>], reg.config[<<k, i>>]>>]

CallOf(t) ==
    IF pc[t] = "idle" THEN [state |-> "idle"]
    ELSE [state |-> IF pc[t] = "unlock" THEN result[t] ELSE "called", request |-> request[t]]

Atomic == INSTANCE AtomicRegistry WITH
    registry <- [k \in Kinds |-> Found(heap[current], k)],
    call <- [t \in Tasks |-> CallOf(t)]

\* Each registration takes effect at once and for all, between its call and its
\* return; none is lost to another that runs beside it, and one is refused only
\* while its kind is full (registry_mut, RegistryWriteGuard::drop).
ImplementsAtomicRegistry == Atomic!Spec
=============================================================================
