--------------------------- MODULE AtomicRegistry ---------------------------
(***************************************************************************)
(* What the HAL registry promises to those who register drivers: each call *)
(* takes effect at one moment between its start and its end, after which   *)
(* everybody sees the driver with its configuration; a call is refused     *)
(* only while all places of its kind are taken.                            *)
(***************************************************************************)
EXTENDS Naturals, Sequences

CONSTANTS Tasks, Requests, Kinds, KindOf, Singles, Capacity

VARIABLES
    registry,  \* Kinds -> sequence of pairs of a driver and a configuration
    call       \* Tasks -> what each task is calling, and how far it is

Idle == [state |-> "idle"]

Init ==
    /\ registry = [k \in Kinds |-> <<>>]
    /\ call = [t \in Tasks |-> Idle]

\* A driver takes the place of the only one of its kind, or one more.
With(entries, k, entry) == IF k \in Singles THEN <<entry>> ELSE Append(entries, entry)

Invoke(t, r) ==
    /\ call[t] = Idle
    /\ call' = [call EXCEPT ![t] = [state |-> "called", request |-> r]]
    /\ UNCHANGED registry

Enter(t, r) ==
    /\ call[t] = [state |-> "called", request |-> r]
    /\ registry' = [registry EXCEPT ![KindOf[r]] = With(@, KindOf[r], <<r, r>>)]
    /\ call' = [call EXCEPT ![t] = [state |-> "OK", request |-> r]]

Refuse(t, r) ==
    /\ call[t] = [state |-> "called", request |-> r]
    /\ KindOf[r] \notin Singles /\ Len(registry[KindOf[r]]) = Capacity[KindOf[r]]
    /\ call' = [call EXCEPT ![t] = [state |-> "NO_MEM", request |-> r]]
    /\ UNCHANGED registry

Return(t, r) ==
    /\ call[t] \in {[state |-> "OK", request |-> r], [state |-> "NO_MEM", request |-> r]}
    /\ call' = [call EXCEPT ![t] = Idle]
    /\ UNCHANGED registry

Next ==
    \E t \in Tasks, r \in Requests :
        Invoke(t, r) \/ Enter(t, r) \/ Refuse(t, r) \/ Return(t, r)

Spec == Init /\ [][Next]_<<registry, call>>
=============================================================================
