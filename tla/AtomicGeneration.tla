-------------------------- MODULE AtomicGeneration --------------------------
(***************************************************************************)
(* What an installation promises to the rest of the system: the confirmed  *)
(* firmware and the files it needs change in one step, or not at all.      *)
(***************************************************************************)
EXTENDS Naturals

CONSTANTS NFiles, MaxVersion

VARIABLES
    files,      \* the files a reader may rely on
    firmware    \* the confirmed firmware, 0 when there is none

Init ==
    /\ files \in [1 .. NFiles -> 0 .. MaxVersion]
    /\ firmware = 0

\* A bundle of version g is confirmed: all its files become active with it.
ConfirmBundle(g) ==
    /\ firmware = 0
    /\ firmware' = g
    /\ files' = [f \in 1 .. NFiles |-> g]

\* A stand-alone firmware of version g is confirmed.
ConfirmFirmware(g) ==
    /\ firmware = 0
    /\ firmware' = g
    /\ UNCHANGED files

\* The device is brought back to Recovery.
Deselect ==
    /\ firmware' = 0
    /\ UNCHANGED files

Next ==
    \/ \E g \in 1 .. MaxVersion : ConfirmBundle(g) \/ ConfirmFirmware(g)
    \/ Deselect

Spec == Init /\ [][Next]_<<files, firmware>>
=============================================================================
