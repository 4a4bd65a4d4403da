----------------------------- MODULE MCElfApps -----------------------------
(* The instance of ElfApps that TLC checks: the files of two apps, a second *)
(* one with the id of the first, and one that has no manifest.             *)
EXTENDS ElfApps, TLC

CONSTANTS launcher, maps, notes

\* What is on the card: copy and greedy have the id of maps, greedy imports more
\* than it asks for, and the manifest of bare is none.
MCFiles == {
    [path |-> "maps.elf", signature |-> "valid",
     json |-> [type |-> "app", id |-> maps, permissions |-> {"ipc", "network"},
               arch |-> "esp32s3", min_os |-> <<0, 4, 9>>],
     imports |-> {"ipc", "plain"}],
    [path |-> "copy.elf", signature |-> "valid",
     json |-> [type |-> "app", id |-> maps, permissions |-> {"storage"}],
     imports |-> {"storage"}],
    [path |-> "greedy.elf", signature |-> "valid",
     json |-> [type |-> "app", id |-> maps, permissions |-> {"network"}],
     imports |-> {"ipc"}],
    [path |-> "notes.elf", signature |-> "none",
     json |-> [type |-> "app", id |-> notes, permissions |-> {"storage"}],
     imports |-> {"ipc"}],
    [path |-> "bare.elf", signature |-> "valid", json |-> [name |-> "bare"],
     imports |-> {"plain"}]}

MCSymmetry == Permutations(Streams)
=============================================================================
