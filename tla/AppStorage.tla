----------------------------- MODULE AppStorage -----------------------------
(***************************************************************************)
(* The files of an app (src/components/kernel_rs/src/syscall_table.rs): the *)
(* storage functions resolve the name an app gives below the directory of  *)
(* the app and open, list, remove or replace files there.  A replacement   *)
(* is three changes of names on the disk; the task of the app may be       *)
(* deleted or the power lost between any two, and the app's callbacks run  *)
(* on another task.  The streams of open files are in ElfApps.             *)
(***************************************************************************)
EXTENDS Integers

CONSTANTS
    Tasks,      \* tasks that run code of the app
    Names,      \* names of files, each a stem and an extension; an app may use that of the
                \* backups, and a file with it is taken for the backup of its stem
    Backup,     \* the extension of a file set aside, "thistle-backup"
    Outside,    \* names that lead out of the directory or nowhere
    MaxWrites   \* bound on the contents written

VARIABLES
    disk,    \* the directory: contents of each file, 0 if there is none
    calls,   \* the replacement a task is in, and its step
    writes,  \* number of contents written
    kept,    \* history: the contents a name had when it was last written or replaced
    told,    \* history: what the last call of a task returned
    shared   \* history: stems used by two calls at once, or whose replacement was cut short

vars == <<disk, calls, writes, kept, told, shared>>

Aside(n) == [stem |-> n.stem, ext |-> Backup]
Places == Names \cup {Aside(n) : n \in Names}
NoCall == [step |-> "none", from |-> CHOOSE n \in Names : TRUE, to |-> CHOOSE n \in Names : TRUE, had |-> FALSE]

TypeOK ==
    /\ disk \in [Places -> 0 .. MaxWrites] /\ kept \in [Names -> 0 .. MaxWrites]
    /\ calls \in [Tasks -> [step : {"none", "clear", "aside", "move", "tidy"}, from : Names,
                            to : Names, had : BOOLEAN]]
    /\ writes \in 0 .. MaxWrites /\ told \in [Tasks -> {0, -1}] /\ shared \subseteq {n.stem : n \in Names}

Init ==
    /\ disk = [p \in Places |-> 0] /\ calls = [t \in Tasks |-> NoCall] /\ writes = 0
    /\ kept = [n \in Names |-> 0] /\ told = [t \in Tasks |-> 0] /\ shared = {}

\* resolve_app_storage_path: names that are absolute, empty or go up are refused.
Resolves(n) == n \in Names

Idle(t) == calls[t].step = "none"
Stems(tasks) == {n.stem : n \in UNION {{calls[t].from, calls[t].to} : t \in {u \in tasks : ~Idle(u)}}}

Touches(n) == shared' = shared \cup (Stems(Tasks) \cap {n.stem})

\* thistle_fs_open with "w", then write and close
Write(t, n) ==
    /\ Idle(t) /\ Resolves(n) /\ writes < MaxWrites
    /\ writes' = writes + 1
    /\ disk' = [disk EXCEPT ![n] = writes + 1] /\ kept' = [kept EXCEPT ![n] = writes + 1]
    /\ Touches(n) /\ UNCHANGED <<calls, told>>

\* app_fs_remove
RemoveFile(t, n) ==
    /\ Idle(t) /\ Resolves(n) /\ disk[n] # 0
    /\ disk' = [disk EXCEPT ![n] = 0] /\ kept' = [kept EXCEPT ![n] = 0]
    /\ Touches(n) /\ UNCHANGED <<calls, writes, told>>

-----------------------------------------------------------------------------
Ends(t, result) ==
    calls' = [calls EXCEPT ![t] = NoCall] /\ told' = [told EXCEPT ![t] = result]

Goes(t, step) == calls' = [calls EXCEPT ![t].step = step] /\ UNCHANGED told

\* app_fs_replace up to the removal of an old backup
Replace(t, from, to) ==
    /\ Idle(t) /\ Resolves(from) /\ Resolves(to)
    /\ IF from = to \/ disk[from] = 0
       THEN Ends(t, -1) /\ UNCHANGED shared
       ELSE /\ calls' = [calls EXCEPT ![t] = [step |-> "clear", from |-> from, to |-> to, had |-> FALSE]]
            /\ shared' = shared \cup (Stems(Tasks) \cap {from.stem, to.stem})
            /\ UNCHANGED told
    /\ UNCHANGED <<disk, writes, kept>>

\* Another file with the stem may be what the backup is of.
ClearBackup(t) ==
    LET aside == Aside(calls[t].to)
    IN  /\ calls[t].step = "clear"
        /\ \/ disk' = [disk EXCEPT ![aside] = 0] /\ Goes(t, "aside")
           \/ disk[aside] # 0 /\ Ends(t, -1) /\ UNCHANGED disk
        /\ UNCHANGED <<writes, kept, shared>>

Move(from, to) == IF from = to THEN disk ELSE [disk EXCEPT ![to] = disk[from], ![from] = 0]

SetAside(t) ==
    LET c == calls[t]
    IN  /\ c.step = "aside"
        /\ \/ /\ disk' = IF disk[c.to] # 0 THEN Move(c.to, Aside(c.to)) ELSE disk
              /\ calls' = [calls EXCEPT ![t].step = "move", ![t].had = disk[c.to] # 0]
              /\ UNCHANGED told
           \/ disk[c.to] # 0 /\ Ends(t, -1) /\ UNCHANGED disk
        /\ UNCHANGED <<writes, kept, shared>>

\* (mutant: what was set aside is not taken back)
UndoneMutant(c) == disk

\* A rename that fails is undone.
Undone(c) == IF c.had /\ disk[Aside(c.to)] # 0 THEN Move(Aside(c.to), c.to) ELSE disk

MoveInto(t) ==
    LET c == calls[t]
    IN  /\ c.step = "move"
        /\ \/ /\ disk[c.from] # 0
              /\ disk' = Move(c.from, c.to)
              /\ kept' = [kept EXCEPT ![c.to] = disk[c.from], ![c.from] = 0]
              /\ Goes(t, "tidy") /\ UNCHANGED shared
           \/ disk' = Undone(c) /\ Ends(t, -1) /\ UNCHANGED <<kept, shared>>
           \/ /\ c.had /\ shared' = shared \cup {c.to.stem}  \* neither rename works
              /\ Ends(t, -1) /\ UNCHANGED <<disk, kept>>
        /\ UNCHANGED writes

\* An old file that cannot be removed stays aside, the call has succeeded.
Tidy(t) ==
    LET c == calls[t]
    IN  /\ c.step = "tidy"
        /\ disk' \in {disk} \cup IF c.had THEN {[disk EXCEPT ![Aside(c.to)] = 0]} ELSE {}
        /\ Ends(t, 0)
        /\ UNCHANGED <<writes, kept, shared>>

\* The power is lost, or the app's task deleted; nothing looks for a backup afterwards.
Crash ==
    /\ \E t \in Tasks : ~Idle(t)
    /\ calls' = [t \in Tasks |-> NoCall]
    /\ shared' = shared \cup Stems({t \in Tasks : calls[t].step = "move"})
    /\ UNCHANGED <<disk, writes, kept, told>>

Next ==
    \/ \E t \in Tasks, n \in Names : Write(t, n) \/ RemoveFile(t, n) \/ \E m \in Names : Replace(t, n, m)
    \/ \E t \in Tasks : ClearBackup(t) \/ SetAside(t) \/ MoveInto(t) \/ Tidy(t)
    \/ Crash

Spec == Init /\ [][Next]_vars

-----------------------------------------------------------------------------
\* What a name was last given is under it, or aside while it is being replaced; except
\* that nothing keeps two calls from using names of one stem, which share one backup, at
\* once, and nothing takes the backup back after a crash or a failed undoing of a rename.
\* A file that has itself the extension of a backup is removed as one by the next
\* replacement of its stem: of such names nothing is said (replace_storage_path).
NothingIsLost ==
    \A n \in {m \in Names : m.ext # Backup} :
        disk[n] = kept[n] \/ disk[Aside(n)] = kept[n] \/ n.stem \in shared
=============================================================================
