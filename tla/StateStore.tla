----------------------------- MODULE StateStore -----------------------------
(***************************************************************************)
(* The agent's two state files (agent_state.py, AgentStateStore), one file *)
(* operation at a time, by one thread (AgentThreads has the other one).  Each*)
(* file has a backup beside it and is replaced by renaming a temporary file*)
(* over it; nothing is flushed.  Any operation may fail, and the process   *)
(* may be killed, or the power lost, between any two.                      *)
(*                                                                         *)
(* A file's content is a version: 0 for what is derived when there is      *)
(* nothing to load (the legacy file, the installer's file, built-in        *)
(* defaults), n for what the n-th save changed.                            *)
(***************************************************************************)
EXTENDS Integers, FiniteSets

CONSTANTS MaxSaves, MaxFaults, MaxStatFaults, MaxCrashes, MaxPowerLosses

ASSUME BoundsAssumption ==
    /\ MaxSaves \in Nat
    /\ MaxFaults \in Nat
    /\ MaxStatFaults \in Nat
    /\ MaxCrashes \in Nat
    /\ MaxPowerLosses \in Nat

VARIABLES
    main, bak, tmp, \* content of <name>, <name>.bak and <name>.tmp, per file
    dirty,          \* what the operating system has not put on the disk yet
    pc,             \* where the process is
    purpose,        \* "load", "retry" (the load a save tries first) or "save"
    file, copy,     \* the file it is at, and which copy of it Load reads
    found,          \* what Load has found, per file
    todo,           \* the files this Load or Save has still to write
    mem,            \* what the process holds in memory, per file
    stable,         \* history: files a good copy of which was put on the disk
    saves, faults, statFaults, crashes, powerLosses     \* spent of the bounds

fs == <<main, bak, tmp, dirty>>
reading == <<copy, found>>
past == <<stable, crashes, powerLosses>>
vars == <<fs, pc, purpose, file, reading, todo, mem, past, saves, faults, statFaults>>

Files == {"daily", "state"}
Missing == -1       \* no such file
Garbage == -2       \* torn, truncated or otherwise unusable
Contents == Nat \cup {Missing, Garbage}
Nothing == [f \in Files |-> Missing]

Usable(c) == c \in Nat

\* What a load would settle on now.
Recoverable(f) ==
    IF Usable(main[f]) THEN main[f]
    ELSE IF Usable(bak[f]) THEN bak[f] ELSE Missing

Fault == faults < MaxFaults /\ faults' = faults + 1 /\ UNCHANGED statFaults
NoFault == UNCHANGED <<faults, statFaults>>

\* is_file() says no of a file that may well be there: it takes an error (a drive
\* that is not ready; any error, since Python 3.14) for a no.
StatFault ==
    statFaults < MaxStatFaults /\ statFaults' = statFaults + 1 /\ UNCHANGED faults

-----------------------------------------------------------------------------
(* Load: each file, the settings first, and of each the backup second *)

BeginLoad(why) ==
    /\ pc' = "read"
    /\ purpose' = why
    /\ file' = "daily"
    /\ copy' = "main"
    /\ found' = Nothing
    /\ UNCHANGED <<fs, todo, mem, past, saves, faults, statFaults>>

Start == pc = "down" /\ BeginLoad("load")

\* save_state after a load that failed.
RetryLoad == pc = "failed" /\ BeginLoad("retry")

Here == IF copy = "main" THEN main[file] ELSE bak[file]

\* _read_validated returns v for this file.
FileDone(v) ==
    /\ found' = [found EXCEPT ![file] = v]
    /\ copy' = "main"
    /\ IF file = "daily" THEN pc' = "read" /\ file' = "state"
                         ELSE pc' = "settle" /\ UNCHANGED file

NextCopy ==
    IF copy = "main" THEN copy' = "bak" /\ UNCHANGED <<pc, file, found>>
                     ELSE FileDone(Missing)

\* A valid file is it.  A valid backup is copied over the file, which begins by
\* truncating it; a copy that fails is only logged.
ReadUsable ==
    /\ pc = "read"
    /\ Usable(Here)
    /\ \/ /\ (copy = "main" /\ NoFault) \/ (copy = "bak" /\ Fault)
          /\ FileDone(Here)
          /\ UNCHANGED <<main, dirty>>
       \/ /\ copy = "bak" /\ NoFault
          /\ main' = [main EXCEPT ![file] = Garbage]
          /\ dirty' = dirty \cup {<<"main", file>>}
          /\ pc' = "restore"
          /\ UNCHANGED <<file, reading>>
    /\ UNCHANGED <<bak, tmp, purpose, todo, mem, past, saves>>

Restored ==
    /\ pc = "restore"
    /\ \/ NoFault /\ main' = [main EXCEPT ![file] = bak[file]]
       \/ Fault /\ UNCHANGED main
    /\ dirty' = dirty \cup {<<"main", file>>}
    /\ FileDone(bak[file])
    /\ UNCHANGED <<bak, tmp, purpose, todo, mem, past, saves>>

\* There is no such file, or is_file() says so.
ReadMissing ==
    /\ pc = "read"
    /\ (Here = Missing /\ NoFault) \/ StatFault
    /\ NextCopy
    /\ UNCHANGED <<fs, purpose, todo, mem, past, saves>>

\* Unusable: moved aside; a move that fails is only logged.
ReadGarbage ==
    /\ pc = "read"
    /\ Here = Garbage
    /\ \/ /\ NoFault
          /\ IF copy = "main"
             THEN main' = [main EXCEPT ![file] = Missing] /\ UNCHANGED bak
             ELSE bak' = [bak EXCEPT ![file] = Missing] /\ UNCHANGED main
       \/ Fault /\ UNCHANGED <<main, bak>>
    /\ NextCopy
    /\ UNCHANGED <<tmp, dirty, purpose, todo, mem, past, saves>>

\* The file is there and cannot be read: load lets the OSError escape.
ReadFails ==
    /\ pc = "read"
    /\ Here # Missing
    /\ Fault
    /\ pc' = "failed"
    /\ UNCHANGED <<fs, purpose, file, reading, todo, mem, past, saves>>

FirstOf(S) == IF "daily" \in S THEN "daily" ELSE "state"

BeginWrites(S) == pc' = "check" /\ todo' = S /\ file' = FirstOf(S)

\* Both files were read.  Settings that had to be derived are written, and the
\* counters with them unless there were some on disk.
Settle ==
    /\ pc = "settle"
    /\ mem' = [f \in Files |-> IF found[f] = Missing THEN 0 ELSE found[f]]
    /\ IF found["daily"] = Missing
       THEN BeginWrites({f \in Files : found[f] = Missing})
       ELSE pc' = "loaded" /\ UNCHANGED <<file, todo>>
    /\ UNCHANGED <<fs, purpose, reading, past, saves, faults, statFaults>>

\* Load returns; the save that was waiting for it goes on.
Loaded ==
    /\ pc = "loaded"
    /\ \/ /\ purpose = "load"
          /\ pc' = "ready"
          /\ UNCHANGED <<purpose, file, todo>>
       \/ /\ purpose = "retry"
          /\ purpose' = "save"
          /\ BeginWrites(Files)
    /\ UNCHANGED <<fs, reading, mem, past, saves, faults, statFaults>>

-----------------------------------------------------------------------------
(* Save *)

\* The caller changes settings, counters, both or neither, and saves.
Save ==
    /\ pc = "ready"
    /\ saves < MaxSaves
    /\ saves' = saves + 1
    /\ \E changed \in SUBSET Files :
          mem' = [f \in Files |-> IF f \in changed THEN saves + 1 ELSE mem[f]]
    /\ purpose' = "save"
    /\ BeginWrites(Files)
    /\ UNCHANGED <<fs, reading, past, faults, statFaults>>

\* A file operation of _write_json fails: a load fails, a save is given up.
WriteFails ==
    /\ pc \in {"check", "backup", "write", "rename"}
    /\ Fault
    /\ pc' = IF purpose = "save" THEN "ready" ELSE "failed"
    /\ UNCHANGED <<fs, purpose, file, reading, todo, mem, past, saves>>

\* Mutant: backs up whatever is there.
CheckCurrentUnvalidated ==
    /\ pc = "check"
    /\ main[file] # Missing
    /\ NoFault
    /\ bak' = [bak EXCEPT ![file] = Garbage]
    /\ dirty' = dirty \cup {<<"bak", file>>}
    /\ pc' = "backup"
    /\ UNCHANGED <<main, tmp, purpose, file, reading, todo, mem, past, saves>>

\* Mutant: moves the file to the backup, with nothing in its place.
CheckCurrentMoves ==
    /\ pc = "check"
    /\ NoFault
    /\ IF Usable(main[file])
       THEN /\ bak' = [bak EXCEPT ![file] = main[file]]
            /\ main' = [main EXCEPT ![file] = Missing]
       ELSE UNCHANGED <<bak, main>>
    /\ tmp' = [tmp EXCEPT ![file] = Garbage]
    /\ dirty' = dirty \cup {<<"bak", file>>, <<"tmp", file>>}
    /\ pc' = "write"
    /\ UNCHANGED <<purpose, file, reading, todo, mem, past, saves>>

\* _write_json looks at the current file: only a valid one becomes the backup,
\* which is truncated first; otherwise the temporary file is begun.
CheckCurrent ==
    /\ pc = "check"
    /\ \/ /\ Usable(main[file]) /\ NoFault
          /\ bak' = [bak EXCEPT ![file] = Garbage]
          /\ dirty' = dirty \cup {<<"bak", file>>}
          /\ pc' = "backup"
          /\ UNCHANGED tmp
       \/ /\ (~Usable(main[file]) /\ NoFault) \/ StatFault
          /\ tmp' = [tmp EXCEPT ![file] = Garbage]
          /\ dirty' = dirty \cup {<<"tmp", file>>}
          /\ pc' = "write"
          /\ UNCHANGED bak
    /\ UNCHANGED <<main, purpose, file, reading, todo, mem, past, saves>>

BackedUp ==
    /\ pc = "backup"
    /\ bak' = [bak EXCEPT ![file] = main[file]]
    /\ tmp' = [tmp EXCEPT ![file] = Garbage]
    /\ dirty' = dirty \cup {<<"bak", file>>, <<"tmp", file>>}
    /\ pc' = "write"
    /\ UNCHANGED <<main, purpose, file, reading, todo, mem, past, saves, faults, statFaults>>

TmpWritten ==
    /\ pc = "write"
    /\ tmp' = [tmp EXCEPT ![file] = mem[file]]
    /\ dirty' = dirty \cup {<<"tmp", file>>}
    /\ pc' = "rename"
    /\ UNCHANGED <<main, bak, purpose, file, reading, todo, mem, past, saves, faults, statFaults>>

\* The rename replaces the file at once, by data that may not be on the disk.
\* Then comes the other file, or the Load or Save is done.
Renamed ==
    /\ pc = "rename"
    /\ main' = [main EXCEPT ![file] = tmp[file]]
    /\ tmp' = [tmp EXCEPT ![file] = Missing]
    /\ dirty' = (dirty \ {<<"tmp", file>>, <<"main", file>>})
                \cup IF <<"tmp", file>> \in dirty THEN {<<"main", file>>} ELSE {}
    /\ IF todo = {file}
       THEN /\ pc' = IF purpose = "save" THEN "ready" ELSE "loaded"
            /\ todo' = {}
            /\ UNCHANGED file
       ELSE BeginWrites(todo \ {file})
    /\ UNCHANGED <<bak, purpose, reading, mem, past, saves, faults, statFaults>>

-----------------------------------------------------------------------------
(* Outside the process *)

\* The operating system puts everything on the disk.
Flush ==
    /\ dirty' = {}
    /\ stable' = stable \cup {f \in Files : Usable(main[f])}
    /\ UNCHANGED <<main, bak, tmp, pc, purpose, file, reading, todo, mem, saves,
                   faults, statFaults, crashes, powerLosses>>

Killed ==
    /\ pc # "down"
    /\ crashes < MaxCrashes
    /\ crashes' = crashes + 1
    /\ pc' = "down"
    /\ UNCHANGED <<fs, purpose, file, reading, todo, mem, stable, powerLosses, saves,
                   faults, statFaults>>

\* What was not on the disk may be gone, each piece by itself.
PowerLoss ==
    /\ pc # "down"
    /\ powerLosses < MaxPowerLosses
    /\ powerLosses' = powerLosses + 1
    /\ pc' = "down"
    /\ \E lost \in SUBSET dirty :
          /\ main' = [f \in Files |-> IF <<"main", f>> \in lost THEN Garbage ELSE main[f]]
          /\ bak' = [f \in Files |-> IF <<"bak", f>> \in lost THEN Garbage ELSE bak[f]]
          /\ tmp' = [f \in Files |-> IF <<"tmp", f>> \in lost THEN Garbage ELSE tmp[f]]
    /\ dirty' = {}
    /\ UNCHANGED <<purpose, file, reading, todo, mem, stable, crashes, saves,
                   faults, statFaults>>

-----------------------------------------------------------------------------
(* Specification *)

\* Two saves were made before, and since then anything happened to the files.
Init ==
    /\ main \in [Files -> {Missing, Garbage, 2}]
    /\ bak \in [Files -> {Missing, Garbage, 1}]
    /\ tmp = Nothing
    /\ dirty = {}
    /\ pc = "down"
    /\ purpose = "load"
    /\ file = "daily"
    /\ copy = "main"
    /\ found = Nothing
    /\ todo = {}
    /\ mem = [f \in Files |-> 0]
    /\ stable = {f \in Files : Usable(main[f])}
    /\ saves = 2
    /\ faults = 0 /\ statFaults = 0 /\ crashes = 0 /\ powerLosses = 0

LoadStep ==
    \/ Start \/ RetryLoad
    \/ ReadUsable \/ Restored \/ ReadMissing \/ ReadGarbage \/ ReadFails
    \/ Settle \/ Loaded

SaveStep == Save \/ WriteFails \/ CheckCurrent \/ BackedUp \/ TmpWritten \/ Renamed

Next == LoadStep \/ SaveStep \/ Flush \/ Killed \/ PowerLoss

Spec == Init /\ [][Next]_vars

-----------------------------------------------------------------------------
(* Properties *)

TypeOK ==
    /\ main \in [Files -> Contents]
    /\ bak \in [Files -> Contents]
    /\ tmp \in [Files -> Contents]
    /\ dirty \subseteq {"main", "bak", "tmp"} \X Files
    /\ pc \in {"down", "read", "restore", "settle", "loaded", "failed", "ready",
               "check", "backup", "write", "rename"}
    /\ purpose \in {"load", "retry", "save"}
    /\ file \in Files
    /\ copy \in {"main", "bak"}
    /\ found \in [Files -> Nat \cup {Missing}]
    /\ todo \subseteq Files
    /\ mem \in [Files -> Nat]
    /\ stable \subseteq Files
    /\ saves \in Nat /\ faults \in Nat /\ statFaults \in Nat
    /\ crashes \in Nat /\ powerLosses \in Nat

Holding == {"loaded", "ready", "check", "backup", "write", "rename"}

Atomic == INSTANCE AtomicStore WITH
    stored <- [f \in Files |-> Recoverable(f)],
    held <- IF pc \in Holding THEN mem ELSE Nothing

\* The files behave as if each was replaced at once and read back as it was last
\* written, whatever operation fails, wherever the process is killed, and
\* whatever state it found them in.  A load that fails does not let defaults be
\* written over them.
ImplementsAtomicStore == Atomic!Spec

\* A file whose present text is on the disk stays what a load finds after a power
\* loss, though its backup or its successor is being written, and however earlier
\* saves and restores ended.  Of a file that was replaced since the last flush it
\* says nothing: of that, the older text too may be lost (PowerLossLeavesACopy).
PowerLossSparesAFlushedFile ==
    [][powerLosses' # powerLosses =>
          \A f \in Files : <<"main", f>> \notin dirty =>
              Recoverable(f)' = Recoverable(f)]_vars

(* What the comments say, and the code does not do *)

\* agent_state.py (_load_json_file): an OSError is not a verdict on the file and
\* propagates.  Hence what a load would find is never taken back to
\* an older save or to defaults.
NothingGoesBack ==
    [][\A f \in Files : Recoverable(f)' >= Recoverable(f)]_vars

\* pc_time_control.py (_persist_if_due): usage is saved periodically so that a
\* power loss is no free reset.  Once a good copy of a file was on the disk there always is one.
PowerLossLeavesACopy ==
    pc = "down" => \A f \in stable : Recoverable(f) # Missing
=============================================================================
