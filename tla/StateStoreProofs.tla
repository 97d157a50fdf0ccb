--------------------------- MODULE StateStoreProofs ---------------------------
(***************************************************************************)
(* Proofs about StateStore, for every bound: its type invariant, and that  *)
(* it implements AtomicStore as long as is_file() tells a file that is not *)
(* there from one it cannot look at, and no power loss tears what was not  *)
(* flushed.                                                                *)
(***************************************************************************)
EXTENDS StateStore, TLAPS

\* What is known of the files at each place of a Load or a Save.  A file Load is
\* done with has been found as it can be recovered; its backup is read only when
\* the file itself is no good; a backup is only begun from a good file; and the
\* temporary file that is renamed holds what is in memory.
StoreInv ==
    /\ pc \in {"read", "restore"} /\ file = "state" =>
          found["daily"] = Recoverable("daily")
    /\ pc = "settle" => \A f \in Files : found[f] = Recoverable(f)
    /\ pc = "read" /\ copy = "bak" => ~Usable(main[file])
    /\ pc = "restore" => ~Usable(main[file])
    /\ pc = "backup" => Usable(main[file])
    /\ pc = "rename" => tmp[file] = mem[file]

-----------------------------------------------------------------------------
(* Types *)

\* Inductive: only a good backup is put back.
TypeInv == TypeOK /\ (pc = "restore" => Usable(bak[file]))

\* The store is well typed before the process first runs.
LEMMA TypeInit == Init => TypeInv
  BY DEF Init, TypeInv, TypeOK, Files, Contents, Nothing, Missing, Garbage, Usable

\* FileDone and NextCopy leave the reading variables well typed.
LEMMA ReadingType ==
    ASSUME TypeOK, NEW v \in Nat \cup {Missing},
           FileDone(v) \/ NextCopy
    PROVE  /\ found' \in [Files -> Nat \cup {Missing}]
           /\ copy' \in {"main", "bak"}
           /\ file' \in Files
           /\ pc' \in {pc, "read", "settle"}
  BY DEF TypeOK, FileDone, NextCopy, Files

\* Every step keeps the types: reading and recovering, saving, kills and power
\* losses.
LEMMA TypeNext == TypeInv /\ [Next]_vars => TypeInv'
  <1> SUFFICES ASSUME TypeOK, pc = "restore" => Usable(bak[file]), [Next]_vars
               PROVE  TypeInv'
    BY DEF TypeInv
  <1> USE DEF TypeInv, TypeOK
  <1>1. CASE UNCHANGED vars
    BY <1>1 DEF vars, fs, reading, past
  <1>2. CASE Start \/ RetryLoad
    BY <1>2 DEF Start, RetryLoad, BeginLoad, fs, past, Files, Nothing
  <1>3. CASE ReadUsable
    <2>1. Here \in Nat /\ (copy = "bak" => Here = bak[file])
      BY <1>3 DEF ReadUsable, Usable, Here
    <2>2. CASE FileDone(Here) /\ UNCHANGED <<main, dirty>>
      BY <1>3, <2>1, <2>2, ReadingType DEF ReadUsable, Fault, NoFault, past
    <2>3. CASE /\ copy = "bak" /\ NoFault
               /\ main' = [main EXCEPT ![file] = Garbage]
               /\ dirty' = dirty \cup {<<"main", file>>}
               /\ pc' = "restore"
               /\ UNCHANGED <<file, reading>>
      BY <1>3, <2>1, <2>3 DEF ReadUsable, NoFault, past, reading, Usable, Contents
    <2> QED BY <1>3, <2>2, <2>3 DEF ReadUsable
  <1>4. CASE Restored
    <2>1. bak[file] \in Nat \cup {Missing}
      BY <1>4 DEF Restored, Usable
    <2>2. pc' \in {"read", "settle"}
      BY <1>4 DEF Restored, FileDone
    <2>3. main' \in [Files -> Contents]
      BY <1>4 DEF Restored
    <2>4. /\ found' \in [Files -> Nat \cup {Missing}]
          /\ copy' \in {"main", "bak"}
          /\ file' \in Files
      BY <1>4, <2>1, ReadingType DEF Restored
    <2>5. faults' \in Nat /\ statFaults' \in Nat
      BY <1>4 DEF Restored, NoFault, Fault
    <2>6. /\ dirty' \subseteq {"main", "bak", "tmp"} \X Files
          /\ UNCHANGED <<bak, tmp, purpose, todo, mem, stable, crashes, powerLosses, saves>>
      BY <1>4 DEF Restored, past
    <2> QED BY <2>2, <2>3, <2>4, <2>5, <2>6
  <1>5. CASE ReadMissing
    BY <1>5, ReadingType DEF ReadMissing, NoFault, StatFault, fs, past
  <1>6. CASE ReadGarbage
    BY <1>6, ReadingType DEF ReadGarbage, NoFault, Fault, Contents, past
  <1>7. CASE ReadFails
    BY <1>7 DEF ReadFails, fs, reading, past, Fault
  <1>8. CASE Settle
    BY <1>8 DEF Settle, BeginWrites, FirstOf, Files, fs, reading, past
  <1>9. CASE Loaded
    BY <1>9 DEF Loaded, BeginWrites, FirstOf, Files, fs, reading, past
  <1>10. CASE Save
    BY <1>10 DEF Save, BeginWrites, FirstOf, Files, fs, reading, past
  <1>11. CASE WriteFails
    BY <1>11 DEF WriteFails, fs, reading, past, Fault
  <1>12. CASE CheckCurrent
    BY <1>12 DEF CheckCurrent, NoFault, StatFault, Contents, reading, past
  <1>13. CASE BackedUp
    BY <1>13 DEF BackedUp, Contents, reading, past
  <1>14. CASE TmpWritten
    BY <1>14 DEF TmpWritten, Contents, reading, past
  <1>15. CASE Renamed
    <2>1. /\ main' \in [Files -> Contents]
          /\ tmp' \in [Files -> Contents]
      BY <1>15 DEF Renamed, Contents
    <2>2. /\ pc' \in {"ready", "loaded", "check"}
          /\ file' \in Files
          /\ todo' \subseteq Files
      BY <1>15 DEF Renamed, BeginWrites, FirstOf, Files
    <2>3. dirty' \subseteq {"main", "bak", "tmp"} \X Files
      BY <1>15 DEF Renamed
    <2> QED BY <1>15, <2>1, <2>2, <2>3 DEF Renamed, reading, past
  <1>16. CASE Flush
    BY <1>16 DEF Flush, reading
  <1>17. CASE Killed
    BY <1>17 DEF Killed, fs, reading
  <1>18. CASE PowerLoss
    <2>1. PICK lost \in SUBSET dirty :
            /\ main' = [f \in Files |-> IF <<"main", f>> \in lost THEN Garbage ELSE main[f]]
            /\ bak' = [f \in Files |-> IF <<"bak", f>> \in lost THEN Garbage ELSE bak[f]]
            /\ tmp' = [f \in Files |-> IF <<"tmp", f>> \in lost THEN Garbage ELSE tmp[f]]
      BY <1>18 DEF PowerLoss
    <2>2. /\ main' \in [Files -> Contents]
          /\ bak' \in [Files -> Contents]
          /\ tmp' \in [Files -> Contents]
      BY <2>1 DEF Contents
    <2> QED BY <1>18, <2>2 DEF PowerLoss, reading
  <1> QED BY <1>1, <1>2, <1>3, <1>4, <1>5, <1>6, <1>7, <1>8, <1>9, <1>10, <1>11,
             <1>12, <1>13, <1>14, <1>15, <1>16, <1>17, <1>18
          DEF Next, LoadStep, SaveStep

\* Every variable has its type in every reachable state, power losses included.
THEOREM TypeCorrect == Spec => []TypeOK
  <1>1. TypeInv => TypeOK
    BY DEF TypeInv
  <1> QED BY <1>1, TypeInit, TypeNext, PTL DEF Spec

-----------------------------------------------------------------------------
(* The files at each place of a Load or a Save *)

\* What holds when is_file() never fails and the power stays on.
Dependable == MaxStatFaults = 0 /\ MaxPowerLosses = 0

\* With both bounds at 0 neither of the two can happen.
LEMMA NoStatFault == TypeOK /\ Dependable => ~StatFault /\ ~PowerLoss
  BY BoundsAssumption DEF TypeOK, Dependable, StatFault, PowerLoss

\* Before the first save there is nothing to lose.
LEMMA InvInit == Init => StoreInv
  BY DEF Init, StoreInv

\* A read step finds what can be recovered of the file it is done with.
LEMMA ReadingInv ==
    ASSUME TypeInv, StoreInv, pc \in {"read", "restore"},
           \A f \in Files : Recoverable(f)' = Recoverable(f),
           FileDone(Recoverable(file))
    PROVE  StoreInv'
  BY DEF StoreInv, TypeInv, TypeOK, FileDone, Files

\* So does a read step that finds nothing usable, and goes to the next copy.
LEMMA NothingThere ==
    ASSUME TypeInv, StoreInv, pc = "read", ~Usable(Here), NextCopy,
           \A f \in Files : Recoverable(f)' = Recoverable(f),
           \A f \in Files : Usable(main'[f]) => Usable(main[f])
    PROVE  StoreInv'
  <1>1. CASE copy = "main"
    BY <1>1 DEF NextCopy, Here, StoreInv, TypeInv, TypeOK, Files
  <1>2. CASE copy = "bak"
    <2>1. Recoverable(file) = Missing /\ FileDone(Missing)
      BY <1>2 DEF NextCopy, Here, StoreInv, Recoverable
    <2> QED BY <2>1, ReadingInv
  <1> QED BY <1>1, <1>2 DEF TypeInv, TypeOK

\* Reading, setting aside and restoring change nothing a load would settle on.
LEMMA ReadingKeeps ==
    ASSUME Dependable, TypeInv, StoreInv,
           ReadUsable \/ Restored \/ ReadMissing \/ ReadGarbage \/ ReadFails
    PROVE  \A f \in Files : Recoverable(f)' = Recoverable(f)
  <1> USE DEF Recoverable
  <1>1. CASE ReadUsable
    <2>1. CASE UNCHANGED main
      BY <1>1, <2>1 DEF ReadUsable
    <2>2. CASE copy = "bak" /\ main' = [main EXCEPT ![file] = Garbage]
      BY <1>1, <2>2 DEF ReadUsable, Here, Usable, Garbage, StoreInv, TypeInv, TypeOK
    <2> QED BY <1>1, <2>1, <2>2 DEF ReadUsable
  <1>2. CASE Restored
    BY <1>2 DEF Restored, StoreInv, TypeInv, TypeOK
  <1>3. CASE ReadMissing \/ ReadFails
    BY <1>3 DEF ReadMissing, ReadFails, fs
  <1>4. CASE ReadGarbage
    <2>1. Here = Garbage /\ ~Usable(Garbage) /\ ~Usable(Missing)
      BY <1>4 DEF ReadGarbage, Usable, Garbage, Missing
    <2> QED BY <1>4, <2>1 DEF ReadGarbage, Here, TypeInv, TypeOK
  <1> QED BY <1>1, <1>2, <1>3, <1>4

\* Every step keeps it, as long as is_file() tells the truth and the power stays on.
LEMMA InvNext ==
    ASSUME Dependable, TypeInv, StoreInv, [Next]_vars
    PROVE  StoreInv'
  <1>0. ~StatFault /\ ~PowerLoss
    BY NoStatFault DEF TypeInv
  <1> USE DEF StoreInv, TypeInv, TypeOK
  <1>1. CASE UNCHANGED vars
    BY <1>1 DEF vars, fs, reading, Recoverable
  <1>2. CASE Start \/ RetryLoad
    BY <1>2 DEF Start, RetryLoad, BeginLoad
  <1>3. CASE ReadUsable
    <2>1. Here = Recoverable(file)
      BY <1>3 DEF ReadUsable, Here, Recoverable
    <2>2. CASE FileDone(Here) /\ UNCHANGED <<main, dirty>>
      BY <1>3, <2>1, <2>2, ReadingKeeps, ReadingInv DEF ReadUsable
    <2>3. CASE /\ copy = "bak"
               /\ main' = [main EXCEPT ![file] = Garbage]
               /\ pc' = "restore"
               /\ UNCHANGED <<file, reading>>
      <3>1. Usable(bak'[file]) /\ ~Usable(main'[file])
        BY <1>3, <2>3 DEF ReadUsable, Here, Usable, Garbage
      <3> QED BY <1>3, <2>3, <3>1, ReadingKeeps DEF ReadUsable, reading, Files
    <2> QED BY <1>3, <2>2, <2>3 DEF ReadUsable
  <1>4. CASE Restored
    BY <1>4, ReadingKeeps, ReadingInv DEF Restored, Recoverable
  <1>5. CASE ReadMissing
    <2>1. ~Usable(Here) /\ UNCHANGED main
      BY <1>0, <1>5 DEF ReadMissing, Usable, Missing, fs
    <2> QED BY <1>5, <2>1, ReadingKeeps, NothingThere DEF ReadMissing
  <1>6. CASE ReadGarbage
    <2>1. ~Usable(Here) /\ ~Usable(Missing)
      BY <1>6 DEF ReadGarbage, Usable, Garbage, Missing
    <2>2. \A f \in Files : Usable(main'[f]) => Usable(main[f])
      BY <1>6, <2>1 DEF ReadGarbage
    <2> QED BY <1>6, <2>1, <2>2, ReadingKeeps, NothingThere DEF ReadGarbage
  <1>7. CASE ReadFails \/ WriteFails \/ Killed
    BY <1>7 DEF ReadFails, WriteFails, Killed
  <1>8. CASE Settle
    BY <1>8 DEF Settle, BeginWrites
  <1>9. CASE Loaded
    BY <1>9 DEF Loaded, BeginWrites
  <1>10. CASE Save
    BY <1>10 DEF Save, BeginWrites
  <1>12. CASE CheckCurrent
    BY <1>0, <1>12 DEF CheckCurrent
  <1>13. CASE BackedUp
    BY <1>13 DEF BackedUp
  <1>14. CASE TmpWritten
    BY <1>14 DEF TmpWritten
  <1>15. CASE Renamed
    BY <1>15 DEF Renamed, BeginWrites
  <1>16. CASE Flush
    BY <1>16 DEF Flush, Recoverable, reading
  <1> QED BY <1>0, <1>1, <1>2, <1>3, <1>4, <1>5, <1>6, <1>7, <1>8, <1>9, <1>10,
             <1>12, <1>13, <1>14, <1>15, <1>16
          DEF Next, LoadStep, SaveStep

-----------------------------------------------------------------------------
(* StateStore implements AtomicStore *)

\* The values of AtomicStore's variables.
Stored == [f \in Files |-> Recoverable(f)]
Held == IF pc \in Holding THEN mem ELSE Nothing

\* What the process holds is never mistaken for nothing held.
LEMMA HeldIsSomething == TypeOK /\ pc \in Holding => Held # Nothing
  <1> SUFFICES ASSUME TypeOK, pc \in Holding PROVE mem["daily"] # Nothing["daily"]
    BY DEF Held
  <1> QED BY DEF TypeOK, Nothing, Files, Missing

\* The store begins as the abstract one does.
LEMMA InitRefines == Init => Atomic!Init
  <1> SUFFICES ASSUME Init PROVE Atomic!Init
    OBVIOUS
  <1>1. \A f \in Files : Recoverable(f) \in Nat \cup {-1}
    BY DEF Init, Recoverable, Usable, Missing
  <1>2. pc \notin Holding
    BY DEF Init, Holding
  <1> QED BY <1>1, <1>2 DEF Atomic!Init, Atomic!NotLoaded, Atomic!None, Nothing, Missing

\* Every step of the store is a step of the abstract one, or none: the rename is
\* the write, and reading with all its recovery is the load.
LEMMA NextRefines ==
    ASSUME Dependable, TypeInv, StoreInv, [Next]_vars
    PROVE  [Atomic!Next]_<<Stored, Held>>
  <1>0. ~StatFault /\ ~PowerLoss
    BY NoStatFault DEF TypeInv
  <1> DEFINE Same == \A f \in Files : Recoverable(f)' = Recoverable(f)
  <1>a. Nothing = Atomic!NotLoaded
    BY DEF Nothing, Missing, Atomic!NotLoaded, Atomic!None
  <1>b. TypeOK /\ TypeOK'
    BY TypeNext DEF TypeInv
  \* A step inside the process, or one that changes nothing a load would see.
  <1>1. Same /\ Held' = Held => UNCHANGED <<Stored, Held>>
    BY DEF Stored
  \* The process changes what it holds.
  <1>2. ASSUME Same, pc \in Holding, pc' \in Holding
        PROVE  Atomic!Change
    <2>1. Held # Nothing
      BY <1>b, <1>2, HeldIsSomething
    <2>2. Held' \in [Files -> Nat]
      BY <1>b, <1>2 DEF Held, TypeOK
    <2>3. Stored' = Stored
      BY <1>2 DEF Stored
    <2> QED BY <1>a, <2>1, <2>2, <2>3 DEF Atomic!Change, Stored, Held
  \* The process, or its load, ends.
  <1>3. ASSUME Same, pc' \notin Holding
        PROVE  Atomic!Lose
    BY <1>a, <1>3 DEF Atomic!Lose, Stored, Held
  <1>4. CASE UNCHANGED vars \/ Flush
    <2>1. Same /\ Held' = Held
      BY <1>4 DEF vars, fs, Flush, Recoverable, Held
    <2> QED BY <1>1, <2>1
  <1>5. CASE Start \/ RetryLoad \/ Killed
    <2>1. Same /\ pc' \notin Holding
      BY <1>5 DEF Start, RetryLoad, Killed, BeginLoad, fs, Recoverable, Holding
    <2> QED BY <1>3, <2>1 DEF Atomic!Next
  <1>6. CASE ReadUsable \/ Restored \/ ReadMissing \/ ReadGarbage \/ ReadFails
    <2>1. Same
      BY <1>6, ReadingKeeps
    <2>2. pc' \in {"read", "restore", "settle", "failed"}
      BY <1>6 DEF ReadUsable, Restored, ReadMissing, ReadGarbage, ReadFails,
                  NextCopy, FileDone
    <2> QED BY <1>3, <2>1, <2>2 DEF Atomic!Next, Holding
  <1>7. CASE Settle
    <2>1. Same /\ Stored' = Stored
      BY <1>7 DEF Settle, fs, Recoverable, Stored
    <2>2. pc \notin Holding /\ pc' \in Holding
      BY <1>7 DEF Settle, BeginWrites, Holding
    <2>3. mem' = [f \in Files |-> IF Stored[f] = Missing THEN 0 ELSE Stored[f]]
      BY <1>7 DEF Settle, StoreInv, Stored
    <2>4. Atomic!Load
      BY <1>a, <2>1, <2>2, <2>3 DEF Atomic!Load, Atomic!None, Missing, Stored, Held
    <2> QED BY <2>4 DEF Atomic!Next
  <1>8. CASE Loaded \/ Save \/ CheckCurrent \/ BackedUp \/ TmpWritten
    <2>1. Same
      BY <1>0, <1>8 DEF Loaded, Save, CheckCurrent, BackedUp, TmpWritten, fs,
                        Recoverable, StoreInv, TypeInv, TypeOK
    <2>2. pc \in Holding /\ pc' \in Holding
      BY <1>8 DEF Loaded, Save, CheckCurrent, BackedUp, TmpWritten, BeginWrites, Holding
    <2> QED BY <1>2, <2>1, <2>2 DEF Atomic!Next
  <1>9. CASE WriteFails
    <2>1. Same
      BY <1>9 DEF WriteFails, fs, Recoverable
    <2>2. pc \in Holding
      BY <1>9 DEF WriteFails, Holding
    <2> QED BY <1>2, <1>3, <2>1, <2>2 DEF Atomic!Next
  <1>10. CASE Renamed
    <2>1. pc \in Holding /\ pc' \in Holding /\ mem' = mem
      BY <1>10 DEF Renamed, BeginWrites, Holding
    <2>2. main' = [main EXCEPT ![file] = mem[file]] /\ bak' = bak /\ Usable(mem[file])
      BY <1>b, <1>10 DEF Renamed, StoreInv, TypeOK, Usable
    <2>3. \A f \in Files : Recoverable(f)' = IF f = file THEN mem[f] ELSE Recoverable(f)
      BY <1>b, <2>2 DEF Recoverable, TypeOK
    <2>4. file \in Files /\ Stored' = [Stored EXCEPT ![file] = Held[file]]
      BY <1>b, <2>1, <2>3 DEF Stored, Held, TypeOK
    <2>5. Held # Nothing
      BY <1>b, <2>1, HeldIsSomething
    <2>6. Held' = Held
      BY <2>1 DEF Held
    <2>7. Atomic!Write
      BY <1>a, <2>4, <2>5, <2>6 DEF Atomic!Write, Stored, Held
    <2> QED BY <2>7 DEF Atomic!Next
  <1> QED BY <1>0, <1>4, <1>5, <1>6, <1>7, <1>8, <1>9, <1>10
          DEF Next, LoadStep, SaveStep

\* As long as is_file() never fails and the power stays on, the two files behave as
\* if each was replaced at once and read back as last written, whatever other
\* operation fails and wherever the process is killed: for any number of saves,
\* faults and kills.
THEOREM AtomicUnlessTorn == Dependable => (Spec => ImplementsAtomicStore)
  <1> SUFFICES ASSUME Dependable PROVE Spec => Atomic!Spec
    BY DEF ImplementsAtomicStore
  <1>1. Init => TypeInv /\ StoreInv
    BY TypeInit, InvInit
  <1>2. TypeInv /\ StoreInv /\ [Next]_vars => (TypeInv /\ StoreInv)'
    BY TypeNext, InvNext
  <1>3. TypeInv /\ StoreInv /\ [Next]_vars => [Atomic!Next]_<<Stored, Held>>
    BY NextRefines
  <1> QED BY <1>1, <1>2, <1>3, InitRefines, PTL
          DEF Spec, Atomic!Spec, Stored, Held

-----------------------------------------------------------------------------
(* Power losses *)

\* Inductive.  While a backup is not on the disk, the file is there, or was touched
\* itself since the last flush.
FlushInv ==
    /\ \A f \in Files : <<"bak", f>> \in dirty => Usable(main[f]) \/ <<"main", f>> \in dirty
    /\ pc = "backup" => Usable(main[file])
    /\ pc = "rename" => Usable(tmp[file])

\* Loading and saving keep it, whatever fails.
LEMMA FlushNext == TypeOK /\ FlushInv /\ [Next]_vars => FlushInv'
  <1> SUFFICES ASSUME TypeOK, FlushInv, [Next]_vars PROVE FlushInv'
    OBVIOUS
  <1>0. /\ main \in [Files -> Contents] /\ tmp \in [Files -> Contents] /\ file \in Files
        /\ mem \in [Files -> Nat]
    BY DEF TypeOK
  <1>1. CASE UNCHANGED vars
    BY <1>1 DEF vars, fs, reading, FlushInv
  <1>2. CASE Start \/ RetryLoad \/ Save \/ Settle \/ Loaded \/ ReadFails \/ WriteFails
    BY <1>2 DEF Start, RetryLoad, BeginLoad, Save, Settle, Loaded, ReadFails, WriteFails,
                BeginWrites, fs, FlushInv
  <1>3. CASE ReadUsable
    <2>1. CASE FileDone(Here) /\ UNCHANGED <<main, dirty>>
      BY <1>3, <2>1 DEF ReadUsable, FileDone, FlushInv
    <2>2. CASE /\ main' = [main EXCEPT ![file] = Garbage]
               /\ dirty' = dirty \cup {<<"main", file>>}
               /\ pc' = "restore"
      BY <1>0, <1>3, <2>2 DEF ReadUsable, FlushInv
    <2> QED BY <1>3, <2>1, <2>2 DEF ReadUsable
  <1>4. CASE Restored
    <2>1. /\ \A f \in Files : f # file => main'[f] = main[f]
          /\ dirty' = dirty \cup {<<"main", file>>}
          /\ pc' \in {"read", "settle"}
      BY <1>0, <1>4 DEF Restored, FileDone
    <2> QED BY <2>1 DEF FlushInv
  <1>5. CASE ReadMissing
    BY <1>5 DEF ReadMissing, NextCopy, FileDone, fs, FlushInv
  <1>6. CASE ReadGarbage
    <2>1. pc' \in {"read", "settle"} /\ dirty' = dirty
      BY <1>6 DEF ReadGarbage, NextCopy, FileDone
    <2>2. \A f \in Files : Usable(main[f]) => main'[f] = main[f]
      BY <1>0, <1>6 DEF ReadGarbage, Here, Usable, Garbage
    <2> QED BY <2>1, <2>2 DEF FlushInv
  <1>7. CASE CheckCurrent
    <2>1. \/ /\ Usable(main[file]) /\ pc' = "backup"
             /\ dirty' = dirty \cup {<<"bak", file>>}
          \/ /\ pc' = "write" /\ dirty' = dirty \cup {<<"tmp", file>>}
      BY <1>7 DEF CheckCurrent
    <2>2. main' = main /\ file' = file
      BY <1>7 DEF CheckCurrent
    <2> QED BY <2>1, <2>2 DEF FlushInv
  <1>8. CASE BackedUp
    <2>1. /\ Usable(main[file]) /\ main' = main /\ pc' = "write"
          /\ dirty' = dirty \cup {<<"bak", file>>, <<"tmp", file>>}
      BY <1>8 DEF BackedUp, FlushInv
    <2> QED BY <2>1 DEF FlushInv
  <1>9. CASE TmpWritten
    BY <1>0, <1>9 DEF TmpWritten, FlushInv, Usable
  <1>10. CASE Renamed
    <2>1. /\ Usable(main'[file])
          /\ \A f \in Files : f # file => main'[f] = main[f]
      BY <1>0, <1>10 DEF Renamed, FlushInv
    <2>2. \A f \in Files : <<"bak", f>> \in dirty' => <<"bak", f>> \in dirty
      BY <1>10 DEF Renamed
    <2>3. \A f \in Files : f # file /\ <<"main", f>> \in dirty => <<"main", f>> \in dirty'
      BY <1>10 DEF Renamed
    <2>4. pc' \in {"ready", "loaded", "check"}
      BY <1>10 DEF Renamed, BeginWrites
    <2> QED BY <2>1, <2>2, <2>3, <2>4 DEF FlushInv
  <1>11. CASE Flush \/ Killed
    BY <1>11 DEF Flush, Killed, fs, FlushInv
  <1>12. CASE PowerLoss
    BY <1>12 DEF PowerLoss, FlushInv
  <1> QED BY <1>1, <1>2, <1>3, <1>4, <1>5, <1>6, <1>7, <1>8, <1>9, <1>10, <1>11, <1>12
          DEF Next, LoadStep, SaveStep

\* A power loss spares every file whose present text is on the disk, however many
\* saves were given up and loads failed before: a backup that is torn is one that
\* is not needed.  It is not claimed of a file that a save has replaced since the
\* last flush, nor does that hold.
THEOREM FlushedFileAlwaysSpared == Spec => PowerLossSparesAFlushedFile
  <1>1. Init => FlushInv
    BY DEF Init, FlushInv
  <1>2. TypeOK /\ FlushInv /\ [Next]_vars =>
           [powerLosses' # powerLosses =>
              \A f \in Files : <<"main", f>> \notin dirty =>
                  Recoverable(f)' = Recoverable(f)]_vars
    <2> SUFFICES ASSUME TypeOK, FlushInv, Next, powerLosses' # powerLosses,
                        NEW f \in Files, <<"main", f>> \notin dirty
                 PROVE  Recoverable(f)' = Recoverable(f)
      OBVIOUS
    <2>1. PowerLoss
      BY DEF Next, LoadStep, SaveStep, Start, RetryLoad, BeginLoad, ReadUsable, Restored,
             ReadMissing, ReadGarbage, ReadFails, Settle, Loaded, Save, WriteFails,
             CheckCurrent, BackedUp, TmpWritten, Renamed, Flush, Killed, past
    <2>2. PICK lost \in SUBSET dirty :
            /\ main' = [g \in Files |-> IF <<"main", g>> \in lost THEN Garbage ELSE main[g]]
            /\ bak' = [g \in Files |-> IF <<"bak", g>> \in lost THEN Garbage ELSE bak[g]]
      BY <2>1 DEF PowerLoss
    <2>3. main'[f] = main[f]
      BY <2>2
    <2>4. Usable(main[f]) \/ bak'[f] = bak[f]
      BY <2>2 DEF FlushInv
    <2> QED BY <2>3, <2>4 DEF Recoverable
  <1> QED BY <1>1, <1>2, FlushNext, TypeCorrect, PTL DEF Spec, PowerLossSparesAFlushedFile
=============================================================================
