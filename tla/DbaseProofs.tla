---------------------------- MODULE DbaseProofs ----------------------------
(***************************************************************************)
(* What the database module guarantees a host that is orderly: it keeps    *)
(* to one snapshot at a time with no other call in between, removes only   *)
(* objects of the current generation, stops before the generations wrap    *)
(* around, and has no digit at the wrong place in the path of its          *)
(* database.  It may crash, and calls of the file system may fail, except  *)
(* between emptying and writing the file "snapshot".  The theorems hold    *)
(* for any number of objects, contents and generations.                    *)
(***************************************************************************)
EXTENDS Dbase, TLAPS

Orderly ==
    /\ Host = {}
    /\ "window" \notin Faults
    /\ ~Wrap
    /\ \A c \in 0 .. MaxGen : Trailing[Width(c)] = <<>>

-----------------------------------------------------------------------------
(* The inductive invariant                                                 *)

(* The generation of the last snapshot, 0 when there is none.              *)
Last == IF snap = "truncated" THEN generation - 1
        ELSE IF current = NoFile THEN 0 ELSE current

(* The generation that is open follows that of the last snapshot.          *)
GenerationsInv ==
    /\ current # NoFile /\ snap # "truncated" => current \in 1 .. MaxGen - 1
    /\ up \in {"down", "creating"} => snap = "idle" /\ creating = [i \in Index |-> 0]
    /\ ~root => up = "down" /\ current = NoFile
    /\ up = "creating" => current = NoFile
    /\ up = "opened" => snap = "idle" /\ current # NoFile /\ generation = current + 1
    /\ up = "run" =>
          /\ generation \in 1 .. MaxGen
          /\ snap = "named" => Last = generation
          /\ snap # "named" => Last = generation - 1
          /\ snap = "truncated" => current = 0
          /\ snap \in {"tables", "header", "truncated", "named"} => generation < MaxGen

(* References are to files of their own generation, and what is being      *)
(* created is in the current one.                                          *)
RefInv(i) ==
    /\ refs[i].dir = refs[i].generation
    /\ up = "run" => refs[i].generation <= generation
    /\ refs[i].fd => refs[i].generation > 0 /\ table[i] <= refs[i].generation
    /\ up = "run" => table[i] <= generation
    /\ up = "run" /\ creating[i] # 0 =>
          creating[i] = generation /\ snap = "idle" /\ table[i] < generation
    /\ up # "run" => refs[i] = NoRef /\ creating[i] = 0 /\ table[i] = 0

RefsInv == \A i \in Index : RefInv(i)

(* What is in a snapshot of a generation: objects of that generation and   *)
(* of earlier ones, each written to the end.                               *)
Sound(t, g) ==
    /\ t \in Tables
    /\ \A i \in Index : t[i] <= g
    /\ \A i \in Index : t[i] # 0 => files[t[i]][i] \in Data

(* The last snapshot is sound, and so is the one that is being made.       *)
SnapshotsInv ==
    /\ Last # 0 => info[Last].header /\ Sound(info[Last].tables, Last)
    /\ up = "run" /\ snap \in {"tables", "header", "truncated", "named"} =>
          info[generation].tables = table /\ Sound(table, generation)
    /\ snap \in {"header", "truncated", "named"} => info[generation].header

(* The host knows what is in its objects.                                  *)
MemoryInv ==
    \A i \in Index :
        /\ up = "run" => mem[i] = IF table[i] = 0 THEN Absent ELSE files[table[i]][i]
        /\ up = "run" => (table[i] # 0 => mem[i] # Absent)
        /\ up # "run" => mem[i] = Absent

IInv == TypeOK /\ GenerationsInv /\ RefsInv /\ SnapshotsInv /\ MemoryInv

(* The constants.                                                          *)
LEMMA Constants ==
    /\ MaxGen \in Nat /\ MaxGen > 1
    /\ Absent \notin Data /\ Blank \notin Data /\ Absent # Blank
    /\ NoRef \in [generation : 0 .. MaxGen, dir : 0 .. MaxGen, fd : BOOLEAN]
    /\ NoRef.generation = 0 /\ NoRef.dir = 0 /\ ~NoRef.fd
BY MaxGenAssumption, DataAssumption DEF NoRef

(* The number in "snapshot" is read as it was written.                     *)
LEMMA ReadBackExact ==
    ASSUME Orderly, NEW c \in 0 .. MaxGen
    PROVE  ReadBack(c) = c
BY DEF ReadBack, Orderly

-----------------------------------------------------------------------------
(* The steps                                                               *)

LEMMA InitInv == Init => IInv
<1> SUFFICES ASSUME Init PROVE IInv
  OBVIOUS
<1>1. TypeOK
  BY Constants DEF Init, TypeOK, UpStates, SnapStates, Content, Tables, Gens, NoFile
<1>2. GenerationsInv /\ RefsInv /\ MemoryInv
  BY Constants DEF Init, GenerationsInv, RefsInv, RefInv, MemoryInv, NoFile
<1>3. SnapshotsInv
  BY Constants DEF Init, SnapshotsInv, Last, NoFile
<1> QED
  BY <1>1, <1>2, <1>3 DEF IInv

(* A host that ends, at a moment when "snapshot" is not empty.             *)
LEMMA DownInv ==
    ASSUME IInv, Down, UNCHANGED disk, snap # "truncated"
    PROVE  IInv'
<1> USE Constants
<1>1. TypeOK'
  BY DEF IInv, TypeOK, Down, disk, UpStates, SnapStates, Content, Tables
<1>2. GenerationsInv'
  BY DEF IInv, TypeOK, GenerationsInv, Down, disk
<1>3. RefsInv' /\ MemoryInv'
  BY DEF IInv, RefsInv, RefInv, MemoryInv, Down, disk
<1>4. SnapshotsInv'
  <2>1. Last' = Last
    BY DEF Last, Down, disk
  <2> QED
    BY <2>1 DEF IInv, SnapshotsInv, Sound, Down, disk
<1> QED
  BY <1>1, <1>2, <1>3, <1>4 DEF IInv

LEMMA OpenInv ==
    ASSUME IInv, Orderly, OpenCreate \/ OpenFirst \/ OpenExisting
    PROVE  IInv'
<1> USE Constants
<1>1. CASE OpenCreate
  <2>1. TypeOK'
    BY <1>1 DEF IInv, TypeOK, UpStates, SnapStates, Content, Tables, Gens, disk, OpenCreate
  <2>2. GenerationsInv'
    BY <1>1 DEF IInv, TypeOK, GenerationsInv, Last, disk, NoFile, OpenCreate
  <2>3. RefsInv'
    BY <1>1 DEF IInv, TypeOK, GenerationsInv, RefsInv, RefInv, disk, OpenCreate
  <2>4. SnapshotsInv'
    BY <1>1 DEF IInv, TypeOK, GenerationsInv, RefsInv, RefInv, SnapshotsInv, Last, Sound, disk, NoFile, Tables, Gens, OpenCreate
  <2>5. MemoryInv'
    BY <1>1 DEF IInv, TypeOK, GenerationsInv, RefsInv, RefInv, SnapshotsInv, MemoryInv, disk, Tables, Gens, OpenCreate
  <2> QED
    BY <2>1, <2>2, <2>3, <2>4, <2>5 DEF IInv
<1>2. ASSUME OpenFirst, up' = "run" PROVE IInv'
  <2>a. /\ up = "creating" /\ dirs' = dirs \cup {1} /\ generation' = 1
        /\ UNCHANGED <<root, files, info, current, snap, refs, creating, table, mem>>
    BY <1>2 DEF OpenFirst, Down
  <2>1. TypeOK'
    BY <1>2, <2>a DEF IInv, TypeOK, UpStates, SnapStates, Content, Tables, Gens, disk
  <2>2. GenerationsInv'
    BY <1>2, <2>a DEF IInv, TypeOK, GenerationsInv, Last, disk, NoFile
  <2>3. RefsInv'
    BY <1>2, <2>a DEF IInv, TypeOK, GenerationsInv, RefsInv, RefInv, disk
  <2>4. SnapshotsInv'
    BY <1>2, <2>a DEF IInv, TypeOK, GenerationsInv, RefsInv, RefInv, SnapshotsInv, Last, Sound, disk, NoFile, Tables, Gens
  <2>5. MemoryInv'
    BY <1>2, <2>a DEF IInv, TypeOK, GenerationsInv, RefsInv, RefInv, SnapshotsInv, MemoryInv, disk, Tables, Gens
  <2> QED
    BY <2>1, <2>2, <2>3, <2>4, <2>5 DEF IInv
<1>3. CASE OpenExisting
  <2> DEFINE g == current + 1
  <2>a. current \in 1 .. MaxGen - 1 /\ generation' = g
    BY <1>3, ReadBackExact DEF IInv, GenerationsInv, OpenExisting, NoFile
  <2>1. TypeOK'
    BY <1>3, <2>a DEF IInv, TypeOK, UpStates, SnapStates, Content, Tables, Gens, disk, OpenExisting
  <2>2. GenerationsInv'
    BY <1>3, <2>a DEF IInv, TypeOK, GenerationsInv, Last, disk, NoFile, OpenExisting
  <2>3. RefsInv'
    BY <1>3, <2>a DEF IInv, TypeOK, GenerationsInv, RefsInv, RefInv, disk, OpenExisting
  <2>4. SnapshotsInv'
    BY <1>3, <2>a DEF IInv, TypeOK, GenerationsInv, RefsInv, RefInv, SnapshotsInv, Last, Sound, disk, NoFile, Tables, Gens, OpenExisting
  <2>5. MemoryInv'
    BY <1>3, <2>a DEF IInv, TypeOK, GenerationsInv, RefsInv, RefInv, SnapshotsInv, MemoryInv, disk, Tables, Gens, OpenExisting
  <2> QED
    BY <2>1, <2>2, <2>3, <2>4, <2>5 DEF IInv
<1>4. ASSUME OpenFirst, up' # "run" PROVE IInv'
  BY <1>4, DownInv DEF OpenFirst, IInv, GenerationsInv
<1> QED
  BY <1>1, <1>2, <1>3, <1>4

LEMMA NewOpenInv ==
    ASSUME IInv, Orderly, NEW i \in Index, NewOpen(i)
    PROVE  IInv'
<1> USE Constants
<1>1. TypeOK'
  BY DEF IInv, TypeOK, GenerationsInv, UpStates, SnapStates, Content, Tables, Gens, disk, NewOpen, InCall, db_refresh_obj, Orderly
<1>2. GenerationsInv'
  BY DEF IInv, TypeOK, GenerationsInv, Last, disk, NoFile, NewOpen, InCall, db_refresh_obj, Orderly
<1>3. RefsInv'
  <2>1. /\ up = "run" /\ snap = "idle" /\ generation \in 1 .. MaxGen
        /\ creating' = [creating EXCEPT ![i] = generation]
        /\ UNCHANGED <<up, snap, generation, refs, table>>
    BY DEF NewOpen, InCall, Orderly, IInv, GenerationsInv
  <2>2. table[i] < generation
    BY <2>1 DEF NewOpen, db_refresh_obj, IInv, TypeOK, Tables, RefsInv, RefInv
  <2>3. ASSUME NEW j \in Index PROVE RefInv(j)'
    BY <2>1, <2>2 DEF IInv, TypeOK, RefsInv, RefInv
  <2> QED
    BY <2>3 DEF RefsInv
<1>4. SnapshotsInv'
  BY DEF IInv, TypeOK, GenerationsInv, RefsInv, RefInv, SnapshotsInv, Last, Sound, disk, NoFile, Tables, Gens, NewOpen, InCall, db_refresh_obj, Orderly
<1>5. MemoryInv'
  BY DEF IInv, TypeOK, GenerationsInv, RefsInv, RefInv, SnapshotsInv, MemoryInv, disk, Tables, Gens, NewOpen, InCall, db_refresh_obj, Orderly
<1> QED
  BY <1>1, <1>2, <1>3, <1>4, <1>5 DEF IInv

LEMMA NewReturnInv ==
    ASSUME IInv, Orderly, NEW i \in Index, NewReturn(i)
    PROVE  IInv'
<1> USE Constants
<1>1. TypeOK'
  BY DEF IInv, TypeOK, GenerationsInv, UpStates, SnapStates, Content, Tables, Gens, disk, NewReturn
<1>2. GenerationsInv'
  BY DEF IInv, TypeOK, GenerationsInv, Last, disk, NoFile, NewReturn
<1>3. RefsInv'
  BY DEF IInv, TypeOK, GenerationsInv, RefsInv, RefInv, disk, NewReturn
<1>4. SnapshotsInv'
  BY DEF IInv, TypeOK, GenerationsInv, RefsInv, RefInv, SnapshotsInv, Last, Sound, disk, NoFile, Tables, Gens, NewReturn
<1>5. MemoryInv'
  BY DEF IInv, TypeOK, GenerationsInv, RefsInv, RefInv, SnapshotsInv, MemoryInv, disk, Tables, Gens, NewReturn
<1> QED
  BY <1>1, <1>2, <1>3, <1>4, <1>5 DEF IInv

LEMMA LoadInv ==
    ASSUME IInv, Orderly, NEW i \in Index, Load(i)
    PROVE  IInv'
<1> USE Constants
<1>1. TypeOK'
  BY DEF IInv, TypeOK, UpStates, SnapStates, Content, Tables, Gens, disk, Load, InCall, Orderly
<1>2. GenerationsInv'
  BY DEF IInv, TypeOK, GenerationsInv, Last, disk, NoFile, Load, InCall, Orderly
<1>3. RefsInv'
  <2>1. /\ up = "run" /\ table[i] \in 1 .. MaxGen
        /\ refs' = [refs EXCEPT ![i] = [generation |-> table[i], dir |-> table[i], fd |-> TRUE]]
        /\ UNCHANGED <<up, snap, generation, creating, table>>
    BY DEF Load, InCall, IInv, TypeOK, Tables
  <2>2. ASSUME NEW j \in Index PROVE RefInv(j)'
    BY <2>1 DEF IInv, TypeOK, Tables, RefsInv, RefInv
  <2> QED
    BY <2>2 DEF RefsInv
<1>4. SnapshotsInv'
  BY DEF IInv, TypeOK, GenerationsInv, RefsInv, RefInv, SnapshotsInv, Last, Sound, disk, NoFile, Tables, Gens, Load, InCall, Orderly
<1>5. MemoryInv'
  BY DEF IInv, TypeOK, GenerationsInv, RefsInv, RefInv, SnapshotsInv, MemoryInv, disk, Tables, Gens, Load, InCall, Orderly
<1> QED
  BY <1>1, <1>2, <1>3, <1>4, <1>5 DEF IInv

LEMMA DelInv ==
    ASSUME IInv, Orderly, NEW i \in Index, Del(i)
    PROVE  IInv'
<1> USE Constants
<1>1. TypeOK'
  BY DEF IInv, TypeOK, UpStates, SnapStates, Content, Tables, Gens, disk, Del, InCall, Orderly
<1>2. GenerationsInv'
  BY DEF IInv, TypeOK, GenerationsInv, Last, disk, NoFile, Del, InCall, Orderly
<1>3. RefsInv'
  BY DEF IInv, TypeOK, GenerationsInv, RefsInv, RefInv, disk, Del, InCall, Orderly
<1>4. SnapshotsInv'
  BY DEF IInv, TypeOK, GenerationsInv, RefsInv, RefInv, SnapshotsInv, Last, Sound, disk, NoFile, Tables, Gens, Del, InCall, Orderly
<1>5. MemoryInv'
  BY DEF IInv, TypeOK, GenerationsInv, RefsInv, RefInv, SnapshotsInv, MemoryInv, disk, Tables, Gens, Del, InCall, Orderly
<1> QED
  BY <1>1, <1>2, <1>3, <1>4, <1>5 DEF IInv

LEMMA WriteInv ==
    ASSUME IInv, Orderly, NEW i \in Index, NEW v \in Data, Write(i, v)
    PROVE  IInv'
<1> USE Constants
<1>1. TypeOK'
  <2>1. PICK c \in Content : /\ files' = [files EXCEPT ![refs[i].dir][i] = c]
                             /\ mem' = [mem EXCEPT ![i] = c]
    BY DEF Write, Content
  <2>2. refs[i].generation \in 1 .. MaxGen /\ refs[i].dir = refs[i].generation
    BY DEF Write, IInv, TypeOK, RefsInv, RefInv
  <2>3. files' \in [Gens -> [Index -> Content]] /\ mem' \in [Index -> Content]
    BY <2>1, <2>2 DEF IInv, TypeOK, Gens
  <2>4. table' \in Tables
    BY <2>2 DEF Write, IInv, TypeOK, Tables
  <2> QED
    BY <2>3, <2>4 DEF Write, IInv, TypeOK
<1>2. GenerationsInv'
  BY DEF IInv, TypeOK, GenerationsInv, Last, disk, NoFile, Write, InCall, db_refresh_obj, Orderly
<1>3. RefsInv'
  BY DEF IInv, TypeOK, GenerationsInv, RefsInv, RefInv, disk, Write, InCall, db_refresh_obj, Orderly
<1>4. SnapshotsInv'
  BY DEF IInv, TypeOK, GenerationsInv, RefsInv, RefInv, SnapshotsInv, Last, Sound, disk, NoFile, Tables, Gens, Write, InCall, db_refresh_obj, Orderly
<1>5. MemoryInv'
  <2>1. PICK c \in Content \ {Absent} : /\ files' = [files EXCEPT ![refs[i].dir][i] = c]
                             /\ mem' = [mem EXCEPT ![i] = c]
    BY DEF Write, Content
  <2>2. /\ up = "run" /\ up' = "run"
        /\ refs[i].generation = generation /\ refs[i].dir = generation /\ generation \in Gens
        /\ table' = [table EXCEPT ![i] = generation]
    BY DEF Write, InCall, db_refresh_obj, IInv, TypeOK, GenerationsInv, RefsInv, RefInv, Gens
  <2>3. ASSUME NEW j \in Index, j # i
        PROVE  mem'[j] = mem[j] /\ table'[j] = table[j] /\ \A g \in Gens : files'[g][j] = files[g][j]
    BY <2>1, <2>2, <2>3 DEF IInv, TypeOK, Tables
  <2>4. mem'[i] = c /\ table'[i] = generation /\ files'[generation][i] = c
    BY <2>1, <2>2 DEF IInv, TypeOK, Tables
  <2> QED
    BY <2>1, <2>2, <2>3, <2>4 DEF IInv, TypeOK, Tables, Gens, MemoryInv
<1> QED
  BY <1>1, <1>2, <1>3, <1>4, <1>5 DEF IInv

LEMMA RemoveInv ==
    ASSUME IInv, Orderly, NEW i \in Index, Remove(i)
    PROVE  IInv'
<1> USE Constants
<1>1. TypeOK'
  BY DEF IInv, TypeOK, UpStates, SnapStates, Content, Tables, Gens, disk, Remove, InCall, db_refresh_obj, Orderly
<1>2. GenerationsInv'
  BY DEF IInv, TypeOK, GenerationsInv, Last, disk, NoFile, Remove, InCall, db_refresh_obj, Orderly
<1>3. RefsInv'
  BY DEF IInv, TypeOK, GenerationsInv, RefsInv, RefInv, disk, Remove, InCall, db_refresh_obj, Orderly
<1>4. SnapshotsInv'
  BY DEF IInv, TypeOK, GenerationsInv, RefsInv, RefInv, SnapshotsInv, Last, Sound, disk, NoFile, Tables, Gens, Remove, InCall, db_refresh_obj, Orderly
<1>5. MemoryInv'
  BY DEF IInv, TypeOK, GenerationsInv, RefsInv, RefInv, SnapshotsInv, MemoryInv, disk, Tables, Gens, Remove, InCall, db_refresh_obj, Orderly
<1> QED
  BY <1>1, <1>2, <1>3, <1>4, <1>5 DEF IInv

LEMMA SaveTablesInv ==
    ASSUME IInv, Orderly, SaveTables
    PROVE  IInv'
<1> USE Constants
<1>1. TypeOK'
  <2>1. generation \in Gens /\ info[generation] \in [tables : Tables \cup {NoTable}, header : BOOLEAN]
    BY DEF SaveTables, Snapshotting, GivesUp, IInv, TypeOK, GenerationsInv, Gens
  <2>2. info' \in [Gens -> [tables : Tables \cup {NoTable}, header : BOOLEAN]]
    <3>1. [info[generation] EXCEPT !.tables = table] \in
              [tables : Tables \cup {NoTable}, header : BOOLEAN]
      BY <2>1 DEF IInv, TypeOK
    <3> QED
      BY <2>1, <3>1 DEF SaveTables, IInv, TypeOK
  <2> QED
    BY <2>2 DEF SaveTables, Snapshotting, GivesUp, IInv, TypeOK, SnapStates
<1>2. GenerationsInv'
  BY DEF IInv, TypeOK, GenerationsInv, Last, disk, NoFile, SaveTables, Snapshotting, GivesUp, Orderly
<1>3. RefsInv'
  BY DEF IInv, TypeOK, GenerationsInv, RefsInv, RefInv, disk, SaveTables, Snapshotting, GivesUp, Orderly
<1>4. SnapshotsInv'
  <2>1. /\ up = "run" /\ snap = "idle" /\ generation \in Gens /\ Last = generation - 1
        /\ snap' \in {"idle", "tables"} /\ Last' = Last
        /\ UNCHANGED <<files, up, generation, table>>
    BY DEF SaveTables, Snapshotting, GivesUp, IInv, TypeOK, GenerationsInv, Gens, Last
  <2>2. \A g \in Gens : g # generation => info'[g] = info[g]
    BY <2>1 DEF SaveTables, IInv, TypeOK
  <2>3. Last # 0 => info'[Last].header /\ Sound(info'[Last].tables, Last)
    BY <2>1, <2>2 DEF IInv, SnapshotsInv, GenerationsInv, TypeOK, Gens
  <2>4. Sound(table, generation)
    <3>1. ASSUME NEW j \in Index, table[j] # 0 PROVE files[table[j]][j] \in Data
      <4>1. table[j] \in Gens /\ mem[j] = files[table[j]][j] /\ mem[j] # Absent
        BY <2>1, <3>1 DEF IInv, MemoryInv, TypeOK, Tables, Gens
      <4>2. mem[j] # Blank
        BY DEF SaveTables
      <4> QED
        BY <4>1, <4>2 DEF IInv, TypeOK, Content
    <3> QED
      BY <2>1, <3>1 DEF Sound, IInv, TypeOK, RefsInv, RefInv
  <2>5. snap' = "tables" => info'[generation].tables = table
    BY <2>1 DEF SaveTables, GivesUp, IInv, TypeOK
  <2> QED
    BY <2>1, <2>3, <2>4, <2>5 DEF SnapshotsInv, Sound
<1>5. MemoryInv'
  BY DEF IInv, TypeOK, GenerationsInv, RefsInv, RefInv, SnapshotsInv, MemoryInv, disk, Tables, Gens, SaveTables, Snapshotting, GivesUp, Orderly
<1> QED
  BY <1>1, <1>2, <1>3, <1>4, <1>5 DEF IInv

LEMMA SaveHeaderInv ==
    ASSUME IInv, Orderly, SaveHeader
    PROVE  IInv'
<1> USE Constants
<1>1. TypeOK'
  <2>1. generation \in Gens /\ info[generation] \in [tables : Tables \cup {NoTable}, header : BOOLEAN]
    BY DEF SaveHeader, Snapshotting, GivesUp, IInv, TypeOK, GenerationsInv, Gens
  <2>2. info' \in [Gens -> [tables : Tables \cup {NoTable}, header : BOOLEAN]]
    <3>1. [info[generation] EXCEPT !.header = TRUE] \in
              [tables : Tables \cup {NoTable}, header : BOOLEAN]
      BY <2>1
    <3> QED
      BY <2>1, <3>1 DEF SaveHeader, IInv, TypeOK
  <2> QED
    BY <2>2 DEF SaveHeader, Snapshotting, GivesUp, IInv, TypeOK, SnapStates
<1>2. GenerationsInv'
  BY DEF IInv, TypeOK, GenerationsInv, Last, disk, NoFile, SaveHeader, Snapshotting, GivesUp
<1>3. RefsInv'
  BY DEF IInv, TypeOK, GenerationsInv, RefsInv, RefInv, disk, SaveHeader, Snapshotting, GivesUp
<1>4. SnapshotsInv'
  BY DEF IInv, TypeOK, GenerationsInv, RefsInv, RefInv, SnapshotsInv, Last, Sound, disk, NoFile, Tables, Gens, SaveHeader, Snapshotting, GivesUp
<1>5. MemoryInv'
  BY DEF IInv, TypeOK, GenerationsInv, RefsInv, RefInv, SnapshotsInv, MemoryInv, disk, Tables, Gens, SaveHeader, Snapshotting, GivesUp
<1> QED
  BY <1>1, <1>2, <1>3, <1>4, <1>5 DEF IInv

LEMMA TruncateCurrentInv ==
    ASSUME IInv, Orderly, TruncateCurrent
    PROVE  IInv'
<1> USE Constants
<1>1. TypeOK'
  BY DEF IInv, TypeOK, UpStates, SnapStates, Content, Tables, Gens, disk, TruncateCurrent, Snapshotting, GivesUp
<1>2. GenerationsInv'
  BY DEF IInv, TypeOK, GenerationsInv, Last, disk, NoFile, TruncateCurrent, Snapshotting, GivesUp
<1>3. RefsInv'
  BY DEF IInv, TypeOK, GenerationsInv, RefsInv, RefInv, disk, TruncateCurrent, Snapshotting, GivesUp
<1>4. SnapshotsInv'
  <2>1. /\ up = "run" /\ snap = "header" /\ generation \in Gens /\ Last = generation - 1
        /\ snap' \in {"idle", "truncated"} /\ Last' = Last
        /\ UNCHANGED <<files, info, up, generation, table>>
    BY DEF TruncateCurrent, Snapshotting, GivesUp, IInv, TypeOK, GenerationsInv, Gens, Last
  <2> QED
    BY <2>1 DEF IInv, SnapshotsInv, Sound
<1>5. MemoryInv'
  BY DEF IInv, TypeOK, GenerationsInv, RefsInv, RefInv, SnapshotsInv, MemoryInv, disk, Tables, Gens, TruncateCurrent, Snapshotting, GivesUp
<1> QED
  BY <1>1, <1>2, <1>3, <1>4, <1>5 DEF IInv

LEMMA NameCurrentInv ==
    ASSUME IInv, Orderly, NameCurrent
    PROVE  IInv'
<1> USE Constants
<1>1. TypeOK'
  BY DEF IInv, TypeOK, GenerationsInv, UpStates, SnapStates, Content, Tables, Gens, disk, NameCurrent, Snapshotting, GivesUp, Orderly
<1>2. GenerationsInv'
  <2>1. /\ up = "run" /\ generation \in 1 .. MaxGen - 1 /\ snap' = "named" /\ current' = generation
        /\ root
        /\ UNCHANGED <<root, up, generation, creating>>
    BY DEF NameCurrent, Snapshotting, GivesUp, Orderly, IInv, GenerationsInv
  <2> QED
    BY <2>1 DEF GenerationsInv, Last, NoFile
<1>3. RefsInv'
  BY DEF IInv, TypeOK, GenerationsInv, RefsInv, RefInv, disk, NameCurrent, Snapshotting, GivesUp, Orderly
<1>4. SnapshotsInv'
  BY DEF IInv, TypeOK, GenerationsInv, RefsInv, RefInv, SnapshotsInv, Last, Sound, disk, NoFile, Tables, Gens, NameCurrent, Snapshotting, GivesUp, Orderly
<1>5. MemoryInv'
  BY DEF IInv, TypeOK, GenerationsInv, RefsInv, RefInv, SnapshotsInv, MemoryInv, disk, Tables, Gens, NameCurrent, Snapshotting, GivesUp, Orderly
<1> QED
  BY <1>1, <1>2, <1>3, <1>4, <1>5 DEF IInv

LEMMA GrowInv ==
    ASSUME IInv, Orderly, Grow
    PROVE  IInv'
<1> USE Constants
<1>1. TypeOK'
  BY DEF IInv, TypeOK, UpStates, SnapStates, Content, Tables, Gens, disk, Grow, Snapshotting, NextGen
<1>2. GenerationsInv'
  BY DEF IInv, TypeOK, GenerationsInv, Last, disk, NoFile, Grow, Snapshotting, NextGen
<1>3. RefsInv'
  <2>1. /\ up = "run" /\ snap = "named" /\ generation' = generation + 1
        /\ UNCHANGED <<up, refs, creating, table>>
    BY DEF Grow, Snapshotting, NextGen, IInv, GenerationsInv
  <2>2. ASSUME NEW j \in Index PROVE RefInv(j)'
    BY <2>1 DEF IInv, TypeOK, Tables, GenerationsInv, RefsInv, RefInv
  <2> QED
    BY <2>2 DEF RefsInv
<1>4. SnapshotsInv'
  BY DEF IInv, TypeOK, GenerationsInv, RefsInv, RefInv, SnapshotsInv, Last, Sound, disk, NoFile, Tables, Gens, Grow, Snapshotting, NextGen
<1>5. MemoryInv'
  BY DEF IInv, TypeOK, GenerationsInv, RefsInv, RefInv, SnapshotsInv, MemoryInv, disk, Tables, Gens, Grow, Snapshotting, NextGen
<1> QED
  BY <1>1, <1>2, <1>3, <1>4, <1>5 DEF IInv

LEMMA MakeDirInv ==
    ASSUME IInv, Orderly, MakeDir
    PROVE  IInv'
<1> USE Constants
<1>1. TypeOK'
  BY DEF IInv, TypeOK, GenerationsInv, UpStates, SnapStates, Content, Tables, Gens, disk, MakeDir, Snapshotting
<1>2. GenerationsInv'
  BY DEF IInv, TypeOK, GenerationsInv, Last, disk, NoFile, MakeDir, Snapshotting
<1>3. RefsInv'
  BY DEF IInv, TypeOK, GenerationsInv, RefsInv, RefInv, disk, MakeDir, Snapshotting
<1>4. SnapshotsInv'
  BY DEF IInv, TypeOK, GenerationsInv, RefsInv, RefInv, SnapshotsInv, Last, Sound, disk, NoFile, Tables, Gens, MakeDir, Snapshotting
<1>5. MemoryInv'
  BY DEF IInv, TypeOK, GenerationsInv, RefsInv, RefInv, SnapshotsInv, MemoryInv, disk, Tables, Gens, MakeDir, Snapshotting
<1> QED
  BY <1>1, <1>2, <1>3, <1>4, <1>5 DEF IInv

LEMMA NextInv ==
    ASSUME IInv, Orderly, [Next]_vars
    PROVE  IInv'
<1>1. CASE UNCHANGED vars
  BY <1>1 DEF IInv, TypeOK, GenerationsInv, RefsInv, RefInv, SnapshotsInv, Sound, MemoryInv,
      Last, vars, disk, hostVars
<1>2. CASE OpenCreate \/ OpenFirst \/ OpenExisting
  BY <1>2, OpenInv
<1>3. CASE Restore
  <2>1. CASE Down /\ UNCHANGED disk
    BY <1>3, <2>1, DownInv DEF IInv, GenerationsInv, Restore
  <2>2. ASSUME ~(Down /\ UNCHANGED disk) PROVE IInv'
    <3> DEFINE s == PrevGen(generation)
    <3> USE Constants
    <3>1. /\ up = "opened" /\ up' = "run" /\ snap = "idle" /\ s = current /\ Last = current
          /\ generation = current + 1 /\ current \in 1 .. MaxGen - 1 /\ current # NoFile
          /\ table' = info[s].tables /\ mem' = Contents(info[s].tables)
          /\ UNCHANGED <<disk, snap, generation, refs, creating>>
      BY <1>3, <2>2 DEF Restore, IInv, GenerationsInv, PrevGen, NoFile, Last
    <3>2. Sound(table', current) /\ info[current].header
      BY <3>1 DEF IInv, SnapshotsInv
    <3>3. \A j \in Index : /\ table'[j] \in 0 .. current
                           /\ mem'[j] = IF table'[j] = 0 THEN Absent ELSE files[table'[j]][j]
                           /\ table'[j] # 0 => mem'[j] \in Data
      BY <3>1, <3>2 DEF Sound, Contents, Tables
    <3>4. TypeOK'
      <4>1. mem' \in [Index -> Content]
        BY <3>1, <3>3 DEF Contents, Content
      <4> QED
        BY <3>1, <3>2, <4>1 DEF IInv, TypeOK, UpStates, Sound, disk
    <3>5. GenerationsInv'
      BY <3>1 DEF IInv, TypeOK, GenerationsInv, Last, disk
    <3>6. RefsInv'
      BY <3>1, <3>3 DEF IInv, RefsInv, RefInv, TypeOK
    <3>7. SnapshotsInv' /\ MemoryInv'
      BY <3>1, <3>3 DEF IInv, SnapshotsInv, MemoryInv, Sound, Last, disk
    <3> QED
      BY <3>4, <3>5, <3>6, <3>7 DEF IInv
  <2> QED
    BY <2>1, <2>2
<1>4. CASE Close
  BY <1>4, DownInv DEF Close
<1>5. ASSUME NEW i \in Index, NewOpen(i) \/ NewReturn(i) \/ Load(i) \/ Del(i) \/ Remove(i)
      PROVE  IInv'
  BY <1>5, NewOpenInv, NewReturnInv, LoadInv, DelInv, RemoveInv
<1>6. ASSUME NEW i \in Index, NEW v \in Data, Write(i, v) PROVE IInv'
  BY <1>6, WriteInv
<1>7. CASE SaveTables \/ SaveHeader \/ TruncateCurrent \/ NameCurrent \/ Grow \/ MakeDir
  BY <1>7, SaveTablesInv, SaveHeaderInv, TruncateCurrentInv, NameCurrentInv, GrowInv, MakeDirInv
<1>8. CASE Crash
  BY <1>8, DownInv DEF Crash, Orderly
<1> QED
  BY <1>1, <1>2, <1>3, <1>4, <1>5, <1>6, <1>7, <1>8 DEF Next

LEMMA Invariance ==
    ASSUME Orderly
    PROVE  Spec => []IInv
BY InitInv, NextInv, PTL DEF Spec

-----------------------------------------------------------------------------
(* The theorems                                                            *)

(* Every variable keeps its type.                                          *)
THEOREM TypeCorrect ==
    ASSUME Orderly
    PROVE  Spec => []TypeOK
<1>1. IInv => TypeOK
  BY DEF IInv
<1> QED
  BY <1>1, Invariance, PTL

(* The snapshot to which db_open leads is the last one.                    *)
LEMMA LastIsNamed ==
    ASSUME IInv, Orderly, current # NoFile, snap # "truncated"
    PROVE  /\ LastSnapshot = current /\ Last = current /\ current \in 1 .. MaxGen - 1
           /\ Complete(current)
           /\ Restorable = Contents(info[current].tables)
<1> USE Constants
<1>1. current \in 1 .. MaxGen - 1 /\ Last = current
  BY DEF IInv, GenerationsInv, Last
<1>2. LastSnapshot = current
  BY <1>1, ReadBackExact DEF LastSnapshot, PrevGen
<1>3. info[current].header /\ info[current].tables \in Tables
  BY <1>1 DEF IInv, SnapshotsInv, Sound
<1>4. NoTable \notin Tables
  BY NoTableAssumption
<1> QED
  BY <1>1, <1>2, <1>3, <1>4 DEF Complete, HasSnapshot, Restorable, Gens

(* After any crash, and any failure of the file system but one, the last   *)
(* snapshot is there in full: its tables, its header, and every object     *)
(* they refer to.                                                          *)
THEOREM SnapshotStaysComplete ==
    ASSUME Orderly
    PROVE  Spec => []SnapshotComplete
<1>1. ASSUME IInv PROVE SnapshotComplete
  <2> SUFFICES ASSUME current # NoFile, snap # "truncated" PROVE SnapshotComplete
    BY DEF SnapshotComplete
  <2>1. Sound(info[current].tables, current)
    BY <1>1, LastIsNamed, Constants DEF IInv, SnapshotsInv
  <2> QED
    BY <1>1, <2>1, LastIsNamed, Constants
    DEF SnapshotComplete, HasSnapshot, Contents, Sound
<1> QED
  BY <1>1, Invariance, PTL

(* The handles the host has, also those of a snapshot that it has just     *)
(* restored, lead to what was written.                                     *)
THEOREM HandlesLeadToContents ==
    ASSUME Orderly
    PROVE  Spec => []HandlesLead
<1>1. ASSUME IInv PROVE HandlesLead
  BY <1>1 DEF IInv, TypeOK, MemoryInv, HandlesLead, Contents
<1> QED
  BY <1>1, Invariance, PTL

(* db_open() continues after a complete snapshot, or not at all.           *)
THEOREM OpensAfterLast ==
    ASSUME Orderly
    PROVE  Spec => []OpensLast
<1>1. ASSUME IInv PROVE OpensLast
  <2> SUFFICES ASSUME up = "opened" PROVE OpensLast
    BY DEF OpensLast
  <2>1. current # NoFile /\ snap # "truncated" /\ generation = current + 1
    BY <1>1 DEF IInv, GenerationsInv
  <2>2. Complete(current) /\ current \in 1 .. MaxGen - 1
    BY <1>1, <2>1, LastIsNamed
  <2>3. PrevGen(generation) = current /\ current \in Gens
    BY <2>1, <2>2, Constants DEF PrevGen, Gens
  <2> QED
    BY <2>2, <2>3 DEF OpensLast
<1> QED
  BY <1>1, Invariance, PTL

-----------------------------------------------------------------------------
(* What a step does to the last snapshot                                   *)

(* No snapshot is made of the last generation, after which the numbers     *)
(* wrap around: its predecessor in the numbering is never that of the      *)
(* first snapshot.                                                         *)
LastGenFree == info[MaxGen].tables = NoTable

LEMMA LastGenStaysFree ==
    ASSUME IInv, LastGenFree, Orderly, [Next]_vars
    PROVE  LastGenFree'
<1> USE Constants
<1>1. CASE SaveTables \/ SaveHeader
  <2>1. /\ generation \in Gens /\ generation # MaxGen
        /\ \E f : info' = [info EXCEPT ![generation] = f]
    <3>1. CASE SaveTables
      <4>1. /\ generation \in Gens /\ generation # MaxGen
            /\ info' = info \/ info' = [info EXCEPT ![generation].tables = table]
        BY <3>1 DEF SaveTables, Orderly
      <4>2. info = [info EXCEPT ![generation] = info[generation]]
        BY <4>1 DEF IInv, TypeOK
      <4> QED
        BY <4>1, <4>2
    <3>2. CASE SaveHeader
      <4>1. /\ generation \in Gens /\ snap = "tables" /\ up = "run"
            /\ info' = info \/ info' = [info EXCEPT ![generation].header = TRUE]
        BY <3>2 DEF SaveHeader, Snapshotting, GivesUp, IInv, GenerationsInv, Gens
      <4>2. info = [info EXCEPT ![generation] = info[generation]]
        BY <4>1 DEF IInv, TypeOK
      <4>3. generation # MaxGen
        BY <4>1 DEF IInv, GenerationsInv
      <4> QED
        BY <4>1, <4>2, <4>3
    <3> QED
      BY <1>1, <3>1, <3>2
  <2> QED
    BY <2>1 DEF LastGenFree, IInv, TypeOK, Gens
<1>2. ASSUME ~(SaveTables \/ SaveHeader) PROVE UNCHANGED info
  BY <1>2 DEF Next, OpenCreate, OpenFirst, OpenExisting, Restore, Close, NewOpen, NewReturn, Load, Del,
     Remove, Write, TruncateCurrent, NameCurrent, Grow, MakeDir, Crash, disk, vars
<1> QED
  BY <1>1, <1>2 DEF LastGenFree

LEMMA LastGenAlways ==
    ASSUME Orderly
    PROVE  Spec => []LastGenFree
<1>1. Init => LastGenFree
  BY Constants DEF Init, LastGenFree, Gens
<1>2. IInv /\ LastGenFree /\ [Next]_vars => LastGenFree'
  BY LastGenStaysFree
<1> QED
  BY <1>1, <1>2, Invariance, PTL DEF Spec

(* What is restored of a snapshot.                                         *)
LEMMA RestoredContents ==
    ASSUME IInv, NEW g \in Gens, info[g].tables \in Tables
    PROVE  /\ Contents(info[g].tables) \in [Index -> Content]
           /\ Contents(info[g].tables) # NoTable
<1>1. Contents(info[g].tables) \in [Index -> Content]
  BY DEF Contents, IInv, TypeOK, Tables, Gens, Content
<1> QED
  BY <1>1, NoTableAssumption DEF Content

(* What can be restored, in every state of an orderly host.                *)
LEMMA RestorableIs ==
    ASSUME IInv, LastGenFree, Orderly
    PROVE  Restorable = IF Last = 0 THEN NoTable ELSE Contents(info[Last].tables)
<1> USE Constants
<1>1. CASE snap # "truncated" /\ current = NoFile
  BY <1>1 DEF Restorable, HasSnapshot, Last
<1>2. CASE snap # "truncated" /\ current # NoFile
  BY <1>2, LastIsNamed
<1>3. CASE snap = "truncated"
  <2>1. /\ current = 0 /\ current # NoFile /\ up = "run" /\ generation \in 1 .. MaxGen - 1
        /\ Last = generation - 1 /\ LastSnapshot = PrevGen(generation)
    <3>1. up = "run"
      BY <1>3 DEF IInv, TypeOK, UpStates, GenerationsInv
    <3> QED
      BY <1>3, <3>1 DEF IInv, GenerationsInv, NoFile, Last, LastSnapshot
  <2>2. CASE generation = 1
    BY <2>1, <2>2 DEF Restorable, HasSnapshot, Complete, PrevGen, LastGenFree
  <2>3. CASE generation > 1
    <3>1. LastSnapshot = Last /\ Last \in Gens /\ Last # 0
      BY <2>1, <2>3 DEF PrevGen, Gens
    <3>2. Complete(Last)
      BY <3>1, NoTableAssumption DEF IInv, SnapshotsInv, Sound, Complete
    <3> QED
      BY <2>1, <3>1, <3>2 DEF Restorable, HasSnapshot
  <2> QED
    BY <2>1, <2>2, <2>3
<1> QED
  BY <1>1, <1>2, <1>3

LEMMA RestorableIsNext ==
    ASSUME Orderly
    PROVE  IInv' /\ LastGenFree' =>
              Restorable' = IF Last' = 0 THEN NoTable ELSE Contents(info[Last].tables)'
<1>1. IInv /\ LastGenFree => Restorable = IF Last = 0 THEN NoTable ELSE Contents(info[Last].tables)
  BY RestorableIs
<1>2. (IInv /\ LastGenFree => Restorable = IF Last = 0 THEN NoTable ELSE Contents(info[Last].tables))'
  BY <1>1, PTL
<1> QED
  BY <1>2

(* Nothing is written in the generations up to that of the last snapshot.  *)
LEMMA EarlierKept ==
    ASSUME IInv, Orderly, [Next]_vars, Last # 0
    PROVE  /\ Last \in Gens
           /\ info'[Last] = info[Last]
           /\ \A g \in 1 .. Last, j \in Index : files'[g][j] = files[g][j]
<1> USE Constants
<1>1. Last \in Gens
  BY DEF Last, IInv, TypeOK, GenerationsInv, Gens, NoFile, UpStates
<1>2. ASSUME NEW i \in Index, NewOpen(i) \/ Remove(i) \/ \E v \in Data : Write(i, v)
      PROVE  /\ UNCHANGED info
             /\ \A g \in 1 .. Last, j \in Index : files'[g][j] = files[g][j]
  <2>1. up = "run" /\ snap = "idle" /\ UNCHANGED info
    BY <1>2 DEF NewOpen, Remove, Write, InCall, Orderly
  <2>2. generation \in Gens /\ Last = generation - 1
    BY <2>1 DEF IInv, GenerationsInv, Gens
  <2>3. PICK c : files' = [files EXCEPT ![generation][i] = c]
    <3>1. CASE NewOpen(i)
      BY <3>1 DEF NewOpen
    <3>2. CASE Remove(i)
      <4>1. refs[i].generation = generation
        BY <3>2 DEF Remove, db_refresh_obj, Orderly
      <4> QED
        BY <3>2, <4>1 DEF Remove
    <3>3. ASSUME NEW v \in Data, Write(i, v) PROVE \E c : files' = [files EXCEPT ![generation][i] = c]
      <4>1. refs[i].dir = generation
        BY <3>3 DEF Write, db_refresh_obj, IInv, RefsInv, RefInv
      <4> QED
        BY <3>3, <4>1 DEF Write
    <3> QED
      BY <1>2, <3>1, <3>2, <3>3
  <2> QED
    BY <2>1, <2>2, <2>3 DEF IInv, TypeOK, Gens
<1>3. ASSUME SaveTables \/ SaveHeader
      PROVE  UNCHANGED files /\ info'[Last] = info[Last]
  <2>1. generation \in Gens /\ Last = generation - 1 /\ UNCHANGED files
    BY <1>3 DEF SaveTables, SaveHeader, Snapshotting, GivesUp, IInv, GenerationsInv, Gens
  <2>2. \A g \in Gens : g # generation => info'[g] = info[g]
    BY <1>3, <2>1 DEF SaveTables, SaveHeader, IInv, TypeOK
  <2> QED
    BY <1>1, <2>1, <2>2 DEF Gens
<1>4. ASSUME OpenCreate \/ OpenFirst \/ OpenExisting \/ Restore \/ Close \/ Crash
             \/ TruncateCurrent \/ NameCurrent \/ Grow \/ MakeDir \/ UNCHANGED vars
             \/ \E i \in Index : NewReturn(i) \/ Load(i) \/ Del(i)
      PROVE  UNCHANGED <<files, info>>
  BY <1>4 DEF OpenCreate, OpenFirst, OpenExisting, Restore, Close, Crash, TruncateCurrent,
     NameCurrent, Grow, MakeDir, NewReturn, Load, Del, disk, vars
<1> QED
  BY <1>1, <1>2, <1>3, <1>4 DEF Next

(* Only the step that writes the file "snapshot" changes what would be     *)
(* restored.                                                               *)
LEMMA RestorableKept ==
    ASSUME IInv, IInv', LastGenFree, LastGenFree', Orderly, [Next]_vars, ~NameCurrent
    PROVE  Restorable' = Restorable
<1> USE Constants
<1>1. Last' = Last
  <2>1. CASE TruncateCurrent
    BY <2>1 DEF TruncateCurrent, Snapshotting, GivesUp, IInv, GenerationsInv, Last
  <2>2. ASSUME ~TruncateCurrent
        PROVE  \/ current' = current /\ snap # "truncated" /\ snap' # "truncated"
               \/ UNCHANGED <<current, snap, generation>>
    BY <2>2 DEF Next, OpenCreate, OpenFirst, OpenExisting, Restore, Close, NewOpen, NewReturn, Load, Del,
       Remove, Write, SaveTables, SaveHeader, Grow, MakeDir, Crash, Down, disk, vars, hostVars, Orderly,
       Snapshotting, GivesUp, IInv, GenerationsInv
  <2> QED
    BY <2>1, <2>2 DEF Last
<1>2. Restorable = IF Last = 0 THEN NoTable ELSE Contents(info[Last].tables)
  BY RestorableIs
<1>3. Restorable' = IF Last = 0 THEN NoTable ELSE Contents(info[Last].tables)'
  BY <1>1, RestorableIsNext
<1>4. ASSUME Last # 0 PROVE Contents(info[Last].tables)' = Contents(info[Last].tables)
  <2> DEFINE t == info[Last].tables
  <2>1. t' = t
    BY <1>1, <1>4, EarlierKept
  <2>2. t \in Tables /\ \A j \in Index : t[j] <= Last
    BY <1>4 DEF IInv, SnapshotsInv, Sound
  <2>3. \A j \in Index : t[j] # 0 => t[j] \in 1 .. Last
    BY <2>2, <1>4, EarlierKept DEF Tables, Gens
  <2>4. \A j \in Index : t[j] # 0 => files'[t[j]][j] = files[t[j]][j]
    BY <1>4, <2>3, EarlierKept
  <2> HIDE DEF t
  <2>5. Contents(t)' = Contents(t)
    BY <2>1, <2>4 DEF Contents
  <2> QED
    BY <2>5 DEF t
<1> QED
  BY <1>2, <1>3, <1>4

(* What the last snapshot restores is not changed by any step: it is only  *)
(* ever replaced, by a new snapshot.                                       *)
THEOREM SnapshotStaysFrozen ==
    ASSUME Orderly
    PROVE  Spec => SnapshotFrozen
<1> DEFINE Frozen == current # NoFile /\ LastSnapshot' = LastSnapshot => Restorable' = Restorable
<1>1. ASSUME IInv, IInv', LastGenFree, LastGenFree', [Next]_vars PROVE Frozen
  <2>1. CASE NameCurrent
    <3>1. /\ up = "run" /\ snap = "truncated" /\ generation \in 1 .. MaxGen - 1
          /\ snap' = "named" /\ current' = generation /\ generation' = generation
      BY <1>1, <2>1, Constants DEF NameCurrent, Snapshotting, GivesUp, Orderly, IInv, GenerationsInv
    <3>2. LastSnapshot = PrevGen(generation)
      BY <3>1 DEF LastSnapshot
    <3>3. ReadBack(current') = generation
      BY <3>1, ReadBackExact, Constants
    <3>4. LastSnapshot' = generation
      <4>1. LastSnapshot' = LET g == generation + 1 IN PrevGen(IF g = MaxGen + 1 THEN 1 ELSE g)
        BY <3>1, <3>3, Constants DEF LastSnapshot, NoFile
      <4> QED
        BY <3>1, <4>1, Constants DEF PrevGen
    <3> QED
      BY <3>1, <3>2, <3>4, Constants DEF PrevGen
  <2> QED
    BY <1>1, <2>1, RestorableKept
<1>2. ASSUME IInv, IInv', LastGenFree, LastGenFree', [Next]_vars PROVE [Frozen]_vars
  BY <1>1, <1>2
<1> QED
  BY <1>2, Invariance, LastGenAlways, PTL DEF Spec, SnapshotFrozen

-----------------------------------------------------------------------------
(* The refinement: to the host the module is a store that keeps its last   *)
(* snapshot.                                                               *)

LEMMA StoreInit == Init => Store!Init
BY DEF Init, Store!Init, Store!Nothing, Restorable, HasSnapshot

(* Opening the database, whether there is one or not.                      *)
LEMMA StoreOpens ==
    ASSUME IInv, IInv', LastGenFree, LastGenFree', Orderly, OpenFirst \/ Restore, up' = "run"
    PROVE  Store!Open
<1> USE Constants
<1>1. Restorable' = Restorable
  <2>1. ~NameCurrent
    BY DEF NameCurrent, OpenFirst, Restore, Snapshotting, GivesUp
  <2> QED
    BY <2>1, RestorableKept DEF Next
<1>2. up # "run"
  BY DEF OpenFirst, Restore
<1>3. CASE OpenFirst
  <2>1. current = NoFile /\ UNCHANGED mem
    BY <1>3 DEF OpenFirst, Down, IInv, GenerationsInv
  <2>2. mem = [i \in Index |-> Absent]
    BY <1>2 DEF IInv, TypeOK, MemoryInv
  <2>3. Restorable = NoTable
    BY <2>1 DEF Restorable, HasSnapshot
  <2> QED
    BY <1>1, <1>2, <2>1, <2>2, <2>3 DEF Store!Open, Store!Nothing
<1>4. CASE Restore
  <2>1. /\ current # NoFile /\ snap # "truncated" /\ generation = current + 1
        /\ mem' = Contents(info[PrevGen(generation)].tables)
    BY <1>4 DEF Restore, Down, IInv, GenerationsInv
  <2>2. current \in 1 .. MaxGen - 1 /\ Restorable = Contents(info[current].tables) /\ Complete(current)
    BY <2>1, LastIsNamed
  <2>3. PrevGen(generation) = current
    BY <2>1, <2>2 DEF PrevGen
  <2>4. info[current].tables \in Tables /\ current \in Gens
    BY <2>1, <2>2 DEF Complete, IInv, TypeOK, Gens
  <2>5. Restorable # NoTable /\ mem' = Restorable
    BY <2>1, <2>2, <2>3, <2>4, RestoredContents
  <2> QED
    BY <1>1, <1>2, <2>5 DEF Store!Open
<1> QED
  BY <1>3, <1>4

(* Writing the number in the file "snapshot" is the moment of a snapshot.  *)
LEMMA StoreSnapshots ==
    ASSUME IInv, IInv', LastGenFree', Orderly, NameCurrent
    PROVE  Store!Snapshot
<1> USE Constants
<1>1. /\ up = "run" /\ snap' = "named" /\ current' = generation /\ generation \in 1 .. MaxGen - 1
      /\ info[generation].tables = table
      /\ UNCHANGED <<files, info, up, mem, table>>
  BY DEF NameCurrent, Snapshotting, GivesUp, Orderly, IInv, GenerationsInv, SnapshotsInv
<1>2. Last' = generation
  BY <1>1 DEF Last, NoFile
<1>3. Restorable' = Contents(info[generation].tables)
  BY <1>1, <1>2, RestorableIsNext DEF Contents
<1>4. Contents(table) = mem
  BY <1>1 DEF IInv, TypeOK, MemoryInv, Contents
<1> QED
  BY <1>1, <1>3, <1>4 DEF Store!Snapshot

LEMMA StoreStep ==
    ASSUME IInv, IInv', LastGenFree, LastGenFree', Orderly, [Next]_vars
    PROVE  [Store!Next]_Store!vars
<1> USE Constants
<1>1. CASE NameCurrent
  BY <1>1, StoreSnapshots DEF Store!Next
<1>2. CASE (OpenFirst \/ Restore) /\ up' = "run"
  BY <1>2, StoreOpens DEF Store!Next
<1>3. ASSUME Down, UNCHANGED disk, ~NameCurrent
      PROVE  [Store!Next]_Store!vars
  <2>1. Restorable' = Restorable
    BY <1>3, RestorableKept
  <2> QED
    BY <1>3, <2>1 DEF Down, Store!Next, Store!CloseOrCrash, Store!Nothing, Store!vars
<1>4. ASSUME NEW i \in Index, Remove(i) \/ \E v \in Data : Write(i, v)
      PROVE  Store!Change
  <2>1. Restorable' = Restorable
    <3>1. snap = "idle"
      BY <1>4 DEF Remove, Write, InCall, Orderly
    <3> QED
      BY <3>1, RestorableKept DEF NameCurrent, Snapshotting, GivesUp
  <2>2. up = "run" /\ up' = "run"
    BY <1>4 DEF Remove, Write, InCall
  <2>3. \E v \in Data \cup {Absent, Blank} : mem' = [mem EXCEPT ![i] = v]
    BY <1>4 DEF Remove, Write
  <2> QED
    BY <2>1, <2>2, <2>3 DEF Store!Change
<1>5. ASSUME UNCHANGED mem, (up = "run") = (up' = "run"), ~NameCurrent
      PROVE  UNCHANGED Store!vars
  BY <1>5, RestorableKept DEF Store!vars
<1>6. CASE UNCHANGED vars
  BY <1>6 DEF vars, hostVars, disk, Store!vars, Restorable, HasSnapshot, Complete, Contents, LastSnapshot,
     PrevGen, ReadBack
<1>7. ASSUME OpenCreate \/ OpenExisting \/ SaveTables \/ SaveHeader \/ TruncateCurrent \/ Grow \/ MakeDir
             \/ (\E i \in Index : NewOpen(i) \/ NewReturn(i) \/ Load(i) \/ Del(i)),
             ~NameCurrent
      PROVE  UNCHANGED Store!vars
  <2>1. UNCHANGED mem /\ (up = "run") = (up' = "run")
    BY <1>7 DEF OpenCreate, OpenExisting, SaveTables, SaveHeader, TruncateCurrent, Grow, MakeDir,
       NewOpen, NewReturn, Load, Del, hostVars, Snapshotting, GivesUp
  <2> QED
    BY <1>5, <1>7, <2>1
<1>8. CASE (OpenFirst \/ Restore) /\ up' # "run" /\ ~NameCurrent
  BY <1>3, <1>8 DEF OpenFirst, Restore
<1>9. CASE (Close \/ Crash) /\ ~NameCurrent
  BY <1>3, <1>9 DEF Close, Crash
<1> QED
  BY <1>1, <1>2, <1>4, <1>6, <1>7, <1>8, <1>9 DEF Next, Store!Next

(* The module keeps the promise of the abstract store: what the host finds *)
(* in its objects changes one object at a time, and after any crash and    *)
(* restart it is what the last snapshot found, all of it or nothing.       *)
THEOREM StoreRefined ==
    ASSUME Orderly
    PROVE  Spec => KeepsSnapshots
<1>1. IInv /\ IInv' /\ LastGenFree /\ LastGenFree' /\ [Next]_vars => [Store!Next]_Store!vars
  BY StoreStep
<1> QED
  BY <1>1, StoreInit, Invariance, LastGenAlways, PTL DEF Spec, KeepsSnapshots, Store!Spec
=============================================================================
