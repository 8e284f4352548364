------------------------------- MODULE Dbase -------------------------------
(***************************************************************************)
(* The database module, src/dbase/dbase.c: objects are files in one        *)
(* directory per generation; a snapshot is a file "snapshot-<generation>"  *)
(* with the host's tables and a header, and the file "snapshot" names the  *)
(* generation of the last one.  After a snapshot the next generation       *)
(* begins, and objects of earlier ones are recreated before they change.   *)
(*                                                                         *)
(* One action is one call of the module, or one step of it where a crash   *)
(* or another thread can come in between.  What the calls work on is the   *)
(* file system, which survives a crash of the host, and the host's         *)
(* references, which do not.  The host is external: it is modelled from    *)
(* the comments of dbase.c on how the functions are called.                *)
(***************************************************************************)
EXTENDS Integers, Sequences, FiniteSets

CONSTANTS
    Index,        \* the objects
    Data,         \* what the host writes in an object
    Absent,       \* of a file: there is none
    Blank,        \* of a file: created or resized, and not yet written
    NoTable,      \* of a snapshot: its tables have not been saved
    MaxGen,       \* the last generation before wraparound: 65534 in the code
    Wrap,         \* whether the host goes on after MaxGen snapshots
    Trailing,     \* [0..5 -> Seq(digit)]: the digits found in the path of the
                  \* database after skipping so many characters
    Host,         \* what the host does: see HostKinds
    Faults        \* what the environment may do: see FaultKinds

(* "concurrent": objects are used while a snapshot is being saved;         *)
(* "removeOld": objects of earlier generations are removed.                *)
HostKinds == {"concurrent", "removeOld"}

(* "crash": the host dies; "disk": calls of the file system fail;          *)
(* "window": both may happen also while "snapshot" is being rewritten.     *)
FaultKinds == {"crash", "disk", "window"}

ASSUME DataAssumption     == Absent \notin Data /\ Blank \notin Data /\ Absent # Blank
ASSUME MaxGenAssumption   == MaxGen \in Nat /\ MaxGen > 1
ASSUME WrapAssumption     == Wrap \in BOOLEAN
ASSUME TrailingAssumption == Trailing \in [0 .. 5 -> Seq(0 .. 9)]
ASSUME HostAssumption     == Host \subseteq HostKinds
ASSUME FaultsAssumption   == Faults \subseteq FaultKinds

Gens == 1 .. MaxGen

NoRef == [generation |-> 0, dir |-> 0, fd |-> FALSE]

(* A table of the host: the handle of each object, 0 for none.             *)
Tables == [Index -> 0 .. MaxGen]
NoFile == -1
ASSUME NoTableAssumption ==
    NoTable \notin Tables \cup [Index -> Data \cup {Absent, Blank}]

VARIABLES
    root,         \* the directory of the database exists
    dirs,         \* the generations that have a directory
    files,        \* the objects' files: files[generation][index]
    info,         \* the files snapshot-<generation>
    current,      \* the file "snapshot": the number in it, 0 when it is empty
    up,           \* how far the host is with opening the database
    snap,         \* the last step done of db_save and db_save_snapshot
    generation,   \* db->generation
    refs,         \* the host's references, LPC_db_object
    creating,     \* the generation in which db_new_obj has opened a file
    table,        \* the host's handles
    mem           \* what the host knows to be in its objects

disk == <<root, dirs, files, info, current>>
hostVars == <<up, snap, generation, refs, creating, table, mem>>
vars == <<disk, hostVars>>

Content == Data \cup {Absent, Blank}
UpStates == {"down", "creating", "opened", "run"}
SnapStates == {"idle", "tables", "header", "truncated", "named", "grown"}

TypeOK ==
    /\ root \in BOOLEAN
    /\ dirs \subseteq Gens
    /\ files \in [Gens -> [Index -> Content]]
    /\ info \in [Gens -> [tables : Tables \cup {NoTable}, header : BOOLEAN]]
    /\ current \in {NoFile} \cup 0 .. MaxGen
    /\ up \in UpStates
    /\ snap \in SnapStates
    /\ generation \in Nat
    /\ refs \in [Index -> [generation : 0 .. MaxGen, dir : 0 .. MaxGen, fd : BOOLEAN]]
    /\ creating \in [Index -> 0 .. MaxGen]
    /\ table \in Tables
    /\ mem \in [Index -> Content]

Init ==
    /\ root = FALSE
    /\ dirs = {}
    /\ files = [g \in Gens |-> [i \in Index |-> Absent]]
    /\ info = [g \in Gens |-> [tables |-> NoTable, header |-> FALSE]]
    /\ current = NoFile
    /\ up = "down"
    /\ snap = "idle"
    /\ generation = 0
    /\ refs = [i \in Index |-> NoRef]
    /\ creating = [i \in Index |-> 0]
    /\ table = [i \in Index |-> 0]
    /\ mem = [i \in Index |-> Absent]

-----------------------------------------------------------------------------
NextGen(g) == IF g + 1 = MaxGen + 1 THEN 1 ELSE g + 1
PrevGen(g) == IF g - 1 = 0 THEN MaxGen ELSE g - 1

(* The number of characters of a generation in the file "snapshot".        *)
Width(c) == Cardinality({k \in 0 .. 4 : c >= 10 ^ k})

(* atoi() of the buffer into which "snapshot" is read.  The buffer holds   *)
(* the path of that file, and read() does not terminate what it puts over  *)
(* the beginning of it.                                                    *)
ReadBack(c) ==
    LET rest == Trailing[Width(c)]
        atoi[k \in 0 .. Len(rest)] == IF k = 0 THEN c ELSE 10 * atoi[k - 1] + rest[k]
    IN  IF rest = <<>> THEN c ELSE atoi[Len(rest)]

(* A host that is gone keeps nothing.                                      *)
Down ==
    /\ up' = "down"
    /\ snap' = "idle"
    /\ generation' = 0
    /\ refs' = [i \in Index |-> NoRef]
    /\ creating' = [i \in Index |-> 0]
    /\ table' = [i \in Index |-> 0]
    /\ mem' = [i \in Index |-> Absent]

(* db_open() of a database that does not exist: its directory...           *)
OpenCreate ==
    /\ up = "down"
    /\ ~root
    /\ root' = TRUE
    /\ up' = "creating"
    /\ UNCHANGED <<dirs, files, info, current, snap, generation, refs, creating, table, mem>>

(* ...and that of the first generation.                                    *)
OpenFirst ==
    /\ up = "creating"
    /\ \/ /\ dirs' = dirs \cup {1}
          /\ generation' = 1
          /\ up' = "run"
          /\ UNCHANGED <<root, files, info, current, snap, refs, creating, table, mem>>
       \/ /\ "disk" \in Faults
          /\ Down
          /\ UNCHANGED disk

(* db_open() of an existing database: begin a generation after that of the *)
(* last snapshot.  Without a file "snapshot" it fails.                     *)
OpenExisting ==
    /\ up = "down"
    /\ root
    /\ current # NoFile
    /\ LET g == ReadBack(current) + 1
       IN  generation' = IF g = MaxGen + 1 THEN 1 ELSE g
    /\ up' = "opened"
    /\ UNCHANGED <<disk, snap, refs, creating, table, mem>>

(* What is in the objects according to a table.                            *)
Contents(t) == [i \in Index |-> IF t[i] = 0 THEN Absent ELSE files[t[i]][i]]

Complete(g) == g \in Gens /\ info[g].header /\ info[g].tables # NoTable

(* db_restore_snapshot() and db_restore(): the header and the tables of    *)
(* the previous generation.  When they cannot be read, the host stops.     *)
Restore ==
    /\ up = "opened"
    /\ LET s == PrevGen(generation)
       IN  \/ /\ Complete(s)
              /\ table' = info[s].tables
              /\ mem' = Contents(info[s].tables)
              /\ up' = "run"
              /\ UNCHANGED <<disk, snap, generation, refs, creating>>
           \/ /\ ~Complete(s) \/ "disk" \in Faults
              /\ Down
              /\ UNCHANGED disk

(* db_close(), after all references have been deleted.                     *)
Close ==
    /\ up = "run"
    /\ snap = "idle"
    /\ \A i \in Index : refs[i] = NoRef /\ creating[i] = 0
    /\ Down
    /\ UNCHANGED disk

-----------------------------------------------------------------------------
(* The functions on objects.                                               *)
(***************************************************************************)
InCall(i) ==
    /\ up = "run"
    /\ snap # "idle" => "concurrent" \in Host

(* A mutant: only objects of later generations are refreshed.              *)
db_refresh_obj_Later(ref) == ref.generation > generation

db_refresh_obj(ref) == ref.generation # generation

(* db_new_obj() for a new object, or one that has to be refreshed: the     *)
(* file is created in the directory of the generation...                   *)
NewOpen(i) ==
    /\ InCall(i)
    /\ creating[i] = 0
    /\ IF refs[i] = NoRef THEN table[i] = 0 ELSE refs[i].fd /\ db_refresh_obj(refs[i])
    /\ generation \in dirs
    /\ files' = [files EXCEPT ![generation][i] = Blank]
    /\ creating' = [creating EXCEPT ![i] = generation]
    /\ UNCHANGED <<root, dirs, info, current, up, snap, generation, refs, table, mem>>

(* ...and the generation is read once more.  The host deletes the          *)
(* reference it had.                                                       *)
NewReturn(i) ==
    /\ up = "run"
    /\ creating[i] # 0
    /\ refs' = [refs EXCEPT ![i] = [generation |-> generation, dir |-> creating[i], fd |-> TRUE]]
    /\ creating' = [creating EXCEPT ![i] = 0]
    /\ UNCHANGED <<disk, up, snap, generation, table, mem>>

(* db_load_obj(): the file of the generation that the handle tells.        *)
Load(i) ==
    /\ InCall(i)
    /\ refs[i] = NoRef
    /\ creating[i] = 0
    /\ table[i] # 0
    /\ table[i] \in dirs
    /\ files[table[i]][i] # Absent
    /\ refs' = [refs EXCEPT ![i] = [generation |-> table[i], dir |-> table[i], fd |-> TRUE]]
    /\ UNCHANGED <<disk, up, snap, generation, creating, table, mem>>

(* db_del_obj()                                                            *)
Del(i) ==
    /\ InCall(i)
    /\ refs[i] # NoRef
    /\ creating[i] = 0
    /\ refs' = [refs EXCEPT ![i] = NoRef]
    /\ UNCHANGED <<disk, up, snap, generation, creating, table, mem>>

(* db_resize_obj(), which returns the handle, and db_write_obj() of an     *)
(* object that needs no refreshing.  When writing fails, the object has    *)
(* its new handle and not its new contents.                                *)
Write(i, v) ==
    /\ InCall(i)
    /\ refs[i].fd
    /\ creating[i] = 0
    /\ ~db_refresh_obj(refs[i])
    /\ \E c \in {v} \cup IF "disk" \in Faults THEN {Blank} ELSE {} :
          /\ files' = [files EXCEPT ![refs[i].dir][i] = c]
          /\ mem' = [mem EXCEPT ![i] = c]
    /\ table' = [table EXCEPT ![i] = refs[i].generation]
    /\ UNCHANGED <<root, dirs, info, current, up, snap, generation, refs, creating>>

(* db_remove_obj(): the reference loses its descriptor, and the host its   *)
(* handle.                                                                 *)
Remove(i) ==
    /\ InCall(i)
    /\ refs[i].fd
    /\ creating[i] = 0
    /\ db_refresh_obj(refs[i]) => "removeOld" \in Host
    /\ refs' = [refs EXCEPT ![i].fd = FALSE]
    /\ files' = [files EXCEPT ![refs[i].generation][i] = Absent]
    /\ table' = [table EXCEPT ![i] = 0]
    /\ mem' = [mem EXCEPT ![i] = Absent]
    /\ UNCHANGED <<root, dirs, info, current, up, snap, generation, creating>>

-----------------------------------------------------------------------------
(* The functions for snapshots, which the host calls one after the other.  *)
(***************************************************************************)
Snapshotting(from, to) ==
    /\ up = "run"
    /\ snap = from
    /\ snap' = to

(* A call fails, and the host gives up this snapshot.                      *)
GivesUp(from) ==
    /\ "disk" \in Faults
    /\ up = "run"
    /\ snap = from
    /\ snap' = "idle"

(* db_save(): the tables, once every object has been written.              *)
SaveTables ==
    /\ generation = MaxGen => Wrap
    /\ generation \in Gens
    /\ \A i \in Index : mem[i] # Blank /\ creating[i] = 0
    /\ \/ /\ Snapshotting("idle", "tables")
          /\ info' = [info EXCEPT ![generation].tables = table]
       \/ /\ GivesUp("idle")
          /\ UNCHANGED info
    /\ UNCHANGED <<root, dirs, files, current, up, generation, refs, creating, table, mem>>

(* db_save_snapshot(): the header...                                       *)
SaveHeader ==
    /\ \/ /\ Snapshotting("tables", "header")
          /\ info' = [info EXCEPT ![generation].header = TRUE]
       \/ /\ GivesUp("tables")
          /\ UNCHANGED info
    /\ UNCHANGED <<root, dirs, files, current, up, generation, refs, creating, table, mem>>

(* ...the file "snapshot" is emptied...                                    *)
TruncateCurrent ==
    /\ \/ Snapshotting("header", "truncated") /\ current' = 0
       \/ GivesUp("header") /\ UNCHANGED current
    /\ UNCHANGED <<root, dirs, files, info, up, generation, refs, creating, table, mem>>

(* ...and written...                                                       *)
NameCurrent ==
    /\ \/ Snapshotting("truncated", "named") /\ current' = generation
       \/ "window" \in Faults /\ GivesUp("truncated") /\ UNCHANGED current
    /\ UNCHANGED <<root, dirs, files, info, up, generation, refs, creating, table, mem>>

(* ...the next generation begins...                                        *)
Grow ==
    /\ Snapshotting("named", "grown")
    /\ generation' = NextGen(generation)
    /\ UNCHANGED <<disk, up, refs, creating, table, mem>>

(* ...and its directory is made.  mkdir() may fail.                        *)
MakeDir ==
    /\ Snapshotting("grown", "idle")
    /\ \/ dirs' = dirs \cup {generation}
       \/ "disk" \in Faults /\ UNCHANGED dirs
    /\ UNCHANGED <<root, files, info, current, up, generation, refs, creating, table, mem>>

Crash ==
    /\ "crash" \in Faults
    /\ up # "down"
    /\ snap = "truncated" => "window" \in Faults
    /\ Down
    /\ UNCHANGED disk

Next ==
    \/ OpenCreate \/ OpenFirst \/ OpenExisting \/ Restore \/ Close
    \/ \E i \in Index :
          \/ NewOpen(i) \/ NewReturn(i) \/ Load(i) \/ Del(i) \/ Remove(i)
          \/ \E v \in Data : Write(i, v)
    \/ SaveTables \/ SaveHeader \/ TruncateCurrent \/ NameCurrent \/ Grow \/ MakeDir
    \/ Crash

Spec == Init /\ [][Next]_vars

-----------------------------------------------------------------------------
(* Properties.                                                             *)
(***************************************************************************)
(* The snapshot that db_open() would have the host restore, while the file *)
(* "snapshot" is being rewritten the one it named before.                  *)
LastSnapshot ==
    IF snap = "truncated" THEN PrevGen(generation)
    ELSE IF current = NoFile THEN 0
    ELSE LET g == ReadBack(current) + 1
         IN  PrevGen(IF g = MaxGen + 1 THEN 1 ELSE g)

HasSnapshot == current # NoFile /\ Complete(LastSnapshot)

Restorable == IF HasSnapshot THEN Contents(info[LastSnapshot].tables) ELSE NoTable

(* Once there is a file "snapshot", the snapshot it leads to is complete,  *)
(* and every object in its tables has a file that was written to the end:  *)
(* whatever has happened since, the database can be opened and restored.   *)
SnapshotComplete ==
    current # NoFile /\ snap # "truncated" =>
        /\ HasSnapshot
        /\ \A i \in Index : Restorable[i] # Blank
        /\ \A i \in Index : info[LastSnapshot].tables[i] # 0 => Restorable[i] # Absent

(* The host finds in its objects what it has put there: a handle leads to  *)
(* the file that was written, in this generation or an earlier one, in     *)
(* this run of the host or an earlier one.                                 *)
HandlesLead == up = "run" => Contents(table) = mem

(* The generation recorded in a reference is the one of the directory in   *)
(* which its file is: it is passed to the caller as the handle             *)
(* (dbase.c:222), by which db_load_obj() finds the file again.             *)
RefsTruthful == \A i \in Index : refs[i].generation = refs[i].dir

(* What the last snapshot restores is never changed, only replaced by a    *)
(* new snapshot (dbase.c:211: objects are recreated when modified).        *)
SnapshotFrozen ==
    [][current # NoFile /\ LastSnapshot' = LastSnapshot => Restorable' = Restorable]_vars

(* The current generation has a directory in which objects can be made.    *)
CanCreate == up = "run" /\ snap = "idle" => generation \in dirs

(* A database that is opened has as its previous generation the one of the *)
(* last snapshot (dbase.c:315).                                            *)
OpensLast ==
    up = "opened" => \E g \in Gens : Complete(g) /\ PrevGen(generation) = g

(* The module is a store that keeps its last snapshot.                     *)
Store == INSTANCE SnapshotStore WITH
    up <- up = "run",
    live <- IF up = "run" THEN mem ELSE [i \in Index |-> Absent],
    saved <- Restorable

KeepsSnapshots == Store!Spec
=============================================================================
