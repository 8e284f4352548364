------------------------------ MODULE JitCache ------------------------------
(***************************************************************************)
(* The JIT cache of src/jit/jit.c and the compiler process it feeds        *)
(* (src/jit/jitcomp.cpp), from a successful jit_init to the end of the     *)
(* host process.  Four kinds of actors share its state:                    *)
(*                                                                         *)
(*   - the threads of the host (one in DGD, several in Hydra), which call  *)
(*     jit_execute, jit_functions, jit_compile and jit_release;            *)
(*   - the loader thread, jit_thread, which loads libraries and removes    *)
(*     released objects;                                                   *)
(*   - jitcomp, a process of its own, which compiles cached programs;      *)
(*   - the cache directory, which survives all of them.                    *)
(*                                                                         *)
(* A section of jit.c between MUTEX_LOCK and MUTEX_UNLOCK is one step.     *)
(* What a thread does outside the mutex is a step of its own, so that      *)
(* other actors come between.                                              *)
(***************************************************************************)
EXTENDS Naturals, Sequences, FiniteSets

CONSTANTS
    Threads,      \* the host's threads
    Objects,      \* (index, instance) pairs: a pair is never used again
    Hashes,       \* MD5 hashes of programs
    ProgOf,       \* the program of each object
    Compilable,   \* the programs that jitcomp and clang can compile
    PipeCap,      \* messages that fit in a pipe
    Faults,       \* what the environment may do: see FaultKinds
    NoObject,     \* "no object"
    NoHash        \* "no program"

(* "host": the host process dies and is restarted on the same cache;       *)
(* "jitcomp": the compiler process dies; "disk": open() or write() of the  *)
(* cache file fails, or writes less than it was given.                     *)
FaultKinds == {"host", "jitcomp", "disk"}

ASSUME ObjectsAssumption == IsFiniteSet(Objects) /\ NoObject \notin Objects
ASSUME HashesAssumption  == NoHash \notin Hashes
ASSUME ProgOfAssumption  == ProgOf \in [Objects -> Hashes]
ASSUME PipeCapAssumption == PipeCap \in Nat \ {0}
ASSUME ConfigAssumption  == Compilable \subseteq Hashes /\ Faults \subseteq FaultKinds

VARIABLES
    data,         \* the cache file of each program: absent, partial or full
    so,           \* the library of each program: absent, good or bad
    object,       \* the table objects[]: absent, unlinked (no program), linked
    refCount,     \* Program.refCount, 0 when programs[] has no such entry
    functions,    \* the programs whose Program.functions is not NULL
    opened,       \* dlopen() calls not yet undone by dlclose(), per library
    mapped,       \* the code mapped for each library: none, good or bad
    released,     \* objects for which the host has called jit_release
    tables,       \* objects whose function table jit_functions has handed out
    running,      \* per thread, the objects whose native code it is executing
    pc,           \* per thread, where it is in a call into the module
    cur,          \* per thread, the object of that call
    inq,          \* pipe "in": from jitcomp, and from the module to itself
    outq,         \* pipe "out": from the module to jitcomp
    loading,      \* the library the loader has opened and not yet installed
    jitcomp       \* what the compiler process is doing, and for which program

diskVars == <<data, so>>
libVars == <<opened, mapped>>
tableVars == <<object, refCount, functions, libVars>>
hostVars == <<released, tables, running>>
threadVars == <<pc, cur>>
vars == <<diskVars, tableVars, hostVars, threadVars, inq, outq, loading, jitcomp>>

CompiledMsg(h) == [type |-> "compiled", hash |-> h]
RemovedMsg(o) == [type |-> "removed", object |-> o]
Messages == {CompiledMsg(h) : h \in Hashes} \cup {RemovedMsg(o) : o \in Objects}

(* The points of a call where a thread is outside the mutex.               *)
Idle == "idle"
CompileCalls == {"compile", "linked", "access", "writeback", "create", "write", "send"}
LookupCalls == {"execute", "functions"}
Calls == CompileCalls \cup LookupCalls \cup {"release"}

(* The compiler process waits for work, or has died.                       *)
JitIdle == [state |-> Idle, hash |-> NoHash]
JitDead == [state |-> "dead", hash |-> NoHash]

-----------------------------------------------------------------------------
(* The initial state of the process: no object, no program, nothing under  *)
(* way.  The host has just called jit_init and the loader has started.     *)
FreshProcess ==
    /\ object = [o \in Objects |-> "absent"]
    /\ refCount = [h \in Hashes |-> 0]
    /\ functions = {}
    /\ opened = [h \in Hashes |-> 0]
    /\ mapped = [h \in Hashes |-> "none"]
    /\ released = {}
    /\ tables = {}
    /\ running = [t \in Threads |-> {}]
    /\ pc = [t \in Threads |-> Idle]
    /\ cur = [t \in Threads |-> NoObject]
    /\ inq = <<>>
    /\ outq = <<>>
    /\ loading = NoHash
    /\ jitcomp = JitIdle

(* The cache holds what earlier, complete runs have left there.            *)
Init ==
    /\ \E cached \in SUBSET Hashes :
          /\ data = [h \in Hashes |-> IF h \in cached THEN "full" ELSE "absent"]
          /\ so = [h \in Hashes |-> IF h \in cached \cap Compilable THEN "good" ELSE "absent"]
    /\ FreshProcess

-----------------------------------------------------------------------------
(* Program and object tables                                               *)

(* p_find finds an entry: programs[] holds a program from its first p_new  *)
(* to the p_del that brings its reference count to 0.                      *)
p_find(h) == refCount[h] > 0

(* p_new: one more reference, in a new entry without functions or in the   *)
(* one that is there.                                                      *)
p_new(h) ==
    /\ refCount' = [refCount EXCEPT ![h] = @ + 1]
    /\ functions' = IF p_find(h) THEN functions ELSE functions \ {h}

(* The C library's dlopen() counts its calls and maps the library's file   *)
(* on the first of them; dlclose() unmaps it on the last.                  *)
dlopen(h) ==
    /\ opened' = [opened EXCEPT ![h] = @ + 1]
    /\ mapped' = [mapped EXCEPT ![h] = IF opened[h] = 0 THEN so[h] ELSE @]

dlclose(h) ==
    /\ opened' = [opened EXCEPT ![h] = @ - 1]
    /\ mapped' = [mapped EXCEPT ![h] = IF opened[h] = 1 THEN "none" ELSE @]

(* A mutant: a program goes with the first of its objects.                 *)
p_del_Uncounted(h) ==
    /\ refCount' = [refCount EXCEPT ![h] = 0]
    /\ functions' = functions \ {h}
    /\ IF h \in functions THEN dlclose(h) ELSE UNCHANGED libVars

(* p_del, and DLL_CLOSE of the handle it returns: the last reference frees *)
(* the entry and closes its library, if it has one.                        *)
p_del(h) ==
    /\ refCount' = [refCount EXCEPT ![h] = @ - 1]
    /\ IF refCount[h] = 1
         THEN /\ functions' = functions \ {h}
              /\ IF h \in functions THEN dlclose(h) ELSE UNCHANGED libVars
         ELSE UNCHANGED <<functions, libVars>>

(* o_find finds an entry of objects[].                                     *)
o_find(o) == object[o] # "absent"

(* o_del: free the entry of an object, after its reference to a program.   *)
o_del(o) ==
    /\ object' = [object EXCEPT ![o] = "absent"]
    /\ IF object[o] = "linked"
         THEN p_del(ProgOf[o])
         ELSE UNCHANGED <<refCount, functions, libVars>>

(* o->program != NULL && o->program->functions != NULL                     *)
HasFunctions(o) == object[o] = "linked" /\ ProgOf[o] \in functions

-----------------------------------------------------------------------------
(* Threads and pipes                                                       *)

Goto(t, label) == pc' = [pc EXCEPT ![t] = label] /\ UNCHANGED cur
Enter(t, label, o) == pc' = [pc EXCEPT ![t] = label] /\ cur' = [cur EXCEPT ![t] = o]
Return(t) == pc' = [pc EXCEPT ![t] = Idle] /\ cur' = [cur EXCEPT ![t] = NoObject]

(* write() on a pipe: 16 and 17 bytes are written whole, after waiting for *)
(* room.                                                                   *)
CanWrite(q) == Len(q) < PipeCap

(* The host releases an object only when nobody uses it, and never uses it *)
(* afterwards.                                                             *)
InUse(o) == \E t \in Threads : cur[t] = o \/ o \in running[t]

-----------------------------------------------------------------------------
(* The host: looking an object up                                          *)

(* Mutant: an object without a program is announced again.                 *)
Lookup_TestsProgram(t, o, call) ==
    /\ pc[t] = Idle
    /\ o \notin released
    /\ IF object[o] = "linked"
         THEN Enter(t, call, o) /\ UNCHANGED object
         ELSE /\ object' = [object EXCEPT ![o] = "unlinked"]
              /\ Enter(t, "compile", o)
    /\ UNCHANGED <<diskVars, refCount, functions, libVars, hostVars, inq, outq, loading, jitcomp>>

(* jit_execute and jit_functions, up to MUTEX_UNLOCK: find the object or   *)
(* create an entry for it.  A new entry makes the call return -1, and the  *)
(* host's next call on this thread is jit_compile.                         *)
Lookup(t, o, call) ==
    /\ pc[t] = Idle
    /\ o \notin released
    /\ IF o_find(o)
         THEN Enter(t, call, o) /\ UNCHANGED object
         ELSE /\ object' = [object EXCEPT ![o] = "unlinked"]
              /\ Enter(t, "compile", o)
    /\ UNCHANGED <<diskVars, refCount, functions, libVars, hostVars, inq, outq, loading, jitcomp>>

(* The rest of jit_execute, without the mutex: run the function, or return *)
(* 0 for the host to interpret it.                                         *)
ExecuteResult(t) ==
    /\ pc[t] = "execute"
    /\ running' = [running EXCEPT ![t] = IF HasFunctions(cur[t]) THEN @ \cup {cur[t]} ELSE @]
    /\ Return(t)
    /\ UNCHANGED <<diskVars, tableVars, released, tables, inq, outq, loading, jitcomp>>

(* The rest of jit_functions: the host keeps the table until it releases   *)
(* the object.                                                             *)
FunctionsResult(t) ==
    /\ pc[t] = "functions"
    /\ tables' = IF HasFunctions(cur[t]) THEN tables \cup {cur[t]} ELSE tables
    /\ Return(t)
    /\ UNCHANGED <<diskVars, tableVars, released, running, inq, outq, loading, jitcomp>>

(* Native code returns.                                                    *)
RunEnds(t, o) ==
    /\ pc[t] = Idle
    /\ o \in running[t]
    /\ running' = [running EXCEPT ![t] = @ \ {o}]
    /\ UNCHANGED <<diskVars, tableVars, threadVars, released, tables, inq, outq, loading, jitcomp>>

-----------------------------------------------------------------------------
(* The host: jit_compile, one action per stretch between two points where  *)
(* another actor can come in                                               *)

(* Hash the program and link the object to its cache entry.                *)
CompileLink(t) ==
    /\ pc[t] = "compile"
    /\ object' = [object EXCEPT ![cur[t]] = "linked"]
    /\ p_new(ProgOf[cur[t]])
    /\ Goto(t, "linked")
    /\ UNCHANGED <<diskVars, libVars, hostVars, inq, outq, loading, jitcomp>>

(* c->program->functions == NULL, read without the mutex.                  *)
CompileCheck(t) ==
    /\ pc[t] = "linked"
    /\ IF ProgOf[cur[t]] \in functions THEN Return(t) ELSE Goto(t, "access")
    /\ UNCHANGED <<diskVars, tableVars, hostVars, inq, outq, loading, jitcomp>>

(* A mutant: the loader is not told of a program that is in the cache.     *)
CompileAccess_NoWriteback(t) ==
    /\ pc[t] = "access"
    /\ IF data[ProgOf[cur[t]]] # "absent" THEN Return(t) ELSE Goto(t, "create")
    /\ UNCHANGED <<diskVars, tableVars, hostVars, inq, outq, loading, jitcomp>>

(* access() tells whether the cache has the program.                       *)
CompileAccess(t) ==
    /\ pc[t] = "access"
    /\ Goto(t, IF data[ProgOf[cur[t]]] # "absent" THEN "writeback" ELSE "create")
    /\ UNCHANGED <<diskVars, tableVars, hostVars, inq, outq, loading, jitcomp>>

(* Reuse: the module tells its own loader that the program is compiled.    *)
CompileWriteback(t) ==
    /\ pc[t] = "writeback"
    /\ CanWrite(inq)
    /\ inq' = Append(inq, CompiledMsg(ProgOf[cur[t]]))
    /\ Return(t)
    /\ UNCHANGED <<diskVars, tableVars, hostVars, outq, loading, jitcomp>>

(* open(O_CREAT | O_TRUNC | O_WRONLY)                                      *)
CompileCreate(t) ==
    /\ pc[t] = "create"
    /\ \/ /\ data' = [data EXCEPT ![ProgOf[cur[t]]] = "partial"]
          /\ Goto(t, "write")
       \/ /\ "disk" \in Faults
          /\ Return(t)
          /\ UNCHANGED data
    /\ UNCHANGED <<so, tableVars, hostVars, inq, outq, loading, jitcomp>>

(* Mutant: a short write goes unnoticed.                                   *)
CompileWrite_Unchecked(t) ==
    /\ pc[t] = "write"
    /\ \/ data' = [data EXCEPT ![ProgOf[cur[t]]] = "full"]
       \/ "disk" \in Faults /\ UNCHANGED data
    /\ Goto(t, "send")
    /\ UNCHANGED <<so, tableVars, hostVars, inq, outq, loading, jitcomp>>

(* write(fd, buffer, size) == size                                         *)
CompileWrite(t) ==
    /\ pc[t] = "write"
    /\ \/ /\ data' = [data EXCEPT ![ProgOf[cur[t]]] = "full"]
          /\ Goto(t, "send")
       \/ /\ "disk" \in Faults
          /\ Return(t)
          /\ UNCHANGED data
    /\ UNCHANGED <<so, tableVars, hostVars, inq, outq, loading, jitcomp>>

(* Inform the backend; a dead one leaves a pipe without a reader, and the  *)
(* result of the write is ignored.                                         *)
CompileSend(t) ==
    /\ pc[t] = "send"
    /\ \/ /\ jitcomp.state # "dead"
          /\ CanWrite(outq)
          /\ outq' = Append(outq, ProgOf[cur[t]])
       \/ /\ jitcomp.state = "dead"
          /\ UNCHANGED outq
    /\ Return(t)
    /\ UNCHANGED <<diskVars, tableVars, hostVars, inq, loading, jitcomp>>

-----------------------------------------------------------------------------
(* The host: jit_release                                                   *)

(* The host gives an object up, its function table with it ...             *)
Release(t, o) ==
    /\ pc[t] = Idle
    /\ o \notin released
    /\ ~InUse(o)
    /\ released' = released \cup {o}
    /\ tables' = tables \ {o}
    /\ Enter(t, "release", o)
    /\ UNCHANGED <<diskVars, tableVars, running, inq, outq, loading, jitcomp>>

(* ... and the module tells its own loader.                                *)
ReleaseSend(t) ==
    /\ pc[t] = "release"
    /\ CanWrite(inq)
    /\ inq' = Append(inq, RemovedMsg(cur[t]))
    /\ Return(t)
    /\ UNCHANGED <<diskVars, tableVars, hostVars, outq, loading, jitcomp>>

-----------------------------------------------------------------------------
(* The loader thread: jit_thread                                           *)

(* Mutant: the loader ends when a library cannot be opened.                *)
LoadOpen_Stops ==
    /\ loading = NoHash
    /\ inq # <<>>
    /\ Head(inq).type = "compiled"
    /\ so[Head(inq).hash] # "absent"
    /\ inq' = Tail(inq)
    /\ dlopen(Head(inq).hash)
    /\ loading' = Head(inq).hash
    /\ UNCHANGED <<diskVars, object, refCount, functions, hostVars, threadVars, outq, jitcomp>>

(* A "compiled" message: dlopen() and dlsym().  A library that cannot be   *)
(* opened, or has no table of functions, is left alone.                    *)
LoadOpen ==
    /\ loading = NoHash
    /\ inq # <<>>
    /\ Head(inq).type = "compiled"
    /\ inq' = Tail(inq)
    /\ LET h == Head(inq).hash
       IN  \/ /\ so[h] # "absent"
              /\ dlopen(h)
              /\ loading' = h
           \/ /\ so[h] # "good" /\ opened[h] = 0
              /\ UNCHANGED <<libVars, loading>>
    /\ UNCHANGED <<diskVars, object, refCount, functions, hostVars, threadVars, outq, jitcomp>>

(* Under the mutex: give the program its functions, or close the library   *)
(* when no program wants it.                                               *)
LoadInstall ==
    /\ loading # NoHash
    /\ IF p_find(loading)
         THEN functions' = functions \cup {loading} /\ UNCHANGED libVars
         ELSE dlclose(loading) /\ UNCHANGED functions
    /\ loading' = NoHash
    /\ UNCHANGED <<diskVars, object, refCount, hostVars, threadVars, inq, outq, jitcomp>>

(* A "removed" message, under the mutex: forget the object, if the table   *)
(* has it, and with the last one its program.                              *)
Remove ==
    /\ loading = NoHash
    /\ inq # <<>>
    /\ Head(inq).type = "removed"
    /\ inq' = Tail(inq)
    /\ IF o_find(Head(inq).object)
         THEN o_del(Head(inq).object)
         ELSE UNCHANGED tableVars
    /\ UNCHANGED <<diskVars, hostVars, threadVars, outq, loading, jitcomp>>

-----------------------------------------------------------------------------
(* The compiler process: the loop of jitcomp's main()                      *)

(* Read a hash and then the cache file, if there is one, as it is now.     *)
JitRead ==
    /\ jitcomp.state = Idle
    /\ outq # <<>>
    /\ outq' = Tail(outq)
    /\ jitcomp' = IF data[Head(outq)] = "absent"
                    THEN JitIdle
                    ELSE [state |-> data[Head(outq)], hash |-> Head(outq)]
    /\ UNCHANGED <<diskVars, tableVars, hostVars, threadVars, inq, loading>>

(* Compile a program that was read whole: jitComp() with clang's result.   *)
JitCompile ==
    /\ jitcomp.state = "full"
    /\ IF jitcomp.hash \in Compilable
         THEN /\ so' = [so EXCEPT ![jitcomp.hash] = "good"]
              /\ jitcomp' = [jitcomp EXCEPT !.state = "reply"]
         ELSE /\ jitcomp' = JitIdle
              /\ UNCHANGED so
    /\ UNCHANGED <<data, tableVars, hostVars, threadVars, inq, outq, loading>>

(* Compile what a short read() has left in buffers that nobody cleared:    *)
(* sizes and bytecode are indeterminate, so the result is some library, a  *)
(* failure, or the end of the process.                                     *)
JitCompilePartial ==
    /\ jitcomp.state = "partial"
    /\ \/ /\ so' = [so EXCEPT ![jitcomp.hash] = "bad"]
          /\ jitcomp' = [jitcomp EXCEPT !.state = "reply"]
          /\ UNCHANGED outq
       \/ /\ jitcomp' = JitIdle
          /\ UNCHANGED <<so, outq>>
       \/ /\ jitcomp' = JitDead
          /\ outq' = <<>>
          /\ UNCHANGED so
    /\ UNCHANGED <<data, tableVars, hostVars, threadVars, inq, loading>>

(* Tell the loader.                                                        *)
JitReply ==
    /\ jitcomp.state = "reply"
    /\ CanWrite(inq)
    /\ inq' = Append(inq, CompiledMsg(jitcomp.hash))
    /\ jitcomp' = JitIdle
    /\ UNCHANGED <<diskVars, tableVars, hostVars, threadVars, outq, loading>>

(* jitcomp dies, in fatal() or in a crash.  The module has a writing end   *)
(* of the pipe "in" itself, so its loader never sees an end of file.       *)
JitDies ==
    /\ "jitcomp" \in Faults
    /\ jitcomp.state # "dead"
    /\ jitcomp' = JitDead
    /\ outq' = <<>>
    /\ UNCHANGED <<diskVars, tableVars, hostVars, threadVars, inq, loading>>

-----------------------------------------------------------------------------
(* What the jitcomp that a dead host leaves behind can make of the library *)
(* of a program it was asked for, before it sees the end of its input.     *)
Leftover(h) ==
    LET asked == \E i \in 1 .. Len(outq) : outq[i] = h
        reading(state) == jitcomp.hash = h /\ jitcomp.state = state
    IN  {so[h]} \cup
        {l \in {"good"} : h \in Compilable /\ (reading("full") \/ (asked /\ data[h] = "full"))} \cup
        {l \in {"bad"} : reading("partial") \/ (asked /\ data[h] = "partial")}

(* The host process dies and starts again, at any moment.                  *)
HostRestart ==
    /\ "host" \in Faults
    /\ so' \in [Hashes -> {"absent", "good", "bad"}]
    /\ \A h \in Hashes : so'[h] \in Leftover(h)
    /\ UNCHANGED data
    /\ object' = [o \in Objects |-> "absent"]
    /\ refCount' = [h \in Hashes |-> 0]
    /\ functions' = {}
    /\ opened' = [h \in Hashes |-> 0]
    /\ mapped' = [h \in Hashes |-> "none"]
    /\ released' = {}
    /\ tables' = {}
    /\ running' = [t \in Threads |-> {}]
    /\ pc' = [t \in Threads |-> Idle]
    /\ cur' = [t \in Threads |-> NoObject]
    /\ inq' = <<>>
    /\ outq' = <<>>
    /\ loading' = NoHash
    /\ jitcomp' = JitIdle

-----------------------------------------------------------------------------
InCall(t) ==
    \/ ExecuteResult(t) \/ FunctionsResult(t)
    \/ CompileLink(t) \/ CompileCheck(t) \/ CompileAccess(t) \/ CompileWriteback(t)
    \/ CompileCreate(t) \/ CompileWrite(t) \/ CompileSend(t)
    \/ ReleaseSend(t)

NewCall(t, o) ==
    \/ \E call \in LookupCalls : Lookup(t, o, call)
    \/ Release(t, o)

Loader == LoadOpen \/ LoadInstall \/ Remove

Compiler == JitRead \/ JitCompile \/ JitCompilePartial \/ JitReply

Next ==
    \/ \E t \in Threads, o \in Objects : NewCall(t, o) \/ RunEnds(t, o)
    \/ \E t \in Threads : InCall(t)
    \/ Loader
    \/ Compiler
    \/ JitDies
    \/ HostRestart

Spec == Init /\ [][Next]_vars

(* What runs at all keeps running: a call inside the module, the loader    *)
(* and the compiler process.  The host need not make another call.         *)
Fairness ==
    /\ \A t \in Threads : WF_vars(InCall(t))
    /\ WF_vars(Loader)
    /\ WF_vars(Compiler)

FairSpec == Spec /\ Fairness

-----------------------------------------------------------------------------
(* Properties                                                              *)

(* The variables have their types.                                         *)
TypeOK ==
    /\ data \in [Hashes -> {"absent", "partial", "full"}]
    /\ so \in [Hashes -> {"absent", "good", "bad"}]
    /\ object \in [Objects -> {"absent", "unlinked", "linked"}]
    /\ refCount \in [Hashes -> Nat]
    /\ functions \in SUBSET Hashes
    /\ opened \in [Hashes -> Nat]
    /\ mapped \in [Hashes -> {"none", "good", "bad"}]
    /\ released \in SUBSET Objects
    /\ tables \in SUBSET Objects
    /\ running \in [Threads -> SUBSET Objects]
    /\ pc \in [Threads -> Calls \cup {Idle}]
    /\ cur \in [Threads -> Objects \cup {NoObject}]
    /\ inq \in Seq(Messages)
    /\ outq \in Seq(Hashes)
    /\ loading \in Hashes \cup {NoHash}
    /\ jitcomp \in {JitIdle, JitDead} \cup [state : {"partial", "full", "reply"}, hash : Hashes]

(* The objects that hold a reference to a program.                         *)
Referencing(h) == {o \in Objects : object[o] = "linked" /\ ProgOf[o] = h}

(* Program.refCount counts exactly the objects that point to the program,  *)
(* whatever threads create, compile and remove at the same time: p_del     *)
(* neither frees a program that an object still points to, nor keeps one   *)
(* that no object points to.                                               *)
RefCountsExact == \A h \in Hashes : refCount[h] = Cardinality(Referencing(h))

(* The Object that jit_execute, jit_functions and jit_compile found under  *)
(* the mutex, and the Program they reach through it, are still there when  *)
(* they are read after the mutex has been given up; and jit_compile finds  *)
(* the entry that it dereferences without a test.                          *)
PointersValid ==
    \A t \in Threads :
        /\ pc[t] \in LookupCalls \cup CompileCalls => o_find(cur[t])
        /\ pc[t] \in CompileCalls \ {"compile"} => p_find(ProgOf[cur[t]])

(* A function table is only reachable while its library is mapped.         *)
TablesMapped == \A h \in functions : mapped[h] # "none"

(* Native code the host is using.                                          *)
CodeInUse == tables \cup UNION {running[t] : t \in Threads}

(* Native code that a thread is executing, or whose table jit_functions    *)
(* has handed to the host, stays mapped until the host releases the        *)
(* object, whatever becomes of other objects with the same program.        *)
CodeInUseMapped ==
    \A o \in CodeInUse :
        HasFunctions(o) /\ mapped[ProgOf[o]] # "none"

(* jitcomp only ever compiles programs that were saved whole.              *)
CompilesWholePrograms == jitcomp.state # "partial"

(* The cache compiles a program once: no program that has its library is   *)
(* on its way to the compiler, or in it.                                   *)
CompiledOnce ==
    \A h \in Hashes : so[h] = "good" =>
        /\ \A i \in 1 .. Len(outq) : outq[i] # h
        /\ jitcomp.hash = h => jitcomp.state = "reply"

(* The native code in use for an object is that of its own program.        *)
CodeInUseIsOwn ==
    \A o \in CodeInUse :
        mapped[ProgOf[o]] = "good"

(* When the last object of a program has been released and removed, its    *)
(* library is closed: jit_release "releases" the JIT-compiled program.     *)
LibrariesClosed ==
    \A h \in Hashes : ~p_find(h) /\ loading # h => opened[h] = 0

(* A call into the module returns: no thread waits for ever on a full pipe.*)
CallsReturn == \A t \in Threads : pc[t] # Idle ~> pc[t] = Idle

(* An object whose program can be compiled gets native code, unless it is  *)
(* removed first.                                                          *)
EventuallyNative ==
    \A o \in Objects :
        object[o] = "linked" /\ ProgOf[o] \in Compilable
            ~> HasFunctions(o) \/ object[o] = "absent"

(* A released object is forgotten, and its entry freed.                    *)
EventuallyForgotten == \A o \in Objects : o \in released ~> object[o] = "absent"

(* The cache as its host sees it: an object has native code when a lookup  *)
(* would find its function table and the library behind it is mapped.      *)
Promise == INSTANCE NativeCode WITH
    known  <- {o \in Objects : o_find(o)},
    asked  <- {<<t, cur[t]>> : t \in {u \in Threads : pc[u] = "compile"}},
    native <- {o \in Objects : HasFunctions(o) /\ mapped[ProgOf[o]] # "none"},
    inUse  <- CodeInUse

(* The module keeps that promise: an object is announced to the host once, *)
(* and native code is taken away only after a release.                     *)
KeepsPromise == Promise!Spec
=============================================================================
