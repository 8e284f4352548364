--------------------------- MODULE JitCacheProofs ---------------------------
(***************************************************************************)
(* Proofs about JitCache, for every number of threads, objects, programs   *)
(* and pipe sizes, and for all of the faults.                              *)
(***************************************************************************)
EXTENDS JitCache, FiniteSetTheorems, TLAPS

(* The two kinds of messages have their own fields.                        *)
LEMMA MessageFields ==
    \A m \in Messages : \/ m.type = "compiled" /\ m.hash \in Hashes
                        \/ m.type = "removed" /\ m.object \in Objects
BY DEF Messages, CompiledMsg, RemovedMsg

(* The constructors make messages.                                         *)
LEMMA MessageTypes ==
    /\ \A h \in Hashes : CompiledMsg(h) \in Messages /\ CompiledMsg(h).type = "compiled"
    /\ \A o \in Objects : /\ RemovedMsg(o) \in Messages
                          /\ RemovedMsg(o).type = "removed"
                          /\ RemovedMsg(o).object = o
BY DEF Messages, CompiledMsg, RemovedMsg

(* Head and Tail of a queue that is not empty.                             *)
LEMMA HeadTail ==
    ASSUME NEW S, NEW q \in Seq(S), q # <<>>
    PROVE  /\ Head(q) \in S
           /\ Tail(q) \in Seq(S)
           /\ Len(Tail(q)) = Len(q) - 1
           /\ \A i \in 1 .. Len(Tail(q)) : Tail(q)[i] = q[i + 1]
           /\ Head(q) = q[1]
           /\ 1 \in 1 .. Len(q)
OBVIOUS

(* The empty queue.                                                        *)
LEMMA EmptyQueue ==
    ASSUME NEW S
    PROVE  <<>> \in Seq(S)
OBVIOUS

(* Append to a queue.                                                      *)
LEMMA AppendQueue ==
    ASSUME NEW S, NEW q \in Seq(S), NEW x \in S
    PROVE  /\ Append(q, x) \in Seq(S)
           /\ Len(Append(q, x)) = Len(q) + 1
           /\ \A i \in 1 .. Len(q) : Append(q, x)[i] = q[i]
           /\ Append(q, x)[Len(q) + 1] = x
OBVIOUS

-----------------------------------------------------------------------------
(* The inductive invariant                                                 *)

(* A call has an object, which is released only in jit_release itself.    *)
CallsDisciplined ==
    /\ \A t \in Threads : pc[t] # Idle => cur[t] \in Objects
    /\ \A t \in Threads : pc[t] \in LookupCalls \cup CompileCalls => cur[t] \notin released
    /\ \A t \in Threads : pc[t] = "release" => cur[t] \in released

(* Only released objects are being removed.                                *)
RemovalsReleased ==
    \A i \in 1 .. Len(inq) : inq[i].type = "removed" => inq[i].object \in released

(* The host's discipline, as the module sees it; the code of a released    *)
(* object is not in use.                                                   *)
Discipline ==
    /\ CallsDisciplined
    /\ RemovalsReleased
    /\ CodeInUse \cap released = {}

(* The entry of the object of a call, at each point of the call; an object *)
(* is compiled by the one thread that made its entry.                      *)
Entries ==
    /\ \A t \in Threads : pc[t] \in LookupCalls => object[cur[t]] # "absent"
    /\ \A t \in Threads : pc[t] = "compile" => object[cur[t]] = "unlinked"
    /\ \A t \in Threads : pc[t] \in CompileCalls \ {"compile"} => object[cur[t]] = "linked"
    /\ \A t, u \in Threads :
          pc[t] = "compile" /\ pc[u] = "compile" /\ cur[t] = cur[u] => t = u

(* A library is open once for the function table of its program, and once  *)
(* more while the loader holds it; an open library is mapped.              *)
Libraries ==
    \A h \in Hashes :
        /\ h \in functions => refCount[h] > 0 /\ opened[h] >= 1
        /\ loading = h => opened[h] >= 1
        /\ h \in functions /\ loading = h => opened[h] >= 2
        /\ mapped[h] = "none" => opened[h] = 0

(* Code in use belongs to an object that leads to it.                      *)
InUseLinked == \A o \in CodeInUse : HasFunctions(o)

IInv ==
    /\ TypeOK
    /\ Discipline
    /\ Entries
    /\ RefCountsExact
    /\ Libraries
    /\ InUseLinked

-----------------------------------------------------------------------------
(* Reference counts                                                        *)

(* The references to a program form a finite set, so they can be counted.  *)
LEMMA ReferencingFinite ==
    ASSUME NEW h
    PROVE  /\ IsFiniteSet(Referencing(h))
           /\ Cardinality(Referencing(h)) \in Nat
<1>1. Referencing(h) \subseteq Objects
  BY DEF Referencing
<1>2. IsFiniteSet(Referencing(h))
  BY <1>1, ObjectsAssumption, FS_Subset
<1> QED
  BY <1>2, FS_CardinalityType

(* A linked object is counted.                                             *)
LEMMA LinkedCounted ==
    ASSUME RefCountsExact, NEW o \in Objects, object[o] = "linked"
    PROVE  refCount[ProgOf[o]] > 0
<1> DEFINE h == ProgOf[o]
<1>1. h \in Hashes
  BY ProgOfAssumption
<1>2. o \in Referencing(h)
  BY DEF Referencing
<1>3. Cardinality(Referencing(h)) # 0
  BY <1>2, ReferencingFinite, FS_EmptySet
<1> QED
  BY <1>1, <1>3, ReferencingFinite DEF RefCountsExact

(* A program with two linked objects has a count above 1.                  *)
LEMMA TwoCounted ==
    ASSUME RefCountsExact,
           NEW o \in Objects, object[o] = "linked",
           NEW p \in Objects, object[p] = "linked",
           o # p, ProgOf[o] = ProgOf[p]
    PROVE  refCount[ProgOf[o]] > 1
<1> DEFINE h == ProgOf[o]
<1>1. h \in Hashes
  BY ProgOfAssumption
<1>2. o \in Referencing(h) /\ p \in Referencing(h)
  BY DEF Referencing
<1>3. Cardinality(Referencing(h)) # 1
  <2>1. ~\E x : Referencing(h) = {x}
    BY <1>2
  <2> QED
    BY <2>1, ReferencingFinite, FS_Singleton
<1>4. refCount[h] > 0
  BY LinkedCounted
<1> QED
  BY <1>1, <1>3, <1>4, ReferencingFinite DEF RefCountsExact

-----------------------------------------------------------------------------
(* Type correctness                                                        *)

(* Where the threads are.                                                  *)
ThreadTypes ==
    /\ pc \in [Threads -> Calls \cup {Idle}]
    /\ cur \in [Threads -> Objects \cup {NoObject}]

(* Entering a call, going on in it and returning from it keep the types.   *)
LEMMA ThreadTypesStep ==
    ASSUME ThreadTypes, NEW t \in Threads
    PROVE  /\ \A label \in Calls, o \in Objects : Enter(t, label, o) => ThreadTypes'
           /\ \A label \in Calls : Goto(t, label) => ThreadTypes'
           /\ Return(t) => ThreadTypes'
<1>1. ASSUME NEW label \in Calls, NEW o \in Objects, Enter(t, label, o) PROVE ThreadTypes'
  BY <1>1 DEF ThreadTypes, Enter
<1>2. ASSUME NEW label \in Calls, Goto(t, label) PROVE ThreadTypes'
  BY <1>2 DEF ThreadTypes, Goto
<1>3. ASSUME Return(t) PROVE ThreadTypes'
  BY <1>3 DEF ThreadTypes, Return
<1> QED
  BY <1>1, <1>2, <1>3

(* Each label is one.                                                      *)
LEMMA Labels ==
    /\ CompileCalls \subseteq Calls /\ LookupCalls \subseteq Calls /\ Idle \notin Calls
    /\ {"linked", "access", "writeback", "create", "write", "send"} = CompileCalls \ {"compile"}
    /\ "compile" \in CompileCalls
    /\ LookupCalls = {"execute", "functions"}
    /\ "release" \in Calls \ (CompileCalls \cup LookupCalls)
    /\ CompileCalls \cap LookupCalls = {}
BY DEF Calls, CompileCalls, LookupCalls, Idle

(* dlopen() and dlclose() keep the types.                                  *)
LibTypes ==
    /\ opened \in [Hashes -> Nat]
    /\ mapped \in [Hashes -> {"none", "good", "bad"}]

LEMMA DlTypes ==
    ASSUME LibTypes, NEW h \in Hashes
    PROVE  /\ so[h] \in {"good", "bad"} /\ dlopen(h) => LibTypes'
           /\ opened[h] >= 1 /\ dlclose(h) => LibTypes'
<1>1. ASSUME so[h] \in {"good", "bad"}, dlopen(h) PROVE LibTypes'
  BY <1>1 DEF LibTypes, dlopen
<1>2. ASSUME opened[h] >= 1, dlclose(h) PROVE LibTypes'
  <2>1. opened' \in [Hashes -> Nat]
    <3>1. opened[h] - 1 \in Nat
      BY <1>2 DEF LibTypes
    <3> QED
      BY <1>2, <3>1 DEF LibTypes, dlclose
  <2>2. mapped' \in [Hashes -> {"none", "good", "bad"}]
    BY <1>2 DEF LibTypes, dlclose
  <2> QED
    BY <2>1, <2>2 DEF LibTypes
<1> QED
  BY <1>1, <1>2

(* A removal, whether the table has the object or not.                     *)
LEMMA RemoveEffect ==
    ASSUME object \in [Objects -> {"absent", "unlinked", "linked"}],
           Remove, NEW o \in Objects, o = Head(inq).object
    PROVE  /\ object' = [object EXCEPT ![o] = "absent"]
           /\ object[o] = "linked" => p_del(ProgOf[o])
           /\ object[o] # "linked" => UNCHANGED <<refCount, functions, opened, mapped>>
<1>1. CASE o_find(o)
  BY <1>1 DEF Remove, o_del, libVars
<1>2. CASE ~o_find(o)
  <2>1. object[o] = "absent" /\ UNCHANGED tableVars
    BY <1>2 DEF Remove, o_find
  <2> QED
    BY <2>1 DEF tableVars, libVars
<1> QED
  BY <1>1, <1>2

(* What the compiler process is doing, by its state.                       *)
LEMMA JitcompStates ==
    ASSUME TypeOK
    PROVE  /\ jitcomp.state \in {"partial", "full", "reply"} =>
                 jitcomp \in [state : {"partial", "full", "reply"}, hash : Hashes]
           /\ jitcomp.hash # NoHash => jitcomp.state \in {"partial", "full", "reply"}
BY HashesAssumption DEF TypeOK, JitIdle, JitDead, Idle

(* Every step keeps the types; that counts never go below 0 takes the rest *)
(* of the invariant.                                                       *)
LEMMA TypeStep ==
    ASSUME IInv, [Next]_vars
    PROVE  TypeOK'
<1> USE ProgOfAssumption, ThreadTypesStep, Labels
<1> USE DEF TypeOK, ThreadTypes, diskVars, libVars, tableVars, hostVars, threadVars
<1>a. TypeOK /\ Libraries /\ RefCountsExact
  BY DEF IInv
<1>b. \A t \in Threads : pc[t] # Idle => cur[t] \in Objects /\ ProgOf[cur[t]] \in Hashes
  BY DEF IInv, Discipline, CallsDisciplined
<1>1. ASSUME NEW t \in Threads, NEW o \in Objects, NEW call \in LookupCalls,
             Lookup(t, o, call)
      PROVE  TypeOK'
  <2>1. ThreadTypes'
    BY <1>a, <1>1 DEF Lookup
  <2> QED
    BY <1>a, <1>1, <2>1 DEF Lookup
<1>2. ASSUME NEW t \in Threads, NEW o \in Objects, Release(t, o)
      PROVE  TypeOK'
  BY <1>a, <1>2 DEF Release
<1>3. ASSUME NEW t \in Threads, NEW o \in Objects, RunEnds(t, o)
      PROVE  TypeOK'
  BY <1>a, <1>3 DEF RunEnds
<1>4. ASSUME NEW t \in Threads, ExecuteResult(t) PROVE TypeOK'
  BY <1>a, <1>b, <1>4 DEF ExecuteResult, Idle
<1>5. ASSUME NEW t \in Threads, FunctionsResult(t) PROVE TypeOK'
  BY <1>a, <1>b, <1>5 DEF FunctionsResult, Idle
<1>6. ASSUME NEW t \in Threads, CompileLink(t) PROVE TypeOK'
  BY <1>a, <1>b, <1>6 DEF CompileLink, p_new, Idle
<1>7. ASSUME NEW t \in Threads, CompileCheck(t) PROVE TypeOK'
  BY <1>a, <1>7 DEF CompileCheck
<1>8. ASSUME NEW t \in Threads, CompileAccess(t) PROVE TypeOK'
  BY <1>a, <1>8 DEF CompileAccess
<1>9. ASSUME NEW t \in Threads, CompileWriteback(t) PROVE TypeOK'
  BY <1>a, <1>b, <1>9, MessageTypes, AppendQueue DEF CompileWriteback, Idle
<1>10. ASSUME NEW t \in Threads, CompileCreate(t) PROVE TypeOK'
  BY <1>a, <1>10 DEF CompileCreate
<1>11. ASSUME NEW t \in Threads, CompileWrite(t) PROVE TypeOK'
  BY <1>a, <1>11 DEF CompileWrite
<1>12. ASSUME NEW t \in Threads, CompileSend(t) PROVE TypeOK'
  <2>1. Append(outq, ProgOf[cur[t]]) \in Seq(Hashes)
    BY <1>a, <1>b, <1>12, AppendQueue DEF CompileSend, Idle
  <2>2. outq' \in Seq(Hashes)
    BY <1>a, <1>12, <2>1 DEF CompileSend
  <2> QED
    BY <1>a, <1>12, <2>2 DEF CompileSend
<1>13. ASSUME NEW t \in Threads, ReleaseSend(t) PROVE TypeOK'
  BY <1>a, <1>b, <1>13, MessageTypes, AppendQueue DEF ReleaseSend, Idle
<1>14. ASSUME LoadOpen PROVE TypeOK'
  <2>1. inq' \in Seq(Messages) /\ Head(inq).hash \in Hashes
    BY <1>a, <1>14, MessageFields, HeadTail DEF LoadOpen
  <2>2. LibTypes' /\ loading' \in Hashes \cup {NoHash}
    <3>1. CASE so[Head(inq).hash] # "absent" /\ dlopen(Head(inq).hash)
                 /\ loading' = Head(inq).hash
      BY <1>a, <2>1, <3>1, DlTypes DEF LibTypes
    <3>2. CASE UNCHANGED <<libVars, loading>>
      BY <1>a, <3>2 DEF LibTypes
    <3> QED
      BY <1>14, <3>1, <3>2 DEF LoadOpen
  <2> QED
    BY <1>a, <1>14, <2>1, <2>2 DEF LoadOpen, LibTypes
<1>15. ASSUME LoadInstall PROVE TypeOK'
  <2>1. CASE p_find(loading)
    BY <1>a, <1>15, <2>1 DEF LoadInstall
  <2>2. CASE ~p_find(loading)
    <3>1. loading \in Hashes /\ opened[loading] >= 1
      BY <1>a, <1>15 DEF LoadInstall, Libraries
    <3>2. LibTypes'
      BY <1>a, <1>15, <2>2, <3>1, DlTypes DEF LoadInstall, LibTypes
    <3> QED
      BY <1>a, <1>15, <2>2, <3>2 DEF LoadInstall, LibTypes
  <2> QED
    BY <2>1, <2>2
<1>16. ASSUME Remove PROVE TypeOK'
  <2>0. PICK o \in Objects : o = Head(inq).object
    BY <1>a, <1>16, MessageFields, HeadTail DEF Remove
  <2> DEFINE h == ProgOf[o]
  <2>1. inq' \in Seq(Messages) /\ h \in Hashes
    BY <1>a, <1>16, <2>0, HeadTail DEF Remove
  <2>a. /\ object' = [object EXCEPT ![o] = "absent"]
        /\ object[o] = "linked" => p_del(ProgOf[o])
        /\ object[o] # "linked" => UNCHANGED <<refCount, functions, opened, mapped>>
    BY <1>a, <1>16, <2>0, RemoveEffect
  <2>2. object' \in [Objects -> {"absent", "unlinked", "linked"}]
    BY <1>a, <2>a
  <2>3. CASE object[o] = "linked"
    <3>1. refCount[h] > 0
      BY <1>a, <2>1, <2>3, LinkedCounted
    <3>2. p_del(h)
      BY <2>a, <2>3
    <3>3. refCount' \in [Hashes -> Nat]
      BY <1>a, <2>1, <3>1, <3>2 DEF p_del
    <3>4. functions' \in SUBSET Hashes
      BY <1>a, <2>1, <3>2 DEF p_del
    <3>5. LibTypes'
      <4>1. CASE dlclose(h) /\ h \in functions
        <5>1. opened[h] >= 1
          BY <1>a, <2>1, <4>1 DEF Libraries
        <5> QED
          BY <1>a, <2>1, <4>1, <5>1, DlTypes DEF LibTypes
      <4>2. CASE UNCHANGED libVars
        BY <1>a, <4>2 DEF LibTypes
      <4> QED
        BY <3>2, <4>1, <4>2 DEF p_del
    <3> QED
      BY <1>a, <1>16, <2>1, <2>2, <3>3, <3>4, <3>5 DEF Remove, LibTypes
  <2>4. CASE object[o] # "linked"
    <3>1. UNCHANGED <<refCount, functions, libVars>>
      BY <2>a, <2>4
    <3> QED
      BY <1>a, <1>16, <2>1, <2>2, <3>1 DEF Remove
  <2> QED
    BY <2>3, <2>4
<1>17. ASSUME JitRead PROVE TypeOK'
  <2>1. outq' \in Seq(Hashes) /\ Head(outq) \in Hashes
    BY <1>a, <1>17, HeadTail DEF JitRead
  <2>2. data[Head(outq)] \in {"absent", "partial", "full"}
    BY <1>a, <2>1
  <2>3. jitcomp' \in {JitIdle} \cup [state : {"partial", "full"}, hash : Hashes]
    BY <1>17, <2>1, <2>2 DEF JitRead
  <2> QED
    BY <1>a, <1>17, <2>1, <2>3 DEF JitRead
<1>18. ASSUME JitCompile PROVE TypeOK'
  <2>1. jitcomp \in [state : {"partial", "full", "reply"}, hash : Hashes]
    BY <1>a, <1>18, JitcompStates DEF JitCompile
  <2>2. jitcomp' \in {JitIdle} \cup [state : {"partial", "full", "reply"}, hash : Hashes]
    BY <1>18, <2>1 DEF JitCompile
  <2>3. so' \in [Hashes -> {"absent", "good", "bad"}]
    BY <1>a, <1>18, <2>1 DEF JitCompile
  <2> QED
    BY <1>a, <1>18, <2>2, <2>3 DEF JitCompile
<1>19. ASSUME JitCompilePartial PROVE TypeOK'
  <2>1. jitcomp \in [state : {"partial", "full", "reply"}, hash : Hashes]
    BY <1>a, <1>19, JitcompStates DEF JitCompilePartial
  <2>2. jitcomp' \in {JitIdle, JitDead} \cup [state : {"partial", "full", "reply"}, hash : Hashes]
    BY <1>19, <2>1 DEF JitCompilePartial
  <2>3. so' \in [Hashes -> {"absent", "good", "bad"}]
    BY <1>a, <1>19, <2>1 DEF JitCompilePartial
  <2>4. outq' \in Seq(Hashes)
    <3>1. outq' = outq \/ outq' = <<>>
      BY <1>19 DEF JitCompilePartial
    <3>2. <<>> \in Seq(Hashes)
      BY EmptyQueue
    <3> QED
      BY <1>a, <3>1, <3>2
  <2> QED
    BY <1>a, <1>19, <2>2, <2>3, <2>4 DEF JitCompilePartial
<1>20. ASSUME JitReply PROVE TypeOK'
  <2>1. jitcomp.hash \in Hashes
    BY <1>a, <1>20, JitcompStates DEF JitReply
  <2>2. inq' \in Seq(Messages)
    BY <1>a, <1>20, <2>1, MessageTypes, AppendQueue DEF JitReply
  <2> QED
    BY <1>a, <1>20, <2>2 DEF JitReply
<1>21. ASSUME JitDies PROVE TypeOK'
  BY <1>a, <1>21 DEF JitDies
<1>22. ASSUME HostRestart PROVE TypeOK'
  BY <1>a, <1>22 DEF HostRestart, Idle
<1>23. CASE UNCHANGED vars
  BY <1>a, <1>23 DEF vars
<1> QED
  BY <1>1, <1>2, <1>3, <1>4, <1>5, <1>6, <1>7, <1>8, <1>9, <1>10, <1>11, <1>12, <1>13,
     <1>14, <1>15, <1>16, <1>17, <1>18, <1>19, <1>20, <1>21, <1>22, <1>23
  DEF Next, NewCall, InCall, Loader, Compiler

-----------------------------------------------------------------------------
(* The discipline of releases                                              *)

(* Every step keeps a thread's call disciplined.                           *)
LEMMA CallsStep ==
    ASSUME IInv, [Next]_vars
    PROVE  CallsDisciplined'
<1> USE Labels DEF CallsDisciplined, diskVars, libVars, tableVars, hostVars, threadVars,
        Enter, Goto, Return
<1>a. ThreadTypes /\ CallsDisciplined
  BY DEF IInv, TypeOK, ThreadTypes, Discipline
<1>b. Idle \notin LookupCalls \cup CompileCalls \cup {"release"}
  BY DEF Calls
<1> USE <1>a, <1>b DEF ThreadTypes
<1>1. ASSUME NEW t \in Threads, NEW o \in Objects, NEW call \in LookupCalls,
             Lookup(t, o, call)
      PROVE  CallsDisciplined'
  <2>1. PICK l \in LookupCalls \cup CompileCalls : Enter(t, l, o)
    BY <1>1 DEF Lookup
  <2> QED
    BY <1>1, <2>1 DEF Lookup
<1>2. ASSUME NEW t \in Threads, NEW o \in Objects, Release(t, o)
      PROVE  CallsDisciplined'
  BY <1>2 DEF Release, InUse
<1>3. ASSUME NEW t \in Threads, \E l \in CompileCalls : Goto(t, l),
             pc[t] \in CompileCalls, UNCHANGED released
      PROVE  CallsDisciplined'
  BY <1>3
<1>4. ASSUME NEW t \in Threads, Return(t), UNCHANGED released
      PROVE  CallsDisciplined'
  BY <1>4
<1>5. ASSUME UNCHANGED <<pc, cur, released>>
      PROVE  CallsDisciplined'
  BY <1>5
<1>6. ASSUME NEW t \in Threads, InCall(t) PROVE CallsDisciplined'
  <2>1. CASE ExecuteResult(t) \/ FunctionsResult(t) \/ CompileWriteback(t)
               \/ CompileSend(t) \/ ReleaseSend(t)
    BY <1>4, <2>1 DEF ExecuteResult, FunctionsResult, CompileWriteback, CompileSend, ReleaseSend
  <2>2. CASE CompileLink(t)
    BY <1>3, <2>2 DEF CompileLink
  <2>3. CASE CompileCheck(t)
    BY <1>3, <1>4, <2>3 DEF CompileCheck
  <2>4. CASE CompileAccess(t)
    BY <1>3, <2>4 DEF CompileAccess
  <2>5. CASE CompileCreate(t)
    BY <1>3, <1>4, <2>5 DEF CompileCreate
  <2>6. CASE CompileWrite(t)
    BY <1>3, <1>4, <2>6 DEF CompileWrite
  <2> QED
    BY <1>6, <2>1, <2>2, <2>3, <2>4, <2>5, <2>6 DEF InCall
<1>7. ASSUME Loader \/ Compiler \/ JitDies PROVE CallsDisciplined'
  BY <1>5, <1>7
  DEF Loader, LoadOpen, LoadInstall, Remove, Compiler, JitRead, JitCompile,
      JitCompilePartial, JitReply, JitDies
<1>8. ASSUME HostRestart PROVE CallsDisciplined'
  BY <1>8 DEF HostRestart
<1> QED
  BY <1>1, <1>2, <1>5, <1>6, <1>7, <1>8 DEF Next, NewCall, RunEnds, vars

(* Every message about a removed object comes after its release.           *)
LEMMA RemovalsStep ==
    ASSUME IInv, [Next]_vars
    PROVE  RemovalsReleased'
<1> USE DEF RemovalsReleased, diskVars, libVars, tableVars, hostVars, threadVars
<1>a. inq \in Seq(Messages) /\ RemovalsReleased /\ CallsDisciplined
  BY DEF IInv, TypeOK, Discipline
<1>1. ASSUME UNCHANGED inq, released \subseteq released'
      PROVE  RemovalsReleased'
  BY <1>a, <1>1
<1>2. ASSUME NEW h \in Hashes, inq' = Append(inq, CompiledMsg(h)), UNCHANGED released
      PROVE  RemovalsReleased'
  BY <1>a, <1>2, MessageTypes, AppendQueue
<1>3. ASSUME NEW o \in released, o \in Objects, inq' = Append(inq, RemovedMsg(o)),
             UNCHANGED released
      PROVE  RemovalsReleased'
  BY <1>a, <1>3, MessageTypes, AppendQueue
<1>4. ASSUME inq # <<>>, inq' = Tail(inq), UNCHANGED released
      PROVE  RemovalsReleased'
  BY <1>a, <1>4, HeadTail
<1>5. ASSUME NEW t \in Threads, NEW o \in Objects, NewCall(t, o) \/ RunEnds(t, o)
      PROVE  RemovalsReleased'
  BY <1>1, <1>5 DEF NewCall, Lookup, Release, RunEnds
<1>6. ASSUME NEW t \in Threads, InCall(t) PROVE RemovalsReleased'
  <2>1. CASE CompileWriteback(t)
    <3>1. ProgOf[cur[t]] \in Hashes
      BY <1>a, <2>1, ProgOfAssumption DEF CompileWriteback, CallsDisciplined, Idle
    <3> QED
      BY <1>2, <2>1, <3>1 DEF CompileWriteback
  <2>2. CASE ReleaseSend(t)
    <3>1. cur[t] \in released /\ cur[t] \in Objects
      BY <1>a, <2>2 DEF ReleaseSend, CallsDisciplined, Idle
    <3> QED
      BY <1>3, <2>2, <3>1 DEF ReleaseSend
  <2>3. CASE ~CompileWriteback(t) /\ ~ReleaseSend(t)
    BY <1>1, <1>6, <2>3
    DEF InCall, ExecuteResult, FunctionsResult, CompileLink, CompileCheck, CompileAccess,
        CompileCreate, CompileWrite, CompileSend
  <2> QED
    BY <2>1, <2>2, <2>3
<1>7. ASSUME Loader PROVE RemovalsReleased'
  BY <1>1, <1>4, <1>7 DEF Loader, LoadOpen, LoadInstall, Remove
<1>8. ASSUME JitReply PROVE RemovalsReleased'
  <2>1. jitcomp.hash \in Hashes
    BY <1>8, JitcompStates DEF JitReply, IInv
  <2> QED
    BY <1>2, <1>8, <2>1 DEF JitReply
<1>9. ASSUME JitRead \/ JitCompile \/ JitCompilePartial \/ JitDies PROVE RemovalsReleased'
  BY <1>1, <1>9 DEF JitRead, JitCompile, JitCompilePartial, JitDies
<1>10. ASSUME HostRestart PROVE RemovalsReleased'
  BY <1>10 DEF HostRestart
<1> QED
  BY <1>1, <1>5, <1>6, <1>7, <1>8, <1>9, <1>10 DEF Next, Compiler, vars

(* Every step keeps the discipline.                                        *)
LEMMA DisciplineStep ==
    ASSUME IInv, [Next]_vars
    PROVE  Discipline'
<1> USE DEF CodeInUse, diskVars, libVars, tableVars, hostVars, threadVars
<1>a. /\ CallsDisciplined
      /\ running \in [Threads -> SUBSET Objects]
      /\ CodeInUse \cap released = {}
  BY DEF IInv, TypeOK, Discipline
<1>1. ASSUME NEW t \in Threads, NEW o \in Objects, Release(t, o)
      PROVE  (CodeInUse \cap released = {})'
  BY <1>a, <1>1 DEF Release, InUse
<1>2. ASSUME NEW t \in Threads, ExecuteResult(t) \/ FunctionsResult(t)
      PROVE  (CodeInUse \cap released = {})'
  <2>1. cur[t] \notin released
    BY <1>a, <1>2, Labels DEF ExecuteResult, FunctionsResult, CallsDisciplined
  <2>2. CASE ExecuteResult(t)
    BY <1>a, <2>1, <2>2 DEF ExecuteResult
  <2>3. CASE FunctionsResult(t)
    BY <1>a, <2>1, <2>3 DEF FunctionsResult
  <2> QED
    BY <1>2, <2>2, <2>3
<1>3. ASSUME NEW t \in Threads, NEW o \in Objects, RunEnds(t, o)
      PROVE  (CodeInUse \cap released = {})'
  BY <1>a, <1>3 DEF RunEnds
<1>4. ASSUME UNCHANGED hostVars
      PROVE  (CodeInUse \cap released = {})'
  BY <1>a, <1>4
<1>5. ASSUME HostRestart
      PROVE  (CodeInUse \cap released = {})'
  BY <1>5 DEF HostRestart
<1>6. (CodeInUse \cap released = {})'
  <2>1. CASE Loader \/ Compiler \/ JitDies
    BY <1>4, <2>1
    DEF Loader, LoadOpen, LoadInstall, Remove, Compiler, JitRead, JitCompile,
        JitCompilePartial, JitReply, JitDies
  <2>2. ASSUME NEW t \in Threads, InCall(t)
        PROVE  (CodeInUse \cap released = {})'
    BY <1>2, <1>4, <2>2
    DEF InCall, CompileLink, CompileCheck, CompileAccess, CompileWriteback,
        CompileCreate, CompileWrite, CompileSend, ReleaseSend
  <2>3. ASSUME NEW t \in Threads, NEW o \in Objects, NewCall(t, o)
        PROVE  (CodeInUse \cap released = {})'
    BY <1>1, <1>4, <2>3 DEF NewCall, Lookup
  <2> QED
    BY <1>3, <1>4, <1>5, <2>1, <2>2, <2>3 DEF Next, vars
<1> QED
  BY <1>6, CallsStep, RemovalsStep DEF Discipline

-----------------------------------------------------------------------------
(* The entries of the objects of calls                                     *)

(* Every step keeps the entries: whoever made the entry compiles it, and   *)
(* the loader removes no entry that a call is using.                       *)
LEMMA EntriesStep ==
    ASSUME IInv, [Next]_vars
    PROVE  Entries'
<1> USE Labels DEF Entries, diskVars, libVars, tableVars, hostVars, threadVars,
        Enter, Goto, Return
<1>a. ThreadTypes /\ CallsDisciplined /\ RemovalsReleased /\ Entries
      /\ inq \in Seq(Messages) /\ object \in [Objects -> {"absent", "unlinked", "linked"}]
  BY DEF IInv, TypeOK, ThreadTypes, Discipline
<1>b. Idle \notin LookupCalls \cup CompileCalls \cup {"release"}
  BY DEF Calls
<1> USE <1>a, <1>b DEF ThreadTypes
<1>1. ASSUME NEW t \in Threads, NEW o \in Objects, NEW call \in LookupCalls,
             Lookup(t, o, call)
      PROVE  Entries'
  <2>1. CASE o_find(o)
    BY <1>1, <2>1 DEF Lookup, o_find
  <2>2. CASE ~o_find(o)
    <3>1. object[o] = "absent" /\ object' = [object EXCEPT ![o] = "unlinked"]
          /\ Enter(t, "compile", o)
      BY <1>1, <2>2 DEF Lookup, o_find
    <3>2. \A u \in Threads : pc[u] \in LookupCalls \cup CompileCalls => cur[u] # o
      BY <3>1
    <3>3. \A u \in Threads : u # t => pc'[u] = pc[u] /\ cur'[u] = cur[u]
      BY <3>1
    <3>4. pc'[t] = "compile" /\ cur'[t] = o /\ object'[o] = "unlinked"
      BY <3>1
    <3>5. \A u \in Threads : pc[u] # Idle => cur[u] \in Objects
      BY DEF CallsDisciplined
    <3> QED
      BY <3>1, <3>2, <3>3, <3>4, <3>5
  <2> QED
    BY <2>1, <2>2
<1>2. ASSUME NEW t \in Threads, NEW o \in Objects, Release(t, o)
      PROVE  Entries'
  BY <1>2 DEF Release
<1>3. ASSUME NEW t \in Threads, CompileLink(t) PROVE Entries'
  <2>1. pc[t] = "compile" /\ cur[t] \in Objects /\ pc' = [pc EXCEPT ![t] = "linked"]
        /\ cur' = cur /\ object' = [object EXCEPT ![cur[t]] = "linked"]
    BY <1>3 DEF CompileLink, CallsDisciplined
  <2> QED
    BY <2>1 DEF CallsDisciplined
<1>4. ASSUME NEW t \in Threads, Return(t), UNCHANGED object PROVE Entries'
  BY <1>4
<1>5. ASSUME NEW t \in Threads, UNCHANGED object, pc[t] \in CompileCalls \ {"compile"},
             \E l \in CompileCalls \ {"compile"} : Goto(t, l)
      PROVE  Entries'
  BY <1>5
<1>6. ASSUME Remove PROVE Entries'
  <2>1. PICK o \in Objects : o = Head(inq).object /\ o \in released
    BY <1>6, HeadTail, MessageFields DEF Remove, RemovalsReleased
  <2>2. \A u \in Threads : pc[u] \in LookupCalls \cup CompileCalls => cur[u] # o
    BY <2>1 DEF CallsDisciplined
  <2>3. object' = [object EXCEPT ![o] = "absent"] /\ pc' = pc /\ cur' = cur
    BY <1>6, <2>1, RemoveEffect DEF Remove
  <2>4. \A u \in Threads : pc[u] \in LookupCalls \cup CompileCalls =>
            object'[cur[u]] = object[cur[u]]
    BY <2>2, <2>3 DEF CallsDisciplined
  <2> QED
    BY <2>3, <2>4
<1>7. ASSUME UNCHANGED <<object, pc, cur>> PROVE Entries'
  BY <1>7
<1>8. ASSUME HostRestart PROVE Entries'
  BY <1>8 DEF HostRestart
<1>9. ASSUME NEW t \in Threads, InCall(t) PROVE Entries'
  <2>1. CASE ExecuteResult(t) \/ FunctionsResult(t) \/ CompileWriteback(t)
               \/ CompileSend(t) \/ ReleaseSend(t)
    BY <1>4, <2>1 DEF ExecuteResult, FunctionsResult, CompileWriteback, CompileSend, ReleaseSend
  <2>2. CASE CompileCheck(t)
    BY <1>4, <1>5, <2>2 DEF CompileCheck
  <2>3. CASE CompileAccess(t)
    BY <1>5, <2>3 DEF CompileAccess
  <2>4. CASE CompileCreate(t)
    BY <1>4, <1>5, <2>4 DEF CompileCreate
  <2>5. CASE CompileWrite(t)
    BY <1>4, <1>5, <2>5 DEF CompileWrite
  <2> QED
    BY <1>3, <1>9, <2>1, <2>2, <2>3, <2>4, <2>5 DEF InCall
<1>10. ASSUME LoadOpen \/ LoadInstall \/ Compiler \/ JitDies PROVE Entries'
  BY <1>7, <1>10
  DEF LoadOpen, LoadInstall, Compiler, JitRead, JitCompile, JitCompilePartial, JitReply, JitDies
<1> QED
  BY <1>1, <1>2, <1>6, <1>7, <1>8, <1>9, <1>10 DEF Next, NewCall, Loader, RunEnds, vars

-----------------------------------------------------------------------------
(* Reference counts                                                        *)

(* Every step keeps the counts exact: jit_compile counts an object once,   *)
(* and o_del takes back what was counted.                                  *)
LEMMA RefCountsStep ==
    ASSUME IInv, [Next]_vars
    PROVE  RefCountsExact'
<1> USE ObjectsAssumption, ProgOfAssumption
        DEF diskVars, libVars, tableVars, hostVars, threadVars
<1>a. /\ RefCountsExact
      /\ refCount \in [Hashes -> Nat]
      /\ object \in [Objects -> {"absent", "unlinked", "linked"}]
      /\ inq \in Seq(Messages)
  BY DEF IInv, TypeOK
<1>1. ASSUME \A h \in Hashes : Referencing(h)' = Referencing(h), UNCHANGED refCount
      PROVE  RefCountsExact'
  BY <1>a, <1>1 DEF RefCountsExact
<1>2. ASSUME UNCHANGED <<object, refCount>>
      PROVE  RefCountsExact'
  BY <1>1, <1>2 DEF Referencing
<1>3. ASSUME NEW t \in Threads, NEW o \in Objects, NEW call \in LookupCalls,
             Lookup(t, o, call)
      PROVE  RefCountsExact'
  <2>1. \A h \in Hashes : Referencing(h)' = Referencing(h)
    BY <1>a, <1>3 DEF Lookup, o_find, Referencing
  <2> QED
    BY <1>1, <1>3, <2>1 DEF Lookup
<1>4. ASSUME NEW t \in Threads, CompileLink(t) PROVE RefCountsExact'
  <2>0. PICK o \in Objects : o = cur[t]
    BY <1>4, Labels DEF CompileLink, IInv, Discipline, CallsDisciplined, Calls
  <2> DEFINE g == ProgOf[o]
  <2>1. /\ g \in Hashes
        /\ object[o] = "unlinked"
        /\ object' = [object EXCEPT ![o] = "linked"]
        /\ refCount' = [refCount EXCEPT ![g] = @ + 1]
    BY <1>4, <2>0 DEF CompileLink, p_new, IInv, Entries
  <2>2. Referencing(g)' = Referencing(g) \cup {o} /\ o \notin Referencing(g)
    BY <1>a, <2>1 DEF Referencing
  <2>3. Cardinality(Referencing(g)') = Cardinality(Referencing(g)) + 1
    BY <2>2, ReferencingFinite, FS_AddElement
  <2>4. \A h \in Hashes : h # g => Referencing(h)' = Referencing(h)
    BY <1>a, <2>1 DEF Referencing
  <2> QED
    BY <1>a, <2>1, <2>3, <2>4 DEF RefCountsExact
<1>5. ASSUME Remove PROVE RefCountsExact'
  <2>0. PICK o \in Objects : o = Head(inq).object
    BY <1>a, <1>5, HeadTail, MessageFields DEF Remove
  <2> DEFINE g == ProgOf[o]
  <2>1. g \in Hashes /\ object' = [object EXCEPT ![o] = "absent"]
    BY <1>a, <1>5, <2>0, RemoveEffect
  <2>2. CASE object[o] = "linked"
    <3>1. refCount' = [refCount EXCEPT ![g] = @ - 1]
      BY <1>a, <1>5, <2>0, <2>2, RemoveEffect DEF p_del
    <3>2. Referencing(g)' = Referencing(g) \ {o} /\ o \in Referencing(g)
      BY <1>a, <2>1, <2>2 DEF Referencing
    <3>3. Cardinality(Referencing(g)') = Cardinality(Referencing(g)) - 1
      BY <3>2, ReferencingFinite, FS_RemoveElement
    <3>4. \A h \in Hashes : h # g => Referencing(h)' = Referencing(h)
      BY <1>a, <2>1 DEF Referencing
    <3> QED
      BY <1>a, <2>1, <3>1, <3>3, <3>4 DEF RefCountsExact
  <2>3. CASE object[o] # "linked"
    <3>1. \A h \in Hashes : Referencing(h)' = Referencing(h)
      BY <1>a, <2>1, <2>3 DEF Referencing
    <3>2. refCount' = refCount
      BY <1>a, <1>5, <2>0, <2>3, RemoveEffect
    <3> QED
      BY <1>a, <3>1, <3>2 DEF RefCountsExact
  <2> QED
    BY <2>2, <2>3
<1>6. ASSUME HostRestart PROVE RefCountsExact'
  <2>1. \A h \in Hashes : Referencing(h)' = {}
    BY <1>6 DEF HostRestart, Referencing
  <2> QED
    BY <1>6, <2>1, FS_EmptySet DEF HostRestart, RefCountsExact
<1>7. ASSUME NEW t \in Threads, InCall(t) PROVE RefCountsExact'
  BY <1>2, <1>4, <1>7
  DEF InCall, ExecuteResult, FunctionsResult, CompileCheck, CompileAccess, CompileWriteback,
      CompileCreate, CompileWrite, CompileSend, ReleaseSend
<1>8. ASSUME LoadOpen \/ LoadInstall \/ Compiler \/ JitDies PROVE RefCountsExact'
  BY <1>2, <1>8
  DEF LoadOpen, LoadInstall, Compiler, JitRead, JitCompile, JitCompilePartial, JitReply, JitDies
<1> QED
  BY <1>2, <1>3, <1>5, <1>6, <1>7, <1>8
  DEF Next, NewCall, Loader, Release, RunEnds, vars

-----------------------------------------------------------------------------
(* Libraries                                                               *)

(* Every step keeps the libraries: each dlclose() undoes a dlopen() that   *)
(* neither a function table nor the loader still relies on.                *)
LEMMA LibrariesStep ==
    ASSUME IInv, [Next]_vars
    PROVE  Libraries'
<1> USE HashesAssumption, ProgOfAssumption
        DEF diskVars, libVars, tableVars, hostVars, threadVars
<1>a. /\ Libraries
      /\ LibTypes
      /\ refCount \in [Hashes -> Nat]
      /\ functions \subseteq Hashes
      /\ loading \in Hashes \cup {NoHash}
      /\ so \in [Hashes -> {"absent", "good", "bad"}]
      /\ inq \in Seq(Messages)
      /\ object \in [Objects -> {"absent", "unlinked", "linked"}]
      /\ RefCountsExact
  BY DEF IInv, TypeOK, LibTypes
<1>1. ASSUME UNCHANGED <<refCount, functions, opened, mapped, loading>>
      PROVE  Libraries'
  BY <1>a, <1>1 DEF Libraries
<1>2. ASSUME NEW t \in Threads, CompileLink(t) PROVE Libraries'
  <2> DEFINE g == ProgOf[cur[t]]
  <2>1. /\ g \in Hashes
        /\ refCount' = [refCount EXCEPT ![g] = @ + 1]
        /\ functions' \subseteq functions
        /\ UNCHANGED <<opened, mapped, loading>>
    BY <1>2 DEF CompileLink, p_new, IInv, Discipline, CallsDisciplined, Idle
  <2> QED
    BY <1>a, <2>1 DEF Libraries
<1>3. ASSUME LoadOpen PROVE Libraries'
  <2> DEFINE g == Head(inq).hash
  <2>1. g \in Hashes /\ loading = NoHash /\ UNCHANGED <<refCount, functions>>
    BY <1>a, <1>3, HeadTail, MessageFields DEF LoadOpen
  <2>2. CASE so[g] # "absent" /\ dlopen(g) /\ loading' = g
    <3>1. opened' = [opened EXCEPT ![g] = @ + 1]
          /\ mapped' = [mapped EXCEPT ![g] = IF opened[g] = 0 THEN so[g] ELSE @]
          /\ so[g] \in {"good", "bad"}
      BY <1>a, <2>1, <2>2 DEF dlopen
    <3>2. \A h \in Hashes \ {g} : opened'[h] = opened[h] /\ mapped'[h] = mapped[h]
      BY <1>a, <3>1 DEF LibTypes
    <3>3. opened'[g] = opened[g] + 1 /\ mapped'[g] # "none"
      BY <1>a, <2>1, <3>1 DEF Libraries, LibTypes
    <3>4. \A h \in Hashes : opened[h] \in Nat
      BY <1>a DEF LibTypes
    <3> QED
      BY <1>a, <2>1, <2>2, <3>2, <3>3, <3>4 DEF Libraries
  <2>3. CASE UNCHANGED <<libVars, loading>>
    BY <1>1, <2>1, <2>3
  <2> QED
    BY <1>3, <2>2, <2>3 DEF LoadOpen
<1>4. ASSUME LoadInstall PROVE Libraries'
  <2>1. loading \in Hashes /\ loading' = NoHash /\ UNCHANGED refCount
    BY <1>a, <1>4 DEF LoadInstall
  <2>2. CASE p_find(loading)
    <3>1. functions' = functions \cup {loading} /\ UNCHANGED <<opened, mapped>>
      BY <1>4, <2>2 DEF LoadInstall
    <3> QED
      BY <1>a, <2>1, <2>2, <3>1 DEF Libraries, p_find
  <2>3. CASE ~p_find(loading)
    <3>1. /\ functions' = functions
          /\ opened' = [opened EXCEPT ![loading] = @ - 1]
          /\ mapped' = [mapped EXCEPT ![loading] = IF opened[loading] = 1 THEN "none" ELSE @]
      BY <1>4, <2>3 DEF LoadInstall, dlclose
    <3>2. loading \notin functions /\ opened[loading] >= 1
      BY <1>a, <2>1, <2>3 DEF Libraries, p_find
    <3>3. \A h \in Hashes \ {loading} : opened'[h] = opened[h] /\ mapped'[h] = mapped[h]
      BY <1>a, <3>1 DEF LibTypes
    <3>4. opened'[loading] = opened[loading] - 1
          /\ (mapped'[loading] = "none" => opened[loading] = 1 \/ mapped[loading] = "none")
      BY <1>a, <2>1, <3>1 DEF LibTypes
    <3>5. mapped'[loading] = "none" => opened'[loading] = 0
      BY <1>a, <2>1, <3>2, <3>4 DEF Libraries, LibTypes
    <3> QED
      BY <1>a, <2>1, <3>1, <3>2, <3>3, <3>5 DEF Libraries
  <2> QED
    BY <2>2, <2>3
<1>5. ASSUME Remove PROVE Libraries'
  <2>0. PICK o \in Objects : o = Head(inq).object
    BY <1>a, <1>5, HeadTail, MessageFields DEF Remove
  <2> DEFINE g == ProgOf[o]
  <2>1. g \in Hashes /\ loading = NoHash /\ UNCHANGED loading
    BY <1>5 DEF Remove
  <2>a. /\ object[o] = "linked" => p_del(ProgOf[o])
        /\ object[o] # "linked" => UNCHANGED <<refCount, functions, opened, mapped>>
    BY <1>a, <1>5, <2>0, RemoveEffect
  <2>2. CASE object[o] = "linked" /\ refCount[g] = 1
    <3>1. refCount' = [refCount EXCEPT ![g] = @ - 1] /\ functions' = functions \ {g}
          /\ IF g \in functions THEN dlclose(g) ELSE UNCHANGED libVars
      BY <2>a, <2>2 DEF p_del
    <3>2. \A h \in Hashes \ {g} :
             opened'[h] = opened[h] /\ mapped'[h] = mapped[h] /\ refCount'[h] = refCount[h]
      BY <1>a, <3>1 DEF LibTypes, dlclose
    <3>3. mapped'[g] = "none" => opened'[g] = 0
      <4>1. CASE g \in functions
        <5>1. opened[g] >= 1 /\ opened[g] \in Nat
          BY <1>a, <2>1, <4>1 DEF Libraries, LibTypes
        <5>2. opened'[g] = opened[g] - 1
              /\ mapped'[g] = IF opened[g] = 1 THEN "none" ELSE mapped[g]
          BY <1>a, <2>1, <3>1, <4>1 DEF LibTypes, dlclose
        <5> QED
          BY <1>a, <2>1, <5>1, <5>2 DEF Libraries
      <4>2. CASE g \notin functions
        BY <1>a, <2>1, <3>1, <4>2 DEF Libraries
      <4> QED
        BY <4>1, <4>2
    <3> QED
      BY <1>a, <2>1, <3>1, <3>2, <3>3 DEF Libraries
  <2>3. CASE object[o] = "linked" /\ refCount[g] # 1
    <3>1. refCount' = [refCount EXCEPT ![g] = @ - 1]
          /\ UNCHANGED <<functions, opened, mapped, loading>>
      BY <2>a, <2>1, <2>3 DEF p_del
    <3>2. refCount[g] > 1
      BY <1>a, <2>1, <2>3, LinkedCounted
    <3> QED
      BY <1>a, <2>1, <3>1, <3>2 DEF Libraries
  <2>4. CASE object[o] # "linked"
    BY <1>1, <2>a, <2>1, <2>4
  <2> QED
    BY <2>2, <2>3, <2>4
<1>6. ASSUME HostRestart PROVE Libraries'
  BY <1>6 DEF HostRestart, Libraries
<1>7. ASSUME NEW t \in Threads, InCall(t) PROVE Libraries'
  BY <1>1, <1>2, <1>7
  DEF InCall, ExecuteResult, FunctionsResult, CompileCheck, CompileAccess, CompileWriteback,
      CompileCreate, CompileWrite, CompileSend, ReleaseSend
<1>8. ASSUME NEW t \in Threads, NEW o \in Objects, NewCall(t, o) \/ RunEnds(t, o)
      PROVE  Libraries'
  BY <1>1, <1>8 DEF NewCall, Lookup, Release, RunEnds
<1>9. ASSUME Compiler \/ JitDies PROVE Libraries'
  BY <1>1, <1>9
  DEF Compiler, JitRead, JitCompile, JitCompilePartial, JitReply, JitDies
<1> QED
  BY <1>1, <1>3, <1>4, <1>5, <1>6, <1>7, <1>8, <1>9 DEF Next, Loader, vars

-----------------------------------------------------------------------------
(* Native code in use                                                      *)

(* No step takes the function table from an object that is not released,   *)
(* even when the loader removes another object of the same program.        *)
LEMMA FunctionsKept ==
    ASSUME IInv, Next, ~HostRestart, NEW o \in Objects, o \notin released, HasFunctions(o)
    PROVE  HasFunctions(o)'
<1> USE ProgOfAssumption
        DEF HasFunctions, diskVars, libVars, tableVars, hostVars, threadVars
<1>a. /\ object \in [Objects -> {"absent", "unlinked", "linked"}]
      /\ inq \in Seq(Messages)
      /\ RefCountsExact /\ Libraries /\ RemovalsReleased /\ CallsDisciplined /\ Entries
  BY DEF IInv, TypeOK, Discipline
<1>1. ASSUME object'[o] = object[o], functions \subseteq functions'
      PROVE  HasFunctions(o)'
  BY <1>1
<1>2. ASSUME NEW t \in Threads, NEW p \in Objects, NewCall(t, p) \/ RunEnds(t, p)
      PROVE  HasFunctions(o)'
  BY <1>a, <1>2 DEF NewCall, Lookup, o_find, Release, RunEnds
<1>3. ASSUME NEW t \in Threads, CompileLink(t) PROVE HasFunctions(o)'
  <2>1. object'[o] = "linked"
    BY <1>a, <1>3 DEF CompileLink
  <2>2. functions' = functions
    BY <1>a, <1>3 DEF CompileLink, p_new, p_find, Libraries, CallsDisciplined, Idle
  <2> QED
    BY <2>1, <2>2
<1>4. ASSUME Remove PROVE HasFunctions(o)'
  <2>0. PICK p \in Objects : p = Head(inq).object /\ p \in released
    BY <1>a, <1>4, HeadTail, MessageFields DEF Remove, RemovalsReleased
  <2>a. /\ object' = [object EXCEPT ![p] = "absent"]
        /\ object[p] = "linked" => p_del(ProgOf[p])
        /\ object[p] # "linked" => UNCHANGED <<refCount, functions, opened, mapped>>
    BY <1>a, <1>4, <2>0, RemoveEffect
  <2>1. object'[o] = "linked" /\ p # o
    BY <1>a, <2>a, <2>0
  <2>2. CASE object[p] = "linked" /\ ProgOf[p] = ProgOf[o]
    <3>1. refCount[ProgOf[p]] # 1
      BY <1>a, <2>1, <2>2, TwoCounted DEF IInv, TypeOK
    <3> QED
      BY <2>a, <2>1, <2>2, <3>1 DEF p_del
  <2>3. CASE object[p] # "linked" \/ ProgOf[p] # ProgOf[o]
    BY <2>a, <2>1, <2>3 DEF p_del
  <2> QED
    BY <2>2, <2>3
<1>5. ASSUME NEW t \in Threads, InCall(t) PROVE HasFunctions(o)'
  BY <1>1, <1>3, <1>5
  DEF InCall, ExecuteResult, FunctionsResult, CompileCheck, CompileAccess, CompileWriteback,
      CompileCreate, CompileWrite, CompileSend, ReleaseSend
<1>6. ASSUME LoadOpen \/ LoadInstall \/ Compiler \/ JitDies PROVE HasFunctions(o)'
  BY <1>1, <1>6
  DEF LoadOpen, LoadInstall, Compiler, JitRead, JitCompile, JitCompilePartial, JitReply, JitDies
<1> QED
  BY <1>2, <1>4, <1>5, <1>6 DEF Next, Loader

(* Code comes into use only where a function table was found.              *)
LEMMA UseStep ==
    ASSUME IInv, Next, ~HostRestart
    PROVE  \A o \in CodeInUse' : o \in CodeInUse \/ HasFunctions(o)
<1> USE DEF CodeInUse, diskVars, libVars, tableVars, hostVars, threadVars
<1>a. running \in [Threads -> SUBSET Objects]
  BY DEF IInv, TypeOK
<1>1. ASSUME NEW t \in Threads, NEW o \in Objects, NewCall(t, o) \/ RunEnds(t, o)
      PROVE  CodeInUse' \subseteq CodeInUse
  BY <1>a, <1>1 DEF NewCall, Lookup, Release, RunEnds
<1>2. ASSUME NEW t \in Threads, ExecuteResult(t)
      PROVE  \A o \in CodeInUse' : o \in CodeInUse \/ HasFunctions(o)
  BY <1>a, <1>2 DEF ExecuteResult
<1>3. ASSUME NEW t \in Threads, FunctionsResult(t)
      PROVE  \A o \in CodeInUse' : o \in CodeInUse \/ HasFunctions(o)
  BY <1>a, <1>3 DEF FunctionsResult
<1>4. ASSUME NEW t \in Threads, InCall(t), ~ExecuteResult(t), ~FunctionsResult(t)
      PROVE  UNCHANGED CodeInUse
  BY <1>4
  DEF InCall, CompileLink, CompileCheck, CompileAccess, CompileWriteback,
      CompileCreate, CompileWrite, CompileSend, ReleaseSend
<1>5. ASSUME Loader \/ Compiler \/ JitDies PROVE UNCHANGED CodeInUse
  BY <1>5
  DEF Loader, LoadOpen, LoadInstall, Remove, Compiler, JitRead, JitCompile,
      JitCompilePartial, JitReply, JitDies
<1> QED
  BY <1>1, <1>2, <1>3, <1>4, <1>5 DEF Next

(* Every step keeps the code in use reachable.                             *)
LEMMA InUseLinkedStep ==
    ASSUME IInv, [Next]_vars
    PROVE  InUseLinked'
<1>1. CASE UNCHANGED vars
  BY <1>1 DEF IInv, InUseLinked, CodeInUse, HasFunctions, vars, tableVars, hostVars
<1>2. CASE HostRestart
  BY <1>2 DEF HostRestart, InUseLinked, CodeInUse
<1>3. CASE Next /\ ~HostRestart
  <2>1. SUFFICES ASSUME NEW o \in CodeInUse' PROVE HasFunctions(o)'
    BY DEF InUseLinked
  <2>2. HasFunctions(o)
    BY <1>3, <2>1, UseStep DEF IInv, InUseLinked
  <2>3. o \in Objects /\ o \notin released
    <3>1. o \in CodeInUse' /\ (CodeInUse \cap released = {})'
      BY <2>1, DisciplineStep DEF Discipline
    <3>2. o \notin released'
      BY <3>1
    <3>3. released \subseteq released'
      BY <1>3
      DEF Next, NewCall, Lookup, Release, RunEnds, InCall, ExecuteResult, FunctionsResult,
          CompileLink, CompileCheck, CompileAccess, CompileWriteback, CompileCreate,
          CompileWrite, CompileSend, ReleaseSend, Loader, LoadOpen, LoadInstall, Remove,
          Compiler, JitRead, JitCompile, JitCompilePartial, JitReply, JitDies, hostVars
    <3>4. o \in Objects
      BY <2>1, TypeStep DEF TypeOK, CodeInUse
    <3> QED
      BY <3>2, <3>3, <3>4
  <2> QED
    BY <1>3, <2>2, <2>3, FunctionsKept
<1> QED
  BY <1>1, <1>2, <1>3

-----------------------------------------------------------------------------
(* The theorems                                                            *)

(* The initial states satisfy the inductive invariant.                     *)
LEMMA InitIInv ==
    ASSUME Init
    PROVE  IInv
<1>1. TypeOK
  <2>1. inq \in Seq(Messages) /\ outq \in Seq(Hashes)
    BY EmptyQueue DEF Init, FreshProcess
  <2> QED
    BY <2>1 DEF Init, FreshProcess, TypeOK
<1>2. Discipline
  BY DEF Init, FreshProcess, Discipline, CallsDisciplined, RemovalsReleased, CodeInUse,
         CompileCalls, LookupCalls, Idle
<1>3. Entries
  BY DEF Init, FreshProcess, Entries, CompileCalls, LookupCalls, Idle
<1>4. RefCountsExact
  <2>1. \A h \in Hashes : Referencing(h) = {}
    BY DEF Init, FreshProcess, Referencing
  <2> QED
    BY <2>1, FS_EmptySet DEF Init, FreshProcess, RefCountsExact
<1>5. Libraries
  BY HashesAssumption DEF Init, FreshProcess, Libraries
<1>6. InUseLinked
  BY DEF Init, FreshProcess, InUseLinked, CodeInUse
<1> QED
  BY <1>1, <1>2, <1>3, <1>4, <1>5, <1>6 DEF IInv

(* The inductive invariant holds throughout, for any number of threads and *)
(* objects and under every fault.                                          *)
THEOREM Invariance == Spec => []IInv
<1>1. Init => IInv
  BY InitIInv
<1>2. IInv /\ [Next]_vars => IInv'
  BY TypeStep, DisciplineStep, EntriesStep, RefCountsStep, LibrariesStep, InUseLinkedStep
  DEF IInv
<1> QED
  BY <1>1, <1>2, PTL DEF Spec

(* Type correctness: no count of references or of dlopen() calls goes      *)
(* below zero (p_del, DLL_CLOSE).                                          *)
THEOREM TypeCorrect == Spec => []TypeOK
<1>1. IInv => TypeOK
  BY DEF IInv
<1> QED
  BY <1>1, Invariance, PTL

(* Program.refCount is the number of objects that point to the program.    *)
THEOREM CountsExact == Spec => []RefCountsExact
<1>1. IInv => RefCountsExact
  BY DEF IInv
<1> QED
  BY <1>1, Invariance, PTL

(* The pointers that jit_execute, jit_functions and jit_compile use after  *)
(* MUTEX_UNLOCK still point to live entries.                               *)
THEOREM PointersStayValid == Spec => []PointersValid
<1>1. ASSUME IInv PROVE PointersValid
  <2>1. SUFFICES ASSUME NEW t \in Threads
                 PROVE  /\ pc[t] \in LookupCalls \cup CompileCalls => o_find(cur[t])
                        /\ pc[t] \in CompileCalls \ {"compile"} => p_find(ProgOf[cur[t]])
    BY DEF PointersValid
  <2>2. pc[t] \in LookupCalls \cup CompileCalls => o_find(cur[t])
    BY <1>1 DEF IInv, Entries, o_find
  <2>3. pc[t] \in CompileCalls \ {"compile"} => p_find(ProgOf[cur[t]])
    BY <1>1, LinkedCounted, Labels
    DEF IInv, Entries, p_find, Discipline, CallsDisciplined
  <2> QED
    BY <2>2, <2>3
<1> QED
  BY <1>1, Invariance, PTL

(* A function table that can be reached has its library mapped.            *)
THEOREM TablesStayMapped == Spec => []TablesMapped
<1>1. IInv => TablesMapped
  BY DEF IInv, TypeOK, Libraries, TablesMapped
<1> QED
  BY <1>1, Invariance, PTL

(* Native code in use stays mapped until its object is released, whatever  *)
(* the loader, the compiler and the other threads do.                      *)
THEOREM CodeInUseStaysMapped == Spec => []CodeInUseMapped
<1>1. ASSUME IInv PROVE CodeInUseMapped
  <2>1. SUFFICES ASSUME NEW o \in CodeInUse
                 PROVE  HasFunctions(o) /\ mapped[ProgOf[o]] # "none"
    BY DEF CodeInUseMapped
  <2>2. HasFunctions(o)
    BY <1>1 DEF IInv, InUseLinked
  <2>3. \A h \in functions : mapped[h] # "none"
    BY <1>1 DEF IInv, TypeOK, Libraries
  <2> QED
    BY <2>2, <2>3 DEF HasFunctions
<1> QED
  BY <1>1, Invariance, PTL

-----------------------------------------------------------------------------
(* The promise to the host                                                 *)

(* The state of NativeCode, read off that of the module.                   *)
Known == {o \in Objects : o_find(o)}
Asked == {<<t, cur[t]>> : t \in {u \in Threads : pc[u] = "compile"}}
Native == {o \in Objects : HasFunctions(o)}

(* Every function table has its library mapped, so that objects with a     *)
(* function table are all there is to native code.                         *)
LEMMA NativeIsMapped ==
    ASSUME IInv
    PROVE  {o \in Objects : HasFunctions(o) /\ mapped[ProgOf[o]] # "none"} = Native
<1>1. \A h \in functions : mapped[h] # "none"
  BY DEF IInv, TypeOK, Libraries
<1> QED
  BY <1>1 DEF Native, HasFunctions

(* What the host sees of a step: an action of NativeCode, or nothing.      *)
Asking(t, o) ==
    \/ /\ o \notin Known \cup released                      \* Announce
       /\ Known' = Known \cup {o} /\ Asked' = Asked \cup {<<t, o>>}
       /\ UNCHANGED <<Native, CodeInUse, released>>
    \/ /\ <<t, o>> \in Asked                                \* Compile
       /\ Asked' = Asked \ {<<t, o>>} /\ Native' \in {Native, Native \cup {o}}
       /\ UNCHANGED <<Known, CodeInUse, released>>

Seen(o) ==
    \/ /\ o \in Native \ released                           \* Use
       /\ CodeInUse' = CodeInUse \cup {o}
       /\ UNCHANGED <<Known, Asked, Native, released>>
    \/ /\ CodeInUse' = CodeInUse \ {o}                      \* Leave
       /\ UNCHANGED <<Known, Asked, Native, released>>
    \/ /\ released' = released \cup {o}                     \* GiveUp
       /\ CodeInUse' = CodeInUse \ {o}
       /\ UNCHANGED <<Known, Asked, Native>>
    \/ /\ o \in released                                    \* Forget
       /\ \A t \in Threads : <<t, o>> \notin Asked
       /\ Known' = Known \ {o} /\ Native' = Native \ {o}
       /\ UNCHANGED <<Asked, CodeInUse, released>>

Provided ==
    /\ \E objs \in SUBSET Objects : objs \subseteq Known /\ Native' = Native \cup objs
    /\ UNCHANGED <<Known, Asked, CodeInUse, released>>

Unseen == UNCHANGED <<Known, Asked, Native, CodeInUse, released>>

(* A lookup announces an object or is not seen; a release is one.          *)
LEMMA NewCallSeen ==
    ASSUME IInv, NEW t \in Threads, NEW o \in Objects, NewCall(t, o) \/ RunEnds(t, o)
    PROVE  Asking(t, o) \/ Seen(o) \/ Unseen
<1> USE DEF Known, Asked, Native, CodeInUse, o_find, HasFunctions,
            diskVars, libVars, tableVars, hostVars, threadVars
<1>a. /\ ThreadTypes /\ running \in [Threads -> SUBSET Objects]
      /\ object \in [Objects -> {"absent", "unlinked", "linked"}]
  BY DEF IInv, TypeOK, ThreadTypes
<1>b. Idle # "compile"
  BY DEF Idle
<1>1. ASSUME NEW call \in LookupCalls, Lookup(t, o, call) PROVE Asking(t, o) \/ Unseen
  <2>1. CASE object[o] = "absent"
    <3>1. object' = [object EXCEPT ![o] = "unlinked"] /\ Enter(t, "compile", o)
          /\ pc[t] # "compile" /\ UNCHANGED <<functions, tables, running, released>>
          /\ o \notin released
      BY <1>1, <1>b, <2>1 DEF Lookup
    <3>2. Asked' = Asked \cup {<<t, o>>}
      BY <1>a, <3>1 DEF Enter, ThreadTypes
    <3>3. Known' = Known \cup {o} /\ Native' = Native
      BY <1>a, <2>1, <3>1
    <3> QED
      BY <2>1, <3>1, <3>2, <3>3 DEF Asking
  <2>2. CASE object[o] # "absent"
    <3>1. Enter(t, call, o) /\ pc[t] # "compile" /\ call # "compile"
          /\ UNCHANGED <<object, functions, tables, running, released>>
      BY <1>1, <1>b, <2>2 DEF Lookup, LookupCalls
    <3>2. Asked' = Asked
      BY <1>a, <3>1 DEF Enter, ThreadTypes
    <3> QED
      BY <3>1, <3>2 DEF Unseen
  <2> QED
    BY <2>1, <2>2
<1>2. ASSUME Release(t, o) PROVE Seen(o)
  <2>1. Asked' = Asked
    BY <1>a, <1>b, <1>2 DEF Release, Enter, ThreadTypes
  <2>2. CodeInUse' = CodeInUse \ {o}
    BY <1>2 DEF Release, InUse
  <2> QED
    BY <1>2, <2>1, <2>2 DEF Release, Seen
<1>3. ASSUME RunEnds(t, o) PROVE Seen(o) \/ Unseen
  <2>1. CodeInUse' = CodeInUse \/ CodeInUse' = CodeInUse \ {o}
    BY <1>a, <1>3 DEF RunEnds
  <2> QED
    BY <1>3, <2>1 DEF RunEnds, Seen, Unseen
<1> QED
  BY <1>1, <1>2, <1>3 DEF NewCall

(* A step inside a call uses code, compiles, or is not seen.               *)
LEMMA InCallSeen ==
    ASSUME IInv, NEW t \in Threads, InCall(t)
    PROVE  Unseen \/ \E o \in Objects : Asking(t, o) \/ Seen(o)
<1> USE DEF Known, Asked, Native, CodeInUse, o_find, HasFunctions,
            diskVars, libVars, tableVars, hostVars, threadVars
<1>a. /\ ThreadTypes /\ running \in [Threads -> SUBSET Objects]
      /\ object \in [Objects -> {"absent", "unlinked", "linked"}]
      /\ CallsDisciplined /\ Entries /\ Libraries
      /\ functions \subseteq Hashes
  BY DEF IInv, TypeOK, ThreadTypes, Discipline
<1>b. Idle # "compile"
  BY DEF Idle
<1>1. ASSUME NEW o \in Objects, o = cur[t], ExecuteResult(t) \/ FunctionsResult(t)
      PROVE  Unseen \/ Seen(o)
  <2>1. o \in Objects \ released /\ pc[t] # "compile"
        /\ Return(t) /\ UNCHANGED <<object, functions, released>>
    BY <1>a, <1>1, Labels DEF ExecuteResult, FunctionsResult, CallsDisciplined, Calls
  <2>2. Asked' = Asked
    BY <1>a, <1>b, <2>1 DEF Return, ThreadTypes
  <2>3. CASE HasFunctions(o)
    <3>1. CodeInUse' = CodeInUse \cup {o}
      BY <1>a, <1>1, <2>3 DEF ExecuteResult, FunctionsResult
    <3> QED
      BY <2>1, <2>2, <2>3, <3>1 DEF Seen
  <2>4. CASE ~HasFunctions(o)
    <3>1. CodeInUse' = CodeInUse
      BY <1>a, <1>1, <2>4 DEF ExecuteResult, FunctionsResult
    <3> QED
      BY <2>1, <2>2, <3>1 DEF Unseen
  <2> QED
    BY <2>3, <2>4
<1>2. ASSUME NEW o \in Objects, o = cur[t], CompileLink(t) PROVE Asking(t, o)
  <2>1. /\ pc[t] = "compile" /\ object[o] = "unlinked"
        /\ object' = [object EXCEPT ![o] = "linked"]
        /\ pc' = [pc EXCEPT ![t] = "linked"] /\ cur' = cur
        /\ UNCHANGED <<tables, running, released>>
    BY <1>a, <1>2 DEF CompileLink, Goto, Entries
  <2>2. functions' = functions
    BY <1>a, <1>2 DEF CompileLink, p_new, p_find, Libraries
  <2>3. <<t, o>> \in Asked /\ Asked' = Asked \ {<<t, o>>}
    <3>2. \A u \in Threads : u # t => pc'[u] = pc[u]
      BY <1>a, <2>1 DEF ThreadTypes
    <3>3. pc'[t] # "compile"
      BY <1>a, <2>1 DEF ThreadTypes
    <3> QED
      BY <1>2, <2>1, <3>2, <3>3
  <2>4. Known' = Known /\ Native' \in {Native, Native \cup {o}}
    BY <1>a, <2>1, <2>2
  <2> QED
    BY <2>1, <2>3, <2>4 DEF Asking
<1>3. ASSUME pc[t] # "compile", Return(t) \/ (\E l \in Calls \ {"compile"} : Goto(t, l)),
             UNCHANGED <<object, functions, tables, running, released>>
      PROVE  Unseen
  <2>1. Asked' = Asked
    BY <1>a, <1>b, <1>3 DEF Return, Goto, ThreadTypes
  <2> QED
    BY <1>3, <2>1 DEF Unseen
<1>4. CASE CompileCheck(t) \/ CompileAccess(t) \/ CompileWriteback(t)
  BY <1>3, <1>4, Labels DEF CompileCheck, CompileAccess, CompileWriteback
<1>5. CASE CompileCreate(t) \/ CompileWrite(t)
  BY <1>3, <1>5, Labels DEF CompileCreate, CompileWrite
<1>6. CASE CompileSend(t) \/ ReleaseSend(t)
  BY <1>3, <1>6 DEF CompileSend, ReleaseSend
<1>7. ASSUME ExecuteResult(t) \/ FunctionsResult(t) \/ CompileLink(t) PROVE cur[t] \in Objects
  BY <1>a, <1>7, Labels DEF ExecuteResult, FunctionsResult, CompileLink, CallsDisciplined, Calls
<1>8. CASE ExecuteResult(t) \/ FunctionsResult(t)
  BY <1>1, <1>7, <1>8
<1>9. CASE CompileLink(t)
  BY <1>2, <1>7, <1>9
<1> QED
  BY <1>4, <1>5, <1>6, <1>8, <1>9 DEF InCall

(* The loader provides native code, forgets an object, or is not seen.     *)
LEMMA LoaderSeen ==
    ASSUME IInv, Loader
    PROVE  Unseen \/ Provided \/ \E o \in Objects : Seen(o)
<1> USE DEF Known, Asked, Native, CodeInUse, o_find, HasFunctions,
            diskVars, libVars, tableVars, hostVars, threadVars
<1>a. /\ object \in [Objects -> {"absent", "unlinked", "linked"}]
      /\ inq \in Seq(Messages)
      /\ RefCountsExact /\ CallsDisciplined /\ RemovalsReleased
      /\ CodeInUse \cap released = {}
  BY DEF IInv, TypeOK, Discipline
<1>1. CASE LoadOpen
  BY <1>1 DEF LoadOpen, Unseen
<1>2. ASSUME LoadInstall PROVE Provided
  <2> DEFINE objs == {o \in Objects : object[o] = "linked" /\ ProgOf[o] = loading}
  <2>1. functions' = functions \/ functions' = functions \cup {loading}
    BY <1>2 DEF LoadInstall
  <2>2. UNCHANGED <<object, tables, running, released, pc, cur>>
    BY <1>2 DEF LoadInstall
  <2>3. objs \subseteq Known
    OBVIOUS
  <2>4. Native' = Native \cup {} \/ Native' = Native \cup objs
    BY <2>1, <2>2
  <2>5. UNCHANGED <<Known, Asked, CodeInUse, released>>
    BY <2>2
  <2> QED
    BY <2>3, <2>4, <2>5 DEF Provided
<1>3. ASSUME Remove PROVE \E o \in Objects : Seen(o)
  <2>0. PICK o \in Objects : o = Head(inq).object /\ o \in released
    BY <1>a, <1>3, HeadTail, MessageFields DEF Remove, RemovalsReleased
  <2>1. object' = [object EXCEPT ![o] = "absent"]
        /\ UNCHANGED <<tables, running, released, pc, cur>>
    BY <1>a, <1>3, <2>0, RemoveEffect DEF Remove
  <2>a. /\ object[o] = "linked" => p_del(ProgOf[o])
        /\ object[o] # "linked" => UNCHANGED functions
    BY <1>a, <1>3, <2>0, RemoveEffect
  <2>2. \A t \in Threads : <<t, o>> \notin Asked
    BY <1>a, <2>0, Labels DEF CallsDisciplined
  <2>3. Known' = Known \ {o}
    BY <1>a, <2>1
  <2>4. Native' = Native \ {o}
    <3>1. CASE object[o] = "linked" /\ refCount[ProgOf[o]] = 1
      <4>1. functions' = functions \ {ProgOf[o]}
        BY <2>a, <3>1 DEF p_del
      <4>2. \A p \in Objects : object[p] = "linked" /\ ProgOf[p] = ProgOf[o] => p = o
        BY <1>a, <3>1, TwoCounted
      <4> QED
        BY <1>a, <2>1, <4>1, <4>2
    <3>2. CASE ~(object[o] = "linked" /\ refCount[ProgOf[o]] = 1)
      <4>1. functions' = functions
        BY <2>a, <3>2 DEF p_del
      <4> QED
        BY <1>a, <2>1, <4>1
    <3> QED
      BY <3>1, <3>2
  <2> QED
    BY <2>0, <2>1, <2>2, <2>3, <2>4 DEF Seen
<1> QED
  BY <1>1, <1>2, <1>3 DEF Loader

(* The module implements NativeCode: an object is announced to the host    *)
(* once, native code only appears for announced objects, and it is taken   *)
(* away only from released objects, or by the end of the process.          *)
THEOREM PromiseKept == Spec => KeepsPromise
<1>1. Init => Promise!Init
  BY DEF Init, FreshProcess, Promise!Init, o_find, HasFunctions, CodeInUse, Idle
<1>2. IInv /\ IInv' /\ [Next]_vars => [Promise!Next]_(Promise!vars)
  <2>1. SUFFICES ASSUME IInv, IInv', [Next]_vars
                 PROVE  [Promise!Next]_(Promise!vars)
    OBVIOUS
  <2>2. {o \in Objects : HasFunctions(o) /\ mapped[ProgOf[o]] # "none"} = Native
    BY <2>1, NativeIsMapped
  <2>3. ({o \in Objects : HasFunctions(o) /\ mapped[ProgOf[o]] # "none"})' = Native'
    <3>1. (\A h \in functions : mapped[h] # "none")'
      BY <2>1 DEF IInv, TypeOK, Libraries
    <3> QED
      BY <3>1 DEF Native, HasFunctions
  <2> DEFINE barred == <<Known, Asked, Native, CodeInUse, released>>
  <2>4. CASE Unseen
    BY <2>2, <2>3, <2>4 DEF Unseen, Known, Asked, Promise!vars
  <2>5. CASE Provided
    BY <2>2, <2>3, <2>5 DEF Provided, Known, Asked, Promise!Next, Promise!Provide
  <2>6. ASSUME NEW o \in Objects, Seen(o) PROVE Promise!Next
    BY <2>2, <2>3, <2>6
    DEF Seen, Known, Asked, Promise!Next, Promise!Use, Promise!Leave, Promise!GiveUp,
        Promise!Forget
  <2>9. ASSUME NEW t \in Threads, NEW o \in Objects, Asking(t, o) PROVE Promise!Next
    BY <2>2, <2>3, <2>9
    DEF Asking, Known, Asked, Promise!Next, Promise!Announce, Promise!Compile
  <2>7. CASE HostRestart
    <3>1. Known' = {} /\ Asked' = {} /\ Native' = {} /\ CodeInUse' = {} /\ released' = {}
      BY <2>7 DEF HostRestart, Known, Asked, Native, CodeInUse, o_find, HasFunctions, Idle
    <3> QED
      BY <2>2, <2>3, <3>1 DEF Known, Asked, Promise!Next, Promise!Restart
  <2>8. CASE Compiler \/ JitDies \/ UNCHANGED vars
    <3>1. UNCHANGED <<object, functions, tables, running, released, pc, cur>>
      BY <2>8 DEF Compiler, JitRead, JitCompile, JitCompilePartial, JitReply, JitDies,
                  vars, tableVars, hostVars, threadVars
    <3> QED
      BY <2>4, <3>1 DEF Unseen, Known, Asked, Native, CodeInUse, o_find, HasFunctions
  <2> QED
    BY <2>1, <2>4, <2>5, <2>6, <2>7, <2>8, <2>9, NewCallSeen, InCallSeen, LoaderSeen DEF Next
<1> QED
  BY <1>1, <1>2, Invariance, PTL DEF Spec, KeepsPromise, Promise!Spec

-----------------------------------------------------------------------------
(* One thread                                                              *)

(* What the JIT cache guarantees about the files of its programs when the  *)
(* host has one thread (DGD): access(), open() and write() of jit_compile  *)
(* then have no other call of jit_compile between them.  Crashes and disk  *)
(* errors are still possible at any moment.                                *)
SingleThread == \A t, u \in Threads : t = u

(* A program that is not saved whole has no library, and is not in the     *)
(* compiler; no library comes from anything but a whole program.           *)
CacheInv ==
    /\ \A h \in Hashes : data[h] # "full" => so[h] = "absent" /\ jitcomp.hash # h
    /\ \A h \in Hashes : so[h] # "bad" /\ mapped[h] # "bad"

(* The compiler is told of whole programs that have no library, once.      *)
SentInv ==
    /\ \A i \in 1 .. Len(outq) :
          data[outq[i]] = "full" /\ so[outq[i]] # "good" /\ jitcomp.hash # outq[i]
    /\ \A i, j \in 1 .. Len(outq) : outq[i] = outq[j] => i = j
    /\ jitcomp.state # "partial"
    /\ jitcomp.state = "full" => so[jitcomp.hash] # "good"

(* A program that is whole, and that the compiler has not been told of.    *)
Unsent(h) ==
    /\ data[h] = "full" /\ so[h] # "good" /\ jitcomp.hash # h
    /\ \A i \in 1 .. Len(outq) : outq[i] # h

(* The cache file at each point of jit_compile.                            *)
SavingInv ==
    \A t \in Threads :
        /\ pc[t] = "create" => data[ProgOf[cur[t]]] = "absent"
        /\ pc[t] = "write" => data[ProgOf[cur[t]]] = "partial"
        /\ pc[t] = "send" => Unsent(ProgOf[cur[t]])

WholeInv == CacheInv /\ SentInv /\ SavingInv

-----------------------------------------------------------------------------
(* What a step of a thread that saves nothing leaves as it is.             *)
LEMMA NothingSaved ==
    ASSUME WholeInv, NEW t \in Threads, SingleThread,
           pc' = [pc EXCEPT ![t] = pc'[t]], pc \in [Threads -> Calls \cup {Idle}],
           pc'[t] \notin {"create", "write", "send"},
           UNCHANGED <<data, so, mapped, outq, jitcomp>>
    PROVE  WholeInv'
<1>1. \A u \in Threads : pc'[u] \notin {"create", "write", "send"}
  BY DEF SingleThread
<1> QED
  BY <1>1 DEF WholeInv, CacheInv, SentInv, SavingInv

(* The steps of a call into the module.                                    *)
LEMMA WholeInCall ==
    ASSUME IInv, WholeInv, SingleThread, NEW t \in Threads, InCall(t)
    PROVE  WholeInv'
<1> USE ProgOfAssumption DEF diskVars, libVars, tableVars, hostVars, threadVars
<1>a. /\ pc \in [Threads -> Calls \cup {Idle}]
      /\ data \in [Hashes -> {"absent", "partial", "full"}]
      /\ outq \in Seq(Hashes)
      /\ pc[t] # Idle => cur[t] \in Objects
  BY DEF IInv, TypeOK, Discipline, CallsDisciplined
<1>1. CASE ExecuteResult(t) \/ FunctionsResult(t) \/ CompileWriteback(t) \/ ReleaseSend(t)
  BY <1>1, <1>a, NothingSaved
  DEF ExecuteResult, FunctionsResult, CompileWriteback, ReleaseSend, Return, Idle
<1>2. CASE CompileLink(t)
  BY <1>2, <1>a, NothingSaved DEF CompileLink, Goto
<1>3. CASE CompileCheck(t)
  BY <1>3, <1>a, NothingSaved DEF CompileCheck, Goto, Return, Idle
<1>4. CASE CompileAccess(t)
  <2>1. PICK h \in Hashes : h = ProgOf[cur[t]]
    BY <1>4, <1>a DEF CompileAccess, Idle
  <2>2. CASE data[h] # "absent"
    BY <1>4, <1>a, <2>1, <2>2, NothingSaved DEF CompileAccess, Goto
  <2>3. CASE data[h] = "absent"
    <3>1. pc' = [pc EXCEPT ![t] = "create"] /\ cur' = cur
      BY <1>4, <2>1, <2>3 DEF CompileAccess, Goto
    <3>2. SavingInv'
      BY <1>4, <1>a, <2>1, <2>3, <3>1 DEF SingleThread, SavingInv, CompileAccess
    <3> QED
      BY <1>4, <3>2 DEF WholeInv, CacheInv, SentInv, CompileAccess
  <2> QED
    BY <2>2, <2>3
<1>5. CASE CompileCreate(t)
  <2>1. PICK h \in Hashes : h = ProgOf[cur[t]] /\ data[h] = "absent"
    BY <1>5, <1>a DEF CompileCreate, Idle, WholeInv, SavingInv
  <2>2. CASE Return(t) /\ UNCHANGED data
    BY <1>5, <1>a, <2>2, NothingSaved DEF CompileCreate, Return, Idle
  <2>3. CASE data' = [data EXCEPT ![h] = "partial"] /\ Goto(t, "write")
    <3>1. SavingInv'
      BY <1>a, <2>1, <2>3 DEF SingleThread, SavingInv, Goto
    <3>2. CacheInv'
      BY <1>5, <1>a, <2>1, <2>3 DEF WholeInv, CacheInv, CompileCreate
    <3>3. SentInv'
      BY <1>5, <1>a, <2>1, <2>3 DEF WholeInv, SentInv, CompileCreate
    <3> QED
      BY <3>1, <3>2, <3>3 DEF WholeInv
  <2> QED
    BY <1>5, <2>1, <2>2, <2>3 DEF CompileCreate
<1>6. CASE CompileWrite(t)
  <2>1. PICK h \in Hashes : h = ProgOf[cur[t]] /\ data[h] = "partial"
    BY <1>6, <1>a DEF CompileWrite, Idle, WholeInv, SavingInv
  <2>2. CASE Return(t) /\ UNCHANGED data
    BY <1>6, <1>a, <2>2, NothingSaved DEF CompileWrite, Return, Idle
  <2>3. CASE data' = [data EXCEPT ![h] = "full"] /\ Goto(t, "send")
    <3>1. Unsent(h)'
      BY <1>6, <1>a, <2>1, <2>3 DEF WholeInv, CacheInv, SentInv, Unsent, CompileWrite
    <3>2. SavingInv'
      BY <1>a, <2>1, <2>3, <3>1 DEF SingleThread, SavingInv, Goto
    <3>3. CacheInv'
      BY <1>6, <1>a, <2>1, <2>3 DEF WholeInv, CacheInv, CompileWrite
    <3>4. SentInv'
      BY <1>6, <1>a, <2>1, <2>3 DEF WholeInv, SentInv, CompileWrite
    <3> QED
      BY <3>2, <3>3, <3>4 DEF WholeInv
  <2> QED
    BY <1>6, <2>1, <2>2, <2>3 DEF CompileWrite
<1>7. CASE CompileSend(t)
  <2>1. PICK h \in Hashes : h = ProgOf[cur[t]] /\ Unsent(h)
    BY <1>7, <1>a DEF CompileSend, Idle, WholeInv, SavingInv
  <2>2. CASE UNCHANGED outq
    BY <1>7, <1>a, <2>2, NothingSaved DEF CompileSend, Return, Idle
  <2>3. CASE outq' = Append(outq, h)
    <3>1. SavingInv'
      BY <1>7, <1>a DEF SingleThread, SavingInv, CompileSend, Return, Idle
    <3>2. CacheInv'
      BY <1>7 DEF WholeInv, CacheInv, CompileSend
    <3>3. SentInv'
      BY <1>7, <1>a, <2>1, <2>3, AppendQueue DEF WholeInv, SentInv, Unsent, CompileSend
    <3> QED
      BY <3>1, <3>2, <3>3 DEF WholeInv
  <2> QED
    BY <1>7, <2>1, <2>2, <2>3 DEF CompileSend
<1> QED
  BY <1>1, <1>2, <1>3, <1>4, <1>5, <1>6, <1>7 DEF InCall

(* The start of a call, and the end of native code.                        *)
LEMMA WholeNewCall ==
    ASSUME IInv, WholeInv, SingleThread, NEW t \in Threads, NEW o \in Objects,
           NewCall(t, o) \/ RunEnds(t, o)
    PROVE  WholeInv'
<1> USE DEF diskVars, libVars, tableVars, hostVars, threadVars
<1>a. pc \in [Threads -> Calls \cup {Idle}]
  BY DEF IInv, TypeOK
<1>1. ASSUME NEW call \in LookupCalls, Lookup(t, o, call) PROVE WholeInv'
  <2>1. call \notin {"create", "write", "send"}
    BY DEF LookupCalls
  <2> QED
    BY <1>1, <1>a, <2>1, NothingSaved DEF Lookup, Enter
<1>2. CASE Release(t, o)
  BY <1>2, <1>a, NothingSaved DEF Release, Enter
<1>3. CASE RunEnds(t, o)
  BY <1>3 DEF RunEnds, WholeInv, CacheInv, SentInv, SavingInv, Unsent
<1> QED
  BY <1>1, <1>2, <1>3 DEF NewCall

(* The loader maps libraries, and so only good ones.                       *)
LEMMA WholeLoader ==
    ASSUME IInv, WholeInv, Loader
    PROVE  WholeInv'
<1> USE DEF diskVars, libVars, tableVars, hostVars, threadVars
<1>a. /\ mapped \in [Hashes -> {"none", "good", "bad"}]
      /\ inq \in Seq(Messages)
      /\ object \in [Objects -> {"absent", "unlinked", "linked"}]
  BY DEF IInv, TypeOK
<1>1. ASSUME UNCHANGED <<diskVars, pc, cur, outq, jitcomp>>,
             \A h \in Hashes : mapped'[h] # "bad"
      PROVE  WholeInv'
  BY <1>1 DEF WholeInv, CacheInv, SentInv, SavingInv, Unsent
<1>2. ASSUME NEW h \in Hashes, dlopen(h) \/ dlclose(h)
      PROVE  \A g \in Hashes : mapped'[g] # "bad"
  BY <1>2, <1>a DEF dlopen, dlclose, WholeInv, CacheInv
<1>3. CASE LoadOpen
  <2>1. PICK h \in Hashes : h = Head(inq).hash
    BY <1>3, <1>a, HeadTail, MessageFields DEF LoadOpen
  <2>2. \A g \in Hashes : mapped'[g] # "bad"
    <3>1. CASE dlopen(h)
      BY <1>2, <3>1
    <3>2. CASE UNCHANGED mapped
      BY <3>2 DEF WholeInv, CacheInv
    <3> QED
      BY <1>3, <2>1, <3>1, <3>2 DEF LoadOpen
  <2> QED
    BY <1>1, <1>3, <2>2 DEF LoadOpen
<1>4. CASE LoadInstall
  <2>1. \A g \in Hashes : mapped'[g] # "bad"
    <3>1. CASE dlclose(loading)
      BY <1>2, <1>4, <3>1 DEF LoadInstall, IInv, TypeOK
    <3>2. CASE UNCHANGED mapped
      BY <3>2 DEF WholeInv, CacheInv
    <3> QED
      BY <1>4, <3>1, <3>2 DEF LoadInstall
  <2> QED
    BY <1>1, <1>4, <2>1 DEF LoadInstall
<1>5. CASE Remove
  <2>1. PICK o \in Objects : o = Head(inq).object
    BY <1>5, <1>a, HeadTail, MessageFields DEF Remove
  <2>2. \A g \in Hashes : mapped'[g] # "bad"
    <3>1. CASE dlclose(ProgOf[o])
      BY <1>2, <3>1, ProgOfAssumption
    <3>2. CASE UNCHANGED mapped
      BY <3>2 DEF WholeInv, CacheInv
    <3> QED
      BY <1>5, <1>a, <2>1, <3>1, <3>2, RemoveEffect DEF p_del
  <2> QED
    BY <1>1, <1>5, <2>2 DEF Remove
<1> QED
  BY <1>3, <1>4, <1>5 DEF Loader

(* The compiler process.                                                   *)
LEMMA WholeCompiler ==
    ASSUME IInv, WholeInv, Compiler \/ JitDies
    PROVE  WholeInv'
<1> USE HashesAssumption, ProgOfAssumption
        DEF diskVars, libVars, tableVars, hostVars, threadVars
<1>a. /\ so \in [Hashes -> {"absent", "good", "bad"}]
      /\ data \in [Hashes -> {"absent", "partial", "full"}]
      /\ outq \in Seq(Hashes)
      /\ \A t \in Threads : pc[t] # Idle => cur[t] \in Objects
  BY DEF IInv, TypeOK, Discipline, CallsDisciplined
<1>1. CASE JitRead
  <2>1. PICK h \in Hashes : h = Head(outq) /\ h = outq[1] /\ data[h] = "full"
                             /\ so[h] # "good" /\ Len(outq) >= 1
    BY <1>1, <1>a, HeadTail DEF JitRead, WholeInv, SentInv
  <2>2. jitcomp' = [state |-> "full", hash |-> h]
    BY <1>1, <2>1 DEF JitRead
  <2>3. CacheInv'
    BY <1>1, <2>1, <2>2 DEF JitRead, WholeInv, CacheInv
  <2>4. SentInv'
    BY <1>1, <1>a, <2>1, <2>2, HeadTail DEF JitRead, WholeInv, SentInv
  <2>5. SavingInv'
    <3>1. ASSUME NEW g \in Hashes, Unsent(g) PROVE Unsent(g)'
      BY <1>1, <1>a, <2>1, <2>2, <3>1, HeadTail DEF JitRead, Unsent
    <3> QED
      BY <1>1, <1>a, <3>1 DEF JitRead, WholeInv, SavingInv, Idle
  <2> QED
    BY <2>3, <2>4, <2>5 DEF WholeInv
<1>2. CASE JitCompile
  <2>1. PICK h \in Hashes : h = jitcomp.hash
    BY <1>2, JitcompStates DEF JitCompile, IInv
  <2>2. data[h] = "full" /\ so[h] # "good"
    BY <1>2, <2>1 DEF JitCompile, WholeInv, CacheInv, SentInv
  <2>3. CASE so' = [so EXCEPT ![h] = "good"] /\ jitcomp' = [jitcomp EXCEPT !.state = "reply"]
    <3>1. jitcomp' = [state |-> "reply", hash |-> h]
      BY <1>2, <2>1, <2>3, JitcompStates DEF JitCompile, IInv
    <3>2. CacheInv'
      BY <1>2, <1>a, <2>1, <2>2, <2>3, <3>1 DEF JitCompile, WholeInv, CacheInv
    <3>3. SentInv'
      BY <1>2, <1>a, <2>1, <2>3, <3>1 DEF JitCompile, WholeInv, SentInv
    <3>4. SavingInv'
      <4>1. ASSUME NEW g \in Hashes, Unsent(g) PROVE Unsent(g)'
        BY <1>2, <1>a, <2>1, <2>3, <3>1, <4>1 DEF JitCompile, Unsent
      <4> QED
        BY <1>2, <1>a, <4>1 DEF JitCompile, WholeInv, SavingInv, Idle
    <3> QED
      BY <3>2, <3>3, <3>4 DEF WholeInv
  <2>4. CASE jitcomp' = JitIdle /\ UNCHANGED so
    BY <1>2, <1>a, <2>4
    DEF JitCompile, JitIdle, Idle, WholeInv, CacheInv, SentInv, SavingInv, Unsent
  <2> QED
    BY <1>2, <2>1, <2>3, <2>4 DEF JitCompile
<1>3. CASE JitCompilePartial
  BY <1>3 DEF JitCompilePartial, WholeInv, SentInv
<1>4. CASE JitReply
  BY <1>4, <1>a DEF JitReply, JitIdle, Idle, WholeInv, CacheInv, SentInv, SavingInv, Unsent
<1>5. CASE JitDies
  <2>1. jitcomp' = JitDead /\ outq' = <<>> /\ Len(outq') = 0 /\ UNCHANGED <<data, so, mapped, pc, cur>>
    BY <1>5, EmptyQueue DEF JitDies
  <2> QED
    BY <1>a, <2>1 DEF JitDead, Idle, WholeInv, CacheInv, SentInv, SavingInv, Unsent
<1> QED
  BY <1>1, <1>2, <1>3, <1>4, <1>5 DEF Compiler

(* A restart: what the old compiler has still done it has done to whole    *)
(* programs.                                                               *)
LEMMA WholeRestart ==
    ASSUME IInv, WholeInv, HostRestart
    PROVE  WholeInv'
<1>a. outq \in Seq(Hashes)
  BY DEF IInv, TypeOK
<1>1. ASSUME NEW h \in Hashes
      PROVE  /\ so'[h] # "bad"
             /\ data[h] # "full" => so'[h] = "absent"
  <2>1. so'[h] \in Leftover(h)
    BY DEF HostRestart
  <2>2. "bad" \notin Leftover(h)
    BY <1>a DEF Leftover, WholeInv, CacheInv, SentInv
  <2>3. data[h] # "full" => Leftover(h) = {"absent"}
    BY <1>a, <2>2 DEF Leftover, WholeInv, CacheInv, SentInv
  <2> QED
    BY <2>1, <2>2, <2>3
<1>2. /\ jitcomp' = JitIdle /\ outq' = <<>> /\ Len(outq') = 0 /\ data' = data
      /\ mapped' = [h \in Hashes |-> "none"] /\ pc' = [t \in Threads |-> Idle]
  BY EmptyQueue DEF HostRestart
<1> QED
  BY <1>1, <1>2, HashesAssumption DEF WholeInv, CacheInv, SentInv, SavingInv, JitIdle, Idle

-----------------------------------------------------------------------------
(* The theorems                                                            *)

(* Every step of a single-threaded host keeps the invariant.               *)
LEMMA WholeStep ==
    ASSUME IInv, WholeInv, SingleThread, [Next]_vars
    PROVE  WholeInv'
<1>1. CASE UNCHANGED vars
  BY <1>1
  DEF vars, diskVars, libVars, tableVars, threadVars, WholeInv, CacheInv, SentInv, SavingInv, Unsent
<1> QED
  BY <1>1, WholeInCall, WholeNewCall, WholeLoader, WholeCompiler, WholeRestart DEF Next

(* The cache that earlier runs have left satisfies it.                     *)
LEMMA WholeInit ==
    ASSUME Init
    PROVE  WholeInv
<1>1. CacheInv
  BY HashesAssumption DEF Init, FreshProcess, CacheInv, JitIdle
<1>2. SentInv
  BY EmptyQueue DEF Init, FreshProcess, SentInv, JitIdle, Idle
<1>3. SavingInv
  BY DEF Init, FreshProcess, SavingInv, Idle
<1> QED
  BY <1>1, <1>2, <1>3 DEF WholeInv

(* The files of the cache stay as described, whatever crashes and fails.   *)
THEOREM WholeInvariance ==
    ASSUME SingleThread
    PROVE  Spec => []WholeInv
<1>1. Init => WholeInv
  BY WholeInit
<1>2. IInv /\ WholeInv /\ [Next]_vars => WholeInv'
  BY WholeStep
<1> QED
  BY <1>1, <1>2, Invariance, PTL DEF Spec

(* With one thread, jitcomp never reads a program that is not saved whole, *)
(* whatever crashes and short writes have left in the cache.               *)
THEOREM SingleCompilesWhole ==
    ASSUME SingleThread
    PROVE  Spec => []CompilesWholePrograms
<1>1. WholeInv => CompilesWholePrograms
  BY DEF WholeInv, SentInv, CompilesWholePrograms
<1> QED
  BY <1>1, WholeInvariance, PTL

(* With one thread, the native code that the host uses for an object was   *)
(* compiled from that object's program.                                    *)
THEOREM SingleCodeIsOwn ==
    ASSUME SingleThread
    PROVE  Spec => []CodeInUseIsOwn
<1>1. ASSUME IInv, WholeInv, CodeInUseMapped PROVE CodeInUseIsOwn
  <2>1. CodeInUse \subseteq Objects
    BY <1>1 DEF IInv, TypeOK, CodeInUse
  <2> QED
    BY <1>1, <2>1, ProgOfAssumption
    DEF IInv, TypeOK, WholeInv, CacheInv, CodeInUseMapped, CodeInUseIsOwn
<1> QED
  BY <1>1, Invariance, WholeInvariance, CodeInUseStaysMapped, PTL

(* With one thread, a program that has its library is never sent to the    *)
(* compiler again, by any process that uses the cache.                     *)
THEOREM SingleCompilesOnce ==
    ASSUME SingleThread
    PROVE  Spec => []CompiledOnce
<1>1. ASSUME IInv, WholeInv PROVE CompiledOnce
  <2>1. ASSUME NEW h \in Hashes, jitcomp.hash = h, so[h] = "good" PROVE jitcomp.state = "reply"
    <3>1. jitcomp.state \in {"partial", "full", "reply"}
      BY <1>1, <2>1, JitcompStates, HashesAssumption DEF IInv
    <3> QED
      BY <1>1, <2>1, <3>1 DEF WholeInv, SentInv
  <2> QED
    BY <1>1, <2>1 DEF WholeInv, SentInv, CompiledOnce
<1> QED
  BY <1>1, Invariance, WholeInvariance, PTL
=============================================================================
