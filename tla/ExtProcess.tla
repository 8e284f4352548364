----------------------------- MODULE ExtProcess -----------------------------
(***************************************************************************)
(* The life of the child process of an extension module (src/lpc_ext.c),   *)
(* with the JIT module (src/jit/jit.c) as its user and jitcomp             *)
(* (src/jit/jitcomp.cpp) as its program: fork, the list of descriptors     *)
(* that the child must close, exec, the handshake of jit_init, the loader  *)
(* thread, and the end of all of them.                                     *)
(*                                                                         *)
(* The pipe "in" has two writers, the child and the module itself, and     *)
(* whoever reads it sees an end of file only when both are gone.  What is  *)
(* sent while the module is at work is the subject of JitCache; here it is *)
(* one kind of message in each direction.                                  *)
(***************************************************************************)
EXTENDS Naturals, Sequences, FiniteSets

CONSTANTS
    MaxFds,       \* the host has at most so many descriptors to close
    FD_CHUNK,     \* descriptors sent in one batch
    PipeCap,      \* messages that fit in a pipe
    Faults        \* what the environment may do: see FaultKinds

(* "spawn": pipe() or fork() fails; "child": the child dies, or the        *)
(* program cannot be run, at any moment; "host": the host dies.            *)
FaultKinds == {"spawn", "child", "host"}

ASSUME MaxFdsAssumption  == MaxFds \in Nat
ASSUME ChunkAssumption   == FD_CHUNK \in Nat \ {0}
ASSUME PipeCapAssumption == PipeCap \in Nat \ {0}
ASSUME FaultsAssumption  == Faults \subseteq FaultKinds

VARIABLES
    host,         \* where the host's main thread is
    unsent,       \* descriptors not yet sent, as a number: the last ones
    fds,          \* the number of descriptors in the list
    valid,        \* jitcomp accepts the version of the virtual machine
    ends,         \* the host's ends of the pipes that are open
    inq,          \* pipe "in": from the child, and from the module to itself
    outq,         \* pipe "out": from the module to the child
    child,        \* where the child is
    inherited,    \* the host's descriptors that are open in the child
    batch,        \* the size of the batch that the child is about to read
    loader,       \* where the loader thread is
    active        \* the variable of jit.c

hostVars == <<host, unsent, fds, valid>>
childVars == <<child, inherited, batch>>
loaderVars == <<loader, active>>
vars == <<hostVars, ends, inq, outq, childVars, loaderVars>>

Ends == {"in", "out", "back"}

(* The host's main thread: in lpc_ext_spawn and ext_fdlist, in jit_init,   *)
(* using the module or not using it, in ext_finish and jit_finish, gone.   *)
InInit == {"info", "protos", "reply"}
HostStates == {"spawn", "num", "list", "running", "off", "closeIn", "closeOut", "closeBack",
               "wait", "join", "done", "failed", "dead"} \cup InInit

(* The child: a copy of the host that closes descriptors, then jitcomp.    *)
Forked == {"num", "list"}
Execed == {"info", "protos", "refuse", "accept", "loop", "compiled"}
ChildStates == {"none", "dead"} \cup Forked \cup Execed

NumMsg(n) == [type |-> "num", num |-> n]
ListMsg(S) == [type |-> "list", fds |-> S]
Msg(type) == [type |-> type]

-----------------------------------------------------------------------------
Init ==
    /\ host = "spawn"
    /\ fds \in 0 .. MaxFds
    /\ unsent = fds
    /\ valid \in BOOLEAN
    /\ ends = {}
    /\ inq = <<>>
    /\ outq = <<>>
    /\ child = "none"
    /\ inherited = {}
    /\ batch = 0
    /\ loader = "none"
    /\ active = FALSE

-----------------------------------------------------------------------------
(* Pipes                                                                   *)

ChildAlive == child \notin {"none", "dead"}

(* A thread that is reading from a descriptor keeps the pipe open.         *)
InHasReader == "in" \in ends \/ loader = "reading"
InHasWriter == "back" \in ends \/ ChildAlive

(* The child's input, as the child sees it: the host is its only writer.   *)
EndOfInput == outq = <<>> /\ "out" \notin ends

(* write() to the child by the host: a dead child leaves no reader, and    *)
(* write() returns -1.                                                     *)
WriteOut(msg) ==
    /\ ChildAlive
    /\ Len(outq) < PipeCap
    /\ outq' = Append(outq, msg)

OutBroken == ~ChildAlive /\ UNCHANGED outq

-----------------------------------------------------------------------------
(* The host: lpc_ext_spawn and ext_fdlist                                  *)

(* pipe(), pipe(), fork(): the parent keeps its ends, and the child        *)
(* inherits every descriptor of the host.                                  *)
Spawn ==
    /\ host = "spawn"
    /\ \/ /\ ends' = Ends
          /\ child' = "num"
          /\ inherited' = 1 .. fds
          /\ host' = "num"
       \/ /\ "spawn" \in Faults
          /\ host' = "failed"
          /\ UNCHANGED <<ends, child, inherited>>
    /\ UNCHANGED <<unsent, fds, valid, inq, outq, batch, loaderVars>>

(* The size of the next batch.                                             *)
Batch == IF unsent > FD_CHUNK THEN FD_CHUNK ELSE unsent

(* Mutant: a batch that is not full is taken for the last one.             *)
SendNum_StopsEarly ==
    /\ host = "num"
    /\ WriteOut(NumMsg(IF unsent >= FD_CHUNK THEN FD_CHUNK ELSE 0)) \/ OutBroken
    /\ host' = IF unsent >= FD_CHUNK THEN "list" ELSE "info"
    /\ UNCHANGED <<unsent, fds, valid, ends, inq, childVars, loaderVars>>

(* The number of descriptors in the next batch, or 0 after the last.       *)
SendNum ==
    /\ host = "num"
    /\ WriteOut(NumMsg(Batch)) \/ OutBroken
    /\ host' = IF unsent # 0 THEN "list" ELSE "info"
    /\ UNCHANGED <<unsent, fds, valid, ends, inq, childVars, loaderVars>>

(* The batch.                                                              *)
SendList ==
    /\ host = "list"
    /\ WriteOut(ListMsg(fds - unsent + 1 .. fds - unsent + Batch)) \/ OutBroken
    /\ unsent' = unsent - Batch
    /\ host' = "num"
    /\ UNCHANGED <<fds, valid, ends, inq, childVars, loaderVars>>

-----------------------------------------------------------------------------
(* The host: jit_init                                                      *)

(* The parameters of the virtual machine, then the prototypes of kfuns.    *)
SendInfo ==
    /\ host = "info"
    /\ \/ WriteOut(Msg("info")) /\ host' = "protos"
       \/ OutBroken /\ host' = "off"
    /\ UNCHANGED <<unsent, fds, valid, ends, inq, childVars, loaderVars>>

SendProtos ==
    /\ host = "protos"
    /\ \/ WriteOut(Msg("protos")) /\ host' = "reply"
       \/ OutBroken /\ host' = "off"
    /\ UNCHANGED <<unsent, fds, valid, ends, inq, childVars, loaderVars>>

(* Mutant: the loader is started before the reply has been read.           *)
ReadReply_Early ==
    /\ host = "reply"
    /\ loader' = "top"
    /\ active' = TRUE
    /\ host' = "running"
    /\ UNCHANGED <<unsent, fds, valid, ends, inq, outq, childVars>>

(* The reply, a single byte; when it is true the loader is started.        *)
ReadReply ==
    /\ host = "reply"
    /\ \/ /\ inq # <<>>
          /\ inq' = Tail(inq)
          /\ IF Head(inq) = Msg("accepted")
               THEN host' = "running" /\ loader' = "top" /\ active' = TRUE
               ELSE host' = "off" /\ UNCHANGED loaderVars
       \/ /\ inq = <<>> /\ ~InHasWriter
          /\ host' = "off"
          /\ UNCHANGED <<inq, loaderVars>>
    /\ UNCHANGED <<unsent, fds, valid, ends, outq, childVars>>

-----------------------------------------------------------------------------
(* The host at work, and its end                                           *)

(* jit_compile sends a hash to jitcomp.                                    *)
SendHash ==
    /\ host = "running"
    /\ WriteOut(Msg("hash")) \/ OutBroken
    /\ UNCHANGED <<hostVars, ends, inq, childVars, loaderVars>>

(* jit_compile and jit_release write to the module's own loader.           *)
WriteBack ==
    /\ host = "running"
    /\ Len(inq) < PipeCap
    /\ inq' = Append(inq, Msg("message"))
    /\ UNCHANGED <<hostVars, ends, outq, childVars, loaderVars>>

(* The host shuts down: ext_finish is called.                              *)
BeginFinish ==
    /\ host \in {"running", "off"}
    /\ host' = "closeIn"
    /\ UNCHANGED <<unsent, fds, valid, ends, inq, outq, childVars, loaderVars>>

CloseIn ==
    /\ host = "closeIn"
    /\ ends' = ends \ {"in"}
    /\ host' = "closeOut"
    /\ UNCHANGED <<unsent, fds, valid, inq, outq, childVars, loaderVars>>

CloseOut ==
    /\ host = "closeOut"
    /\ ends' = ends \ {"out"}
    /\ host' = "closeBack"
    /\ UNCHANGED <<unsent, fds, valid, inq, outq, childVars, loaderVars>>

(* Mutant: the module's own end of its input stays open.                   *)
CloseBack_Kept ==
    /\ host = "closeBack"
    /\ host' \in {"wait", "join"}
    /\ UNCHANGED <<unsent, fds, valid, ends, inq, outq, childVars, loaderVars>>

(* close(back), and waitpid() if the host asks for it.                     *)
CloseBack ==
    /\ host = "closeBack"
    /\ ends' = ends \ {"back"}
    /\ host' \in {"wait", "join"}
    /\ UNCHANGED <<unsent, fds, valid, inq, outq, childVars, loaderVars>>

WaitPid ==
    /\ host = "wait"
    /\ child = "dead"
    /\ host' = "join"
    /\ UNCHANGED <<unsent, fds, valid, ends, inq, outq, childVars, loaderVars>>

(* jit_finish joins the loader, if there is one.                           *)
Join ==
    /\ host = "join"
    /\ loader \in {"none", "ended"}
    /\ host' = "done"
    /\ UNCHANGED <<unsent, fds, valid, ends, inq, outq, childVars, loaderVars>>

-----------------------------------------------------------------------------
(* The loader thread: jit_thread                                           *)

(* read() on a descriptor that is closed fails, and ends the thread.       *)
LoaderEnters ==
    /\ loader = "top"
    /\ IF "in" \in ends
         THEN loader' = "reading" /\ UNCHANGED active
         ELSE loader' = "ended" /\ active' = FALSE
    /\ UNCHANGED <<hostVars, ends, inq, outq, childVars>>

(* 17 bytes have come, or something else, or the end of file.              *)
LoaderReads ==
    /\ loader = "reading"
    /\ \/ /\ inq # <<>>
          /\ inq' = Tail(inq)
          /\ IF Head(inq) = Msg("message")
               THEN loader' = "top" /\ UNCHANGED active
               ELSE loader' = "ended" /\ active' = FALSE
       \/ /\ inq = <<>> /\ ~InHasWriter
          /\ loader' = "ended"
          /\ active' = FALSE
          /\ UNCHANGED inq
    /\ UNCHANGED <<hostVars, ends, outq, childVars>>

-----------------------------------------------------------------------------
(* The child                                                               *)

(* The process ends; what is in its pipe can no longer be read.            *)
Exit ==
    /\ child' = "dead"
    /\ outq' = <<>>
    /\ inherited' = {}
    /\ batch' = 0

(* lpc_ext_spawn in the child: read the size of a batch; 0 means exec.     *)
ChildNum ==
    /\ child = "num"
    /\ \/ /\ outq # <<>>
          /\ batch' = Head(outq).num
          /\ child' = IF Head(outq).num = 0 THEN "info" ELSE "list"
          /\ outq' = Tail(outq)
          /\ UNCHANGED inherited
       \/ EndOfInput /\ Exit
    /\ UNCHANGED <<hostVars, ends, inq, loaderVars>>

(* Read and close a batch.                                                 *)
ChildList ==
    /\ child = "list"
    /\ \/ /\ outq # <<>>
          /\ IF Cardinality(Head(outq).fds) = batch
               THEN /\ inherited' = inherited \ Head(outq).fds
                    /\ child' = "num"
                    /\ outq' = Tail(outq)
                    /\ batch' = 0
               ELSE Exit
       \/ EndOfInput /\ Exit
    /\ UNCHANGED <<hostVars, ends, inq, loaderVars>>

(* jitcomp's main(): the parameters, the prototypes, ...                   *)
ChildInit ==
    /\ child \in {"info", "protos"}
    /\ \/ /\ outq # <<>>
          /\ child' = IF child = "info" THEN "protos" ELSE IF valid THEN "accept" ELSE "refuse"
          /\ outq' = Tail(outq)
          /\ UNCHANGED <<inherited, batch>>
       \/ EndOfInput /\ Exit
    /\ UNCHANGED <<hostVars, ends, inq, loaderVars>>

(* A write of the child: without a reader it is lost.                      *)
ChildWrites(msg) ==
    IF InHasReader
      THEN Len(inq) < PipeCap /\ inq' = Append(inq, msg)
      ELSE UNCHANGED inq

(* ... and the reply.                                                      *)
ChildReply ==
    /\ \/ child = "accept" /\ ChildWrites(Msg("accepted"))
          /\ child' = "loop" /\ UNCHANGED <<outq, inherited, batch>>
       \/ child = "refuse" /\ ChildWrites(Msg("refused")) /\ Exit
    /\ UNCHANGED <<hostVars, ends, loaderVars>>

(* Mutant: the end of the input is not noticed.                            *)
ChildLoop_NoEnd ==
    /\ child = "loop"
    /\ outq # <<>>
    /\ outq' = Tail(outq)
    /\ child' \in {"loop", "compiled"}
    /\ UNCHANGED <<hostVars, ends, inq, inherited, batch, loaderVars>>

(* jitcomp's loop: a hash, which is compiled or not, ...                   *)
ChildLoop ==
    /\ child = "loop"
    /\ \/ /\ outq # <<>>
          /\ outq' = Tail(outq)
          /\ child' \in {"loop", "compiled"}
          /\ UNCHANGED <<inherited, batch>>
       \/ EndOfInput /\ Exit
    /\ UNCHANGED <<hostVars, ends, inq, loaderVars>>

(* ... and a message for the loader.                                       *)
ChildCompiled ==
    /\ child = "compiled"
    /\ ChildWrites(Msg("message"))
    /\ child' = "loop"
    /\ UNCHANGED <<hostVars, ends, outq, inherited, batch, loaderVars>>

-----------------------------------------------------------------------------
(* exec fails, a system call fails, jitcomp crashes.                       *)
ChildDies ==
    /\ "child" \in Faults
    /\ ChildAlive
    /\ Exit
    /\ UNCHANGED <<hostVars, ends, inq, loaderVars>>

(* The host dies, its threads with it, and its descriptors are closed.     *)
HostDies ==
    /\ "host" \in Faults
    /\ host \notin {"done", "failed", "dead"}
    /\ host' = "dead"
    /\ ends' = {}
    /\ loader' = IF loader = "none" THEN "none" ELSE "ended"
    /\ active' = FALSE
    /\ UNCHANGED <<unsent, fds, valid, inq, outq, childVars>>

-----------------------------------------------------------------------------
Calls ==
    \/ Spawn \/ SendNum \/ SendList
    \/ SendInfo \/ SendProtos \/ ReadReply
    \/ CloseIn \/ CloseOut \/ CloseBack \/ WaitPid \/ Join

Work == SendHash \/ WriteBack \/ BeginFinish

Loader == LoaderEnters \/ LoaderReads

Child ==
    \/ ChildNum \/ ChildList \/ ChildInit \/ ChildReply
    \/ ChildLoop \/ ChildCompiled

Next == Calls \/ Work \/ Loader \/ Child \/ ChildDies \/ HostDies

Spec == Init /\ [][Next]_vars

(* What the host has begun it goes on with, and threads and processes run. *)
(* The host need not use the module, nor ever shut down.                   *)
Fairness == WF_vars(Calls) /\ WF_vars(Loader) /\ WF_vars(Child)

FairSpec == Spec /\ Fairness

-----------------------------------------------------------------------------
(* Properties                                                              *)

OutMessages ==
    [type : {"num"}, num : Nat] \cup [type : {"list"}, fds : SUBSET (1 .. fds)]
        \cup [type : {"info", "protos", "hash"}]
InMessages == [type : {"accepted", "refused", "message"}]

(* The variables have their types; no batch is larger than what is left of *)
(* the list (ext_fdlist).                                                  *)
TypeOK ==
    /\ host \in HostStates
    /\ fds \in 0 .. MaxFds
    /\ unsent \in 0 .. fds
    /\ valid \in BOOLEAN
    /\ ends \subseteq Ends
    /\ inq \in Seq(InMessages)
    /\ outq \in Seq(OutMessages)
    /\ child \in ChildStates
    /\ inherited \subseteq 1 .. fds
    /\ batch \in 0 .. FD_CHUNK
    /\ loader \in {"none", "top", "reading", "ended"}
    /\ active \in BOOLEAN

(* The program is executed with none of the host's descriptors, however    *)
(* many there are and however they fall into batches.                      *)
ExecClean == child \in Execed => inherited = {}

(* Messages have no type on the wire: each reader finds at the head of its *)
(* pipe what it is about to read, and the loader nothing but messages of   *)
(* 17 bytes, never the reply of the handshake.                             *)
Framed ==
    /\ outq # <<>> =>
          /\ child = "num" => Head(outq).type = "num"
          /\ child = "list" =>
                Head(outq).type = "list" /\ Cardinality(Head(outq).fds) = batch
          /\ child = "info" => Head(outq).type = "info"
          /\ child = "protos" => Head(outq).type = "protos"
          /\ child = "loop" => Head(outq).type = "hash"
    /\ inq # <<>> =>
          /\ host = "reply" => Head(inq).type \in {"accepted", "refused"}
          /\ loader # "none" => \A i \in 1 .. Len(inq) : inq[i].type = "message"

(* From a successful jit_init to the shutdown the loader runs and "active" *)
(* is set, whatever becomes of the child: released objects are forgotten   *)
(* although nothing is compiled any more.                                  *)
ActiveWhileRunning == host = "running" => active /\ loader \in {"top", "reading"}

(* jit_init returns.                                                       *)
InitReturns == host \in InInit ~> host \notin InInit

(* A shutdown that begins with ext_finish comes to its end, with or        *)
(* without waitpid(): the loader is not left waiting for a message.        *)
ShutdownEnds == host = "closeIn" ~> host \in {"done", "dead"}

(* The child ends after its host has shut down or died, whatever it was    *)
(* doing.                                                                  *)
ChildEnds == host \in {"closeIn", "dead"} ~> child \in {"none", "dead"}
=============================================================================
