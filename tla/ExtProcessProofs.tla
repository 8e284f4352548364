-------------------------- MODULE ExtProcessProofs --------------------------
(***************************************************************************)
(* Proofs about ExtProcess, for any number of descriptors, any size of a   *)
(* batch, any capacity of a pipe and all faults.                           *)
(***************************************************************************)
EXTENDS ExtProcess, FiniteSetTheorems, TLAPS

(* Taking the first message from a queue.                                  *)
LEMMA QueueTail ==
    ASSUME NEW S, NEW q \in Seq(S), q # <<>>
    PROVE  /\ Head(q) \in S
           /\ Head(q) = q[1]
           /\ Len(q) >= 1
           /\ Tail(q) \in Seq(S)
           /\ Len(Tail(q)) = Len(q) - 1
           /\ \A i \in 1 .. Len(Tail(q)) : Tail(q)[i] = q[i + 1]
OBVIOUS

(* Putting a message into a queue.                                         *)
LEMMA QueueAppend ==
    ASSUME NEW S, NEW q \in Seq(S), NEW x \in S
    PROVE  /\ Append(q, x) \in Seq(S)
           /\ Len(Append(q, x)) = Len(q) + 1
           /\ \A i \in 1 .. Len(q) : Append(q, x)[i] = q[i]
           /\ Append(q, x)[Len(q) + 1] = x
OBVIOUS

LEMMA QueueLength ==
    ASSUME NEW S, NEW q \in Seq(S)
    PROVE  Len(q) \in Nat /\ (q = <<>> <=> Len(q) = 0)
OBVIOUS

LEMMA QueueEmpty ==
    ASSUME NEW S
    PROVE  <<>> \in Seq(S) /\ Len(<<>>) = 0
OBVIOUS

-----------------------------------------------------------------------------
(* The inductive invariants                                                *)

(* The messages of jit_init and jit_compile, as opposed to those of        *)
(* ext_fdlist.                                                             *)
Later == {"info", "protos", "hash"}

(* No batch is larger than FD_CHUNK.                                       *)
BatchesFit ==
    \A i \in 1 .. Len(outq) : outq[i].type = "num" => outq[i].num \in 0 .. FD_CHUNK

(* A descriptor that the child has not closed is still to be sent, or on   *)
(* its way.                                                                *)
StillListed ==
    \A d \in inherited :
        \/ d \in fds - unsent + 1 .. fds
        \/ \E i \in 1 .. Len(outq) : outq[i].type = "list" /\ d \in outq[i].fds

(* A 0 ends the list: nothing of it is unsent, and no part of it follows.  *)
ListEnds ==
    /\ \A i \in 1 .. Len(outq) :
          outq[i].type = "num" /\ outq[i].num = 0 =>
              /\ unsent = 0
              /\ \A j \in i + 1 .. Len(outq) : outq[j].type \in Later
    /\ child \in Execed =>
          /\ unsent = 0
          /\ \A i \in 1 .. Len(outq) : outq[i].type \in Later
    /\ host \in {"spawn", "num", "list"} =>
          /\ child \notin Execed
          /\ \A i \in 1 .. Len(outq) : outq[i].type = "num" => outq[i].num # 0
    /\ host = "list" => unsent # 0

(* The order of the messages: the stage to which a message belongs, and    *)
(* the stage that follows it, with the size of the batch to come.          *)
Stage(msg) ==
    IF msg.type = "list" THEN <<"list", Cardinality(msg.fds)>> ELSE <<msg.type, 0>>
StageAfter(msg) ==
    CASE msg.type = "num" /\ msg.num # 0 -> <<"list", msg.num>>
      [] msg.type = "num" /\ msg.num = 0 -> <<"info", 0>>
      [] msg.type = "list" -> <<"num", 0>>
      [] msg.type = "info" -> <<"protos", 0>>
      [] OTHER -> <<"hash", 0>>

ChildStage ==
    CASE child = "list" -> <<"list", batch>>
      [] child \in {"num", "info", "protos"} -> <<child, 0>>
      [] OTHER -> <<"hash", 0>>
HostStage ==
    CASE host = "list" -> <<"list", Batch>>
      [] host \in {"num", "info", "protos"} -> <<host, 0>>
      [] OTHER -> <<"hash", 0>>

(* The child is in the stage of the first message, each message in the     *)
(* stage after the one before, and the host in the stage after the last.   *)
Chain ==
    /\ outq # <<>> => Stage(outq[1]) = ChildStage
    /\ \A i \in 1 .. Len(outq) - 1 : Stage(outq[i + 1]) = StageAfter(outq[i])
    /\ ChildAlive /\ host # "dead" =>
          HostStage = IF outq = <<>> THEN ChildStage ELSE StageAfter(outq[Len(outq)])

(* A child that is not there has no descriptors.  Before there is a child, *)
(* nothing has been sent.                                                  *)
DeadIsClean ==
    /\ ~ChildAlive => inherited = {} /\ outq = <<>>
    /\ host = "spawn" => outq = <<>> /\ unsent = fds /\ child = "none"

(* The handshake: until the loader starts, there is at most the reply in   *)
(* "in", and jitcomp has not been asked for anything.                      *)
Unloaded ==
    /\ host # "running"
    /\ child # "compiled"
    /\ \A i \in 1 .. Len(outq) : outq[i].type # "hash"
    /\ inq # <<>> =>
          /\ child \in {"loop", "dead"}
          /\ Len(inq) = 1
          /\ inq[1].type \in {"accepted", "refused"}

(* Then, only messages for the loader come.                                *)
Loaded ==
    /\ host \notin {"spawn", "num", "list"} \cup InInit
    /\ child \in {"loop", "compiled", "dead"}
    /\ \A i \in 1 .. Len(inq) : inq[i].type = "message"

(* The loader only ends when "in" is closed, or the host is gone.          *)
Handshake ==
    /\ loader = "none" => Unloaded
    /\ loader # "none" => Loaded
    /\ host \in {"num", "list", "running", "off", "closeIn"} \cup InInit => ends = Ends
    /\ host = "running" => active /\ loader \in {"top", "reading"}

ListInv == TypeOK /\ BatchesFit /\ StillListed /\ ListEnds

-----------------------------------------------------------------------------
(* The list of descriptors                                                 *)

(* What the host sends is a message, and the list is cut off as it goes.   *)
LEMMA BatchBounds ==
    ASSUME TypeOK
    PROVE  /\ Batch \in 0 .. FD_CHUNK
           /\ Batch \in 0 .. unsent
           /\ unsent # 0 => Batch # 0
           /\ NumMsg(Batch) \in OutMessages
           /\ ListMsg(fds - unsent + 1 .. fds - unsent + Batch) \in OutMessages
<1>1. fds \in Nat /\ unsent \in 0 .. fds /\ FD_CHUNK \in Nat \ {0}
  BY ChunkAssumption, MaxFdsAssumption DEF TypeOK
<1>2. Batch \in 0 .. FD_CHUNK /\ Batch \in 0 .. unsent /\ (unsent # 0 => Batch # 0)
  BY <1>1 DEF Batch
<1>3. fds - unsent + 1 .. fds - unsent + Batch \subseteq 1 .. fds
  BY <1>1, <1>2
<1> QED
  BY <1>2, <1>3 DEF NumMsg, ListMsg, OutMessages

(* The messages of jit_init and jit_compile disturb nothing.               *)
LEMMA LaterSent ==
    ASSUME ListInv, NEW m \in Later, outq' = Append(outq, Msg(m)),
           host \notin {"spawn", "num", "list"}, host' \notin {"spawn", "num", "list"},
           host' \in HostStates,
           UNCHANGED <<unsent, fds, valid, ends, inq, childVars, loaderVars>>
    PROVE  ListInv'
<1> USE DEF ListInv, childVars, loaderVars
<1>1. Msg(m) \in OutMessages /\ Msg(m).type = m
  BY DEF Msg, OutMessages, Later
<1>2. m \notin {"num", "list"}
  BY DEF Later
<1>3. outq \in Seq(OutMessages)
  BY DEF TypeOK
<1>q. /\ outq' \in Seq(OutMessages) /\ Len(outq') = Len(outq) + 1
      /\ \A i \in 1 .. Len(outq) : outq'[i] = outq[i]
      /\ outq'[Len(outq) + 1] = Msg(m)
      /\ Len(outq) \in Nat
  BY <1>1, <1>3, QueueAppend
<1>4. TypeOK'
  BY <1>q DEF TypeOK, OutMessages
<1>5. BatchesFit'
  BY <1>1, <1>2, <1>q DEF BatchesFit
<1>6. StillListed'
  BY <1>q DEF StillListed
<1>7. ListEnds'
  BY <1>1, <1>2, <1>q DEF ListEnds
<1> QED
  BY <1>4, <1>5, <1>6, <1>7

(* A message read by the child.                                            *)
LEMMA Received ==
    ASSUME ListInv, outq # <<>>, outq' = Tail(outq),
           UNCHANGED <<host, unsent, fds, inherited>>,
           Head(outq).type # "list",
           child' \in Execed => unsent = 0 /\ \A i \in 2 .. Len(outq) : outq[i].type \in Later,
           host \in {"spawn", "num", "list"} => child' \notin Execed
    PROVE  BatchesFit' /\ StillListed' /\ ListEnds' /\ outq' \in Seq(OutMessages)
<1> USE DEF ListInv
<1>1. outq \in Seq(OutMessages)
  BY DEF TypeOK
<1>q. /\ Head(outq) = outq[1] /\ outq' \in Seq(OutMessages)
      /\ Len(outq) \in Nat /\ Len(outq') = Len(outq) - 1 /\ Len(outq) >= 1
      /\ \A i \in 1 .. Len(outq') : outq'[i] = outq[i + 1]
  BY <1>1, QueueTail
<1>2. BatchesFit'
  BY <1>q DEF BatchesFit
<1>3. StillListed'
  <2>1. ASSUME NEW d \in inherited, d \notin fds - unsent + 1 .. fds
        PROVE  \E i \in 1 .. Len(outq') : outq'[i].type = "list" /\ d \in outq'[i].fds
    <3>1. PICK i \in 1 .. Len(outq) : outq[i].type = "list" /\ d \in outq[i].fds
      BY <2>1 DEF StillListed
    <3>2. i # 1 /\ i - 1 \in 1 .. Len(outq') /\ outq'[i - 1] = outq[i]
      BY <1>q, <3>1
    <3> QED
      BY <3>1, <3>2
  <2> QED
    BY <2>1 DEF StillListed
<1>4. ListEnds'
  BY <1>q DEF ListEnds
<1> QED
  BY <1>q, <1>2, <1>3, <1>4

(* The end of the child leaves nothing to close.                           *)
LEMMA Exited ==
    ASSUME ListInv, Exit, UNCHANGED <<host, unsent, fds>>
    PROVE  BatchesFit' /\ StillListed' /\ ListEnds' /\ outq' \in Seq(OutMessages)
<1>1. outq' = <<>> /\ inherited' = {} /\ child' = "dead" /\ Len(outq') = 0
  BY QueueEmpty DEF Exit
<1> QED
  BY <1>1, QueueEmpty DEF ListInv, BatchesFit, StillListed, ListEnds, Execed

-----------------------------------------------------------------------------
(* The inductive step, one lemma for each group of actions                 *)

LEMMA SpawnListed ==
    ASSUME ListInv, DeadIsClean, Spawn
    PROVE  ListInv'
<1> USE DEF ListInv, childVars, loaderVars
<1>1. fds \in Nat /\ unsent = fds /\ outq = <<>>
  BY MaxFdsAssumption DEF TypeOK, Spawn, DeadIsClean
<1>2. outq' = outq /\ Len(outq') = 0
  BY <1>1, QueueEmpty DEF Spawn
<1>3. TypeOK'
  BY <1>1 DEF Spawn, TypeOK, OutMessages, HostStates, ChildStates, Forked, Ends
<1>4. BatchesFit'
  BY <1>2 DEF BatchesFit
<1>5. StillListed'
  BY <1>1, <1>2 DEF Spawn, StillListed
<1>6. ListEnds'
  BY <1>1, <1>2 DEF Spawn, ListEnds, Execed
<1> QED
  BY <1>3, <1>4, <1>5, <1>6

LEMMA NumListed ==
    ASSUME ListInv, SendNum
    PROVE  ListInv'
<1> USE DEF ListInv, childVars, loaderVars
<1>0. /\ outq \in Seq(OutMessages) /\ Len(outq) \in Nat
      /\ host = "num" /\ child \notin Execed /\ unsent \in 0 .. fds /\ fds \in Nat
      /\ host' = IF unsent # 0 THEN "list" ELSE "info"
      /\ UNCHANGED <<unsent, fds, valid, ends, inq, child, inherited, batch, loader, active>>
  BY MaxFdsAssumption DEF SendNum, TypeOK, ListEnds
<1>1. host' \in HostStates
  BY <1>0 DEF HostStates, InInit
<1>2. CASE OutBroken
  <2>1. outq' = outq
    BY <1>2 DEF OutBroken
  <2>2. TypeOK'
    BY <1>0, <1>1, <2>1 DEF TypeOK, OutMessages
  <2>3. BatchesFit' /\ StillListed'
    BY <1>0, <2>1 DEF BatchesFit, StillListed
  <2>4. ListEnds'
    BY <1>0, <2>1 DEF ListEnds
  <2> QED
    BY <2>2, <2>3, <2>4
<1>3. CASE WriteOut(NumMsg(Batch))
  <2>1. outq' = Append(outq, NumMsg(Batch))
    BY <1>3 DEF WriteOut
  <2>2. /\ NumMsg(Batch) \in OutMessages /\ Batch \in 0 .. FD_CHUNK
        /\ unsent # 0 => Batch # 0
        /\ unsent = 0 => Batch = 0
        /\ NumMsg(Batch).type = "num" /\ NumMsg(Batch).num = Batch
    BY <1>0, BatchBounds DEF NumMsg
  <2>q. /\ outq' \in Seq(OutMessages) /\ Len(outq') = Len(outq) + 1
        /\ \A i \in 1 .. Len(outq) : outq'[i] = outq[i]
        /\ outq'[Len(outq) + 1] = NumMsg(Batch)
    BY <1>0, <2>1, <2>2, QueueAppend
  <2>3. TypeOK'
    BY <1>0, <1>1, <2>q DEF TypeOK, OutMessages
  <2>4. BatchesFit'
    BY <1>0, <2>2, <2>q DEF BatchesFit
  <2>5. StillListed'
    BY <1>0, <2>2, <2>q DEF StillListed
  <2>6. ListEnds'
    <3>1. \A i \in 1 .. Len(outq) : outq[i].type = "num" => outq[i].num # 0
      BY <1>0 DEF ListEnds
    <3>2. ASSUME NEW i \in 1 .. Len(outq'), outq'[i].type = "num", outq'[i].num = 0
          PROVE  i = Len(outq) + 1 /\ unsent = 0
      BY <1>0, <2>2, <2>q, <3>1, <3>2
    <3>3. unsent # 0 => \A i \in 1 .. Len(outq') : outq'[i].type = "num" => outq'[i].num # 0
      BY <3>2
    <3>4. \A i \in 1 .. Len(outq') :
             outq'[i].type = "num" /\ outq'[i].num = 0 =>
                 unsent' = 0 /\ \A j \in i + 1 .. Len(outq') : outq'[j].type \in Later
      BY <1>0, <2>q, <3>2
    <3> QED
      BY <1>0, <3>3, <3>4 DEF ListEnds
  <2> QED
    BY <2>3, <2>4, <2>5, <2>6
<1> QED
  BY <1>2, <1>3 DEF SendNum

LEMMA BatchListed ==
    ASSUME ListInv, DeadIsClean, SendList
    PROVE  ListInv'
<1> USE DEF ListInv, childVars, loaderVars
<1> DEFINE msg == ListMsg(fds - unsent + 1 .. fds - unsent + Batch)
<1>0. /\ outq \in Seq(OutMessages) /\ Len(outq) \in Nat
      /\ host = "list" /\ child \notin Execed /\ unsent \in 0 .. fds /\ fds \in Nat
      /\ unsent # 0
      /\ host' = "num" /\ unsent' = unsent - Batch
      /\ UNCHANGED <<fds, valid, ends, inq, child, inherited, batch, loader, active>>
  BY MaxFdsAssumption DEF SendList, TypeOK, ListEnds
<1>1. Batch \in 0 .. unsent /\ msg \in OutMessages /\ msg.type = "list"
      /\ msg.fds = fds - unsent + 1 .. fds - unsent + Batch
  BY BatchBounds DEF ListMsg
<1>2. unsent' \in 0 .. fds' /\ host' \in HostStates
  BY <1>0, <1>1 DEF HostStates
<1>n. \A i \in 1 .. Len(outq) : outq[i].type = "num" => outq[i].num # 0
  BY <1>0 DEF ListEnds
<1> HIDE DEF msg
<1>3. CASE OutBroken
  <2>1. outq' = outq
    BY <1>3 DEF OutBroken
  <2>2. TypeOK'
    BY <1>0, <1>2, <2>1 DEF TypeOK, OutMessages
  <2>3. inherited = {}
    BY <1>3, <1>0 DEF OutBroken, ChildAlive, DeadIsClean
  <2>4. BatchesFit' /\ StillListed'
    BY <1>0, <2>1, <2>3 DEF BatchesFit, StillListed
  <2>5. ListEnds'
    BY <1>0, <1>n, <2>1 DEF ListEnds
  <2> QED
    BY <2>2, <2>4, <2>5
<1>4. CASE WriteOut(msg)
  <2>1. outq' = Append(outq, msg)
    BY <1>4 DEF WriteOut
  <2>q. /\ outq' \in Seq(OutMessages) /\ Len(outq') = Len(outq) + 1
        /\ \A i \in 1 .. Len(outq) : outq'[i] = outq[i]
        /\ outq'[Len(outq) + 1] = msg
    BY <1>0, <1>1, <2>1, QueueAppend
  <2>2. TypeOK'
    BY <1>0, <1>2, <2>q DEF TypeOK, OutMessages
  <2>3. BatchesFit'
    BY <1>0, <1>1, <2>q DEF BatchesFit
  <2>4. StillListed'
    <3>1. ASSUME NEW d \in inherited
          PROVE  \/ d \in fds - unsent' + 1 .. fds
                 \/ \E i \in 1 .. Len(outq') : outq'[i].type = "list" /\ d \in outq'[i].fds
      <4>1. CASE d \in fds - unsent + 1 .. fds
        <5>1. d \in fds - unsent' + 1 .. fds \/ d \in msg.fds
          BY <1>0, <1>1, <4>1
        <5> QED
          BY <1>0, <1>1, <2>q, <5>1
      <4>2. CASE \E i \in 1 .. Len(outq) : outq[i].type = "list" /\ d \in outq[i].fds
        BY <1>0, <2>q, <4>2
      <4> QED
        BY <4>1, <4>2 DEF StillListed
    <3> QED
      BY <1>0, <3>1 DEF StillListed
  <2>5. ListEnds'
    BY <1>0, <1>1, <1>n, <2>q DEF ListEnds
  <2> QED
    BY <2>2, <2>3, <2>4, <2>5
<1> QED
  BY <1>3, <1>4 DEF SendList, msg

(* A step that touches neither the list nor the child.                     *)
LEMMA ListUntouched ==
    ASSUME ListInv, UNCHANGED <<unsent, fds, outq, childVars>>,
           host' = host \/ host' \notin {"spawn", "num", "list"}
    PROVE  BatchesFit' /\ StillListed' /\ ListEnds'
<1>1. UNCHANGED <<child, inherited, batch>>
  BY DEF childVars
<1>2. BatchesFit' /\ StillListed'
  BY <1>1 DEF ListInv, BatchesFit, StillListed
<1>3. ListEnds'
  BY <1>1 DEF ListInv, ListEnds
<1> QED
  BY <1>2, <1>3

LEMMA HostListed ==
    ASSUME ListInv,
           SendInfo \/ SendProtos \/ SendHash
    PROVE  ListInv'
<1>1. host \notin {"spawn", "num", "list"} /\ host \in HostStates
  BY DEF SendInfo, SendProtos, SendHash, ListInv, TypeOK
<1>2. /\ host' \notin {"spawn", "num", "list"} /\ host' \in HostStates
      /\ UNCHANGED <<unsent, fds, valid, ends, inq, childVars, loaderVars>>
  BY <1>1 DEF SendInfo, SendProtos, SendHash, HostStates, InInit, hostVars
<1>3. CASE OutBroken
  <2>1. BatchesFit' /\ StillListed' /\ ListEnds'
    BY <1>2, <1>3, ListUntouched DEF OutBroken
  <2>2. TypeOK'
    BY <1>2, <1>3 DEF OutBroken, ListInv, TypeOK, childVars, loaderVars, OutMessages
  <2> QED
    BY <2>1, <2>2 DEF ListInv
<1>4. CASE ~OutBroken
  <2>1. PICK m \in Later : outq' = Append(outq, Msg(m))
    BY <1>4 DEF SendInfo, SendProtos, SendHash, WriteOut, Later
  <2> QED
    BY <1>1, <1>2, <2>1, LaterSent
<1> QED
  BY <1>3, <1>4

LEMMA OtherListed ==
    ASSUME ListInv,
           \/ ReadReply \/ WriteBack \/ BeginFinish
           \/ CloseIn \/ CloseOut \/ CloseBack \/ WaitPid \/ Join
           \/ Loader \/ HostDies
    PROVE  ListInv'
<1> USE DEF ListInv, childVars, loaderVars, hostVars
<1>1. /\ UNCHANGED <<unsent, fds, outq, childVars>>
      /\ host' = host \/ host' \notin {"spawn", "num", "list"}
  BY DEF ReadReply, WriteBack, BeginFinish, CloseIn, CloseOut, CloseBack, WaitPid, Join,
         Loader, LoaderEnters, LoaderReads, HostDies
<1>2. BatchesFit' /\ StillListed' /\ ListEnds'
  BY <1>1, ListUntouched
<1>3. inq \in Seq(InMessages) /\ fds' = fds
  BY <1>1 DEF TypeOK
<1>4. inq # <<>> => Tail(inq) \in Seq(InMessages)
  BY <1>3, QueueTail
<1>5. Append(inq, Msg("message")) \in Seq(InMessages)
  <2>1. Msg("message") \in InMessages
    BY DEF Msg, InMessages
  <2> QED
    BY <1>3, <2>1, QueueAppend
<1>6. TypeOK'
  <2> USE DEF TypeOK, OutMessages, HostStates, InInit
  <2>1. CASE ReadReply
    BY <1>4, <2>1 DEF ReadReply
  <2>2. CASE WriteBack
    BY <1>5, <2>2 DEF WriteBack
  <2>3. CASE BeginFinish \/ CloseIn \/ CloseOut \/ CloseBack \/ WaitPid \/ Join
    BY <2>3 DEF BeginFinish, CloseIn, CloseOut, CloseBack, WaitPid, Join
  <2>4. CASE Loader
    BY <1>4, <2>4 DEF Loader, LoaderEnters, LoaderReads
  <2>5. CASE HostDies
    BY <2>5 DEF HostDies
  <2> QED
    BY <2>1, <2>2, <2>3, <2>4, <2>5
<1> QED
  BY <1>2, <1>6

-----------------------------------------------------------------------------
(* The child                                                               *)

LEMMA ExitListed ==
    ASSUME ListInv, Exit, UNCHANGED <<hostVars, ends, loaderVars>>, inq' \in Seq(InMessages)
    PROVE  ListInv'
<1>1. UNCHANGED <<host, unsent, fds, valid, loader, active>>
  BY DEF hostVars, loaderVars
<1>2. BatchesFit' /\ StillListed' /\ ListEnds' /\ outq' \in Seq(OutMessages)
  BY <1>1, Exited
<1>3. TypeOK'
  BY <1>1, <1>2, ChunkAssumption DEF ListInv, TypeOK, Exit, ChildStates, OutMessages
<1> QED
  BY <1>2, <1>3 DEF ListInv

LEMMA ChildNumListed ==
    ASSUME ListInv, Chain, ChildNum
    PROVE  ListInv'
<1> USE DEF ListInv
<1>1. /\ child = "num"
      /\ UNCHANGED <<host, unsent, fds, valid, ends, inq, loader, active>>
  BY DEF ChildNum, hostVars, loaderVars
<1>2. CASE Exit
  BY <1>1, <1>2, ExitListed DEF TypeOK, hostVars, loaderVars
<1>3. CASE ~Exit
  <2>1. /\ outq # <<>> /\ outq' = Tail(outq) /\ inherited' = inherited
        /\ batch' = Head(outq).num
        /\ child' = IF Head(outq).num = 0 THEN "info" ELSE "list"
    BY <1>3 DEF ChildNum
  <2>2. outq \in Seq(OutMessages) /\ Len(outq) \in Nat
        /\ Head(outq) = outq[1] /\ Len(outq) >= 1
    BY <2>1, QueueTail DEF TypeOK
  <2>3. Head(outq).type = "num"
    BY <1>1, <2>1, <2>2 DEF Chain, Stage, ChildStage
  <2>4. Head(outq).num \in 0 .. FD_CHUNK
    BY <2>2, <2>3 DEF BatchesFit
  <2>5. child' \in Execed => unsent = 0 /\ \A i \in 2 .. Len(outq) : outq[i].type \in Later
    BY <2>1, <2>2, <2>3 DEF ListEnds, Execed
  <2>6. host \in {"spawn", "num", "list"} => child' \notin Execed
    BY <2>1, <2>2, <2>3 DEF ListEnds, Execed
  <2>7. BatchesFit' /\ StillListed' /\ ListEnds' /\ outq' \in Seq(OutMessages)
    BY <1>1, <2>1, <2>3, <2>5, <2>6, Received
  <2>8. TypeOK'
    BY <1>1, <2>1, <2>4, <2>7 DEF TypeOK, OutMessages, ChildStates, Forked, Execed
  <2> QED
    BY <2>7, <2>8
<1> QED
  BY <1>2, <1>3

LEMMA ChildListListed ==
    ASSUME ListInv, ChildList
    PROVE  ListInv'
<1> USE DEF ListInv
<1>1. /\ child = "list"
      /\ UNCHANGED <<host, unsent, fds, valid, ends, inq, loader, active>>
  BY DEF ChildList, hostVars, loaderVars
<1>2. CASE Exit
  BY <1>1, <1>2, ExitListed DEF TypeOK, hostVars, loaderVars
<1>3. CASE ~Exit
  <2>1. /\ outq # <<>> /\ outq' = Tail(outq) /\ inherited' = inherited \ Head(outq).fds
        /\ batch' = 0 /\ child' = "num"
    BY <1>3 DEF ChildList
  <2>2. outq \in Seq(OutMessages)
    BY DEF TypeOK
  <2>q. /\ Head(outq) = outq[1] /\ outq' \in Seq(OutMessages)
        /\ Len(outq) \in Nat /\ Len(outq') = Len(outq) - 1 /\ Len(outq) >= 1
        /\ \A i \in 1 .. Len(outq') : outq'[i] = outq[i + 1]
    BY <2>1, <2>2, QueueTail
  <2>c. inherited' \subseteq 1 .. fds' /\ batch' \in 0 .. FD_CHUNK
    <3>1. inherited \subseteq 1 .. fds /\ fds' = fds
      BY <1>1 DEF TypeOK
    <3>2. batch' = 0 /\ FD_CHUNK \in Nat /\ inherited' \subseteq inherited
      BY <2>1, ChunkAssumption
    <3> QED
      BY <3>1, <3>2
  <2>3. TypeOK'
    BY <1>1, <2>1, <2>c, <2>q DEF TypeOK, OutMessages, ChildStates, Forked
  <2>4. BatchesFit'
    BY <2>q DEF BatchesFit
  <2>5. StillListed'
    <3>1. ASSUME NEW d \in inherited', d \notin fds - unsent + 1 .. fds
          PROVE  \E i \in 1 .. Len(outq') : outq'[i].type = "list" /\ d \in outq'[i].fds
      <4>1. PICK i \in 1 .. Len(outq) : outq[i].type = "list" /\ d \in outq[i].fds
        BY <2>1, <3>1 DEF StillListed
      <4>2. i # 1
        BY <2>1, <2>q, <3>1, <4>1
      <4>3. i - 1 \in 1 .. Len(outq') /\ outq'[i - 1] = outq[i]
        BY <2>q, <4>2
      <4> QED
        BY <4>1, <4>3
    <3> QED
      BY <1>1, <3>1 DEF StillListed
  <2>6. ListEnds'
    BY <1>1, <2>1, <2>q DEF ListEnds, Execed
  <2> QED
    BY <2>3, <2>4, <2>5, <2>6
<1> QED
  BY <1>2, <1>3

(* What jitcomp reads at its start and in its loop.                        *)
LEMMA ChildReadsListed ==
    ASSUME ListInv, ChildInit \/ ChildLoop
    PROVE  ListInv'
<1> USE DEF ListInv
<1>1. /\ child \in Execed
      /\ UNCHANGED <<host, unsent, fds, valid, ends, inq, loader, active>>
  BY DEF ChildInit, ChildLoop, hostVars, loaderVars, Execed
<1>2. CASE Exit
  BY <1>1, <1>2, ExitListed DEF TypeOK, hostVars, loaderVars
<1>3. CASE ~Exit
  <2>1. /\ outq # <<>> /\ outq' = Tail(outq) /\ UNCHANGED <<inherited, batch>>
        /\ child' \in Execed
    BY <1>3 DEF ChildInit, ChildLoop, Execed
  <2>2. outq \in Seq(OutMessages) /\ Len(outq) \in Nat
        /\ Head(outq) = outq[1] /\ Len(outq) >= 1
    BY <2>1, QueueTail DEF TypeOK
  <2>3. unsent = 0 /\ host \notin {"spawn", "num", "list"}
        /\ \A i \in 1 .. Len(outq) : outq[i].type \in Later
    BY <1>1 DEF ListEnds
  <2>4. Head(outq).type # "list"
    BY <2>2, <2>3 DEF Later
  <2>5. BatchesFit' /\ StillListed' /\ ListEnds' /\ outq' \in Seq(OutMessages)
    BY <1>1, <2>1, <2>2, <2>3, <2>4, Received
  <2>6. TypeOK'
    BY <1>1, <2>1, <2>5 DEF TypeOK, OutMessages, ChildStates
  <2> QED
    BY <2>5, <2>6
<1> QED
  BY <1>2, <1>3

(* What jitcomp writes.                                                    *)
LEMMA ChildWritesListed ==
    ASSUME ListInv, ChildReply \/ ChildCompiled
    PROVE  ListInv'
<1> USE DEF ListInv
<1>1. /\ child \in Execed
      /\ UNCHANGED <<host, unsent, fds, valid, ends, loader, active>>
  BY DEF ChildReply, ChildCompiled, hostVars, loaderVars, Execed
<1>2. inq' \in Seq(InMessages)
  <2>1. inq \in Seq(InMessages)
    BY DEF TypeOK
  <2>2. PICK m \in InMessages : ChildWrites(m)
    BY DEF ChildReply, ChildCompiled, Msg, InMessages
  <2> QED
    BY <2>1, <2>2, QueueAppend DEF ChildWrites
<1>3. CASE Exit
  BY <1>1, <1>2, <1>3, ExitListed DEF ChildReply, ChildCompiled, hostVars, loaderVars
<1>4. CASE ~Exit
  <2>1. UNCHANGED <<outq, inherited, batch>> /\ child' = "loop"
    BY <1>4 DEF ChildReply, ChildCompiled
  <2>2. TypeOK'
    BY <1>1, <1>2, <2>1 DEF TypeOK, OutMessages, ChildStates, Execed
  <2>3. BatchesFit' /\ StillListed'
    BY <1>1, <2>1 DEF BatchesFit, StillListed
  <2>4. ListEnds'
    BY <1>1, <2>1 DEF ListEnds, Execed
  <2> QED
    BY <2>2, <2>3, <2>4
<1> QED
  BY <1>3, <1>4

LEMMA ListInvInitially ==
    ASSUME Init
    PROVE  ListInv /\ DeadIsClean /\ Chain /\ Handshake
<1>0. /\ fds \in 0 .. MaxFds /\ unsent = fds /\ outq = <<>> /\ inq = <<>>
      /\ host = "spawn" /\ child = "none" /\ inherited = {} /\ loader = "none"
  BY DEF Init
<1>1. Len(outq) = 0 /\ Len(inq) = 0
  BY <1>0, QueueEmpty
<1>2. TypeOK
  <2>1. outq \in Seq(OutMessages) /\ inq \in Seq(InMessages)
    BY <1>0, QueueEmpty
  <2>2. fds \in Nat /\ unsent \in 0 .. fds
    BY <1>0, MaxFdsAssumption
  <2>3. ends = {} /\ batch \in 0 .. FD_CHUNK /\ active = FALSE /\ valid \in BOOLEAN
    BY ChunkAssumption DEF Init
  <2> QED
    BY <1>0, <2>1, <2>2, <2>3 DEF TypeOK, HostStates, ChildStates
<1>3. BatchesFit /\ StillListed /\ ListEnds
  BY <1>0, <1>1 DEF BatchesFit, StillListed, ListEnds, Execed
<1>4. DeadIsClean /\ Chain
  BY <1>0, <1>1 DEF DeadIsClean, Chain, ChildAlive
<1>5. Handshake
  BY <1>0, <1>1 DEF Handshake, Unloaded, InInit
<1> QED
  BY <1>2, <1>3, <1>4, <1>5 DEF ListInv

LEMMA ListInvStep ==
    ASSUME ListInv, DeadIsClean, Chain, [Next]_vars
    PROVE  ListInv'
<1>1. CASE UNCHANGED vars
  <2>1. UNCHANGED <<host, unsent, fds, valid, ends, inq, outq, child, inherited, batch,
                    loader, active>>
    BY <1>1 DEF vars, hostVars, childVars, loaderVars
  <2> QED
    BY <2>1 DEF ListInv, TypeOK, OutMessages, BatchesFit, StillListed, ListEnds
<1>2. CASE Spawn
  BY <1>2, SpawnListed
<1>3. CASE SendNum
  BY <1>3, NumListed
<1>4. CASE SendList
  BY <1>4, BatchListed
<1>5. CASE SendInfo \/ SendProtos \/ SendHash
  BY <1>5, HostListed
<1>6. CASE \/ ReadReply \/ WriteBack \/ BeginFinish
           \/ CloseIn \/ CloseOut \/ CloseBack \/ WaitPid \/ Join
           \/ Loader \/ HostDies
  BY <1>6, OtherListed
<1>7. CASE ChildNum
  BY <1>7, ChildNumListed
<1>8. CASE ChildList
  BY <1>8, ChildListListed
<1>9. CASE ChildInit \/ ChildLoop
  BY <1>9, ChildReadsListed
<1>10. CASE ChildReply \/ ChildCompiled
  BY <1>10, ChildWritesListed
<1>11. CASE ChildDies
  BY <1>11, ExitListed DEF ChildDies, ListInv, TypeOK
<1> QED
  BY <1>1, <1>2, <1>3, <1>4, <1>5, <1>6, <1>7, <1>8, <1>9, <1>10, <1>11
  DEF Next, Calls, Work, Child

LEMMA DeadIsCleanStep ==
    ASSUME DeadIsClean, [Next]_vars
    PROVE  DeadIsClean'
<1>1. CASE UNCHANGED vars
  BY <1>1 DEF vars, hostVars, childVars, loaderVars, DeadIsClean, ChildAlive
<1>2. CASE Calls \/ Work
  BY <1>2
  DEF Calls, Work, DeadIsClean, ChildAlive, WriteOut, OutBroken, hostVars, childVars,
      Spawn, SendNum, SendList, SendInfo, SendProtos, ReadReply, CloseIn, CloseOut, CloseBack,
      WaitPid, Join, SendHash, WriteBack, BeginFinish
<1>3. CASE Loader \/ HostDies
  BY <1>3
  DEF Loader, LoaderEnters, LoaderReads, HostDies, DeadIsClean, ChildAlive, hostVars, childVars
<1>4. CASE Child \/ ChildDies
  <2>1. ChildAlive /\ UNCHANGED <<host, unsent, fds>>
    BY <1>4
    DEF Child, ChildNum, ChildList, ChildInit, ChildReply, ChildLoop, ChildCompiled, ChildDies,
        ChildAlive, hostVars
  <2>2. host # "spawn"
    BY <2>1 DEF DeadIsClean, ChildAlive
  <2>3. Exit \/ child' \notin {"none", "dead"}
    BY <1>4
    DEF Child, ChildNum, ChildList, ChildInit, ChildReply, ChildLoop, ChildCompiled, ChildDies
  <2> QED
    BY <2>1, <2>2, <2>3 DEF DeadIsClean, Exit, ChildAlive
<1> QED
  BY <1>1, <1>2, <1>3, <1>4 DEF Next

-----------------------------------------------------------------------------
(* The order of the messages                                               *)

LEMMA ChainSent ==
    ASSUME ListInv, Chain, ChildAlive, host # "dead", NEW m \in OutMessages,
           outq' = Append(outq, m), UNCHANGED childVars,
           Stage(m) = HostStage, StageAfter(m) = HostStage'
    PROVE  Chain'
<1>1. outq \in Seq(OutMessages) /\ Len(outq) \in Nat
  BY DEF ListInv, TypeOK
<1>q. /\ Len(outq') = Len(outq) + 1
      /\ \A i \in 1 .. Len(outq) : outq'[i] = outq[i]
      /\ outq'[Len(outq) + 1] = m
      /\ outq' # <<>>
  BY <1>1, QueueAppend
<1>2. ChildStage' = ChildStage
  BY DEF ChildStage, childVars
<1>3. CASE outq = <<>>
  BY <1>1, <1>q, <1>2, <1>3 DEF Chain
<1>4. CASE outq # <<>>
  <2>1. Len(outq) >= 1 /\ outq'[1] = outq[1] /\ outq'[Len(outq)] = outq[Len(outq)]
    BY <1>1, <1>q, <1>4
  <2>2. Stage(outq'[1]) = ChildStage'
    BY <1>2, <1>4, <2>1 DEF Chain
  <2>3. ASSUME NEW i \in 1 .. Len(outq') - 1
        PROVE  Stage(outq'[i + 1]) = StageAfter(outq'[i])
    <3>1. CASE i = Len(outq)
      BY <1>1, <1>q, <1>4, <2>1, <3>1 DEF Chain
    <3>2. CASE i # Len(outq)
      <4>1. i \in 1 .. Len(outq) - 1 /\ i + 1 \in 1 .. Len(outq)
        BY <1>1, <1>q, <3>2
      <4> QED
        BY <1>1, <1>q, <4>1 DEF Chain
    <3> QED
      BY <3>1, <3>2
  <2>4. HostStage' = StageAfter(outq'[Len(outq')])
    BY <1>q
  <2> QED
    BY <1>q, <2>2, <2>3, <2>4 DEF Chain
<1> QED
  BY <1>3, <1>4

LEMMA ChainReceived ==
    ASSUME ListInv, Chain, ChildAlive, outq # <<>>, outq' = Tail(outq),
           UNCHANGED hostVars, StageAfter(outq[1]) = ChildStage'
    PROVE  Chain'
<1>1. outq \in Seq(OutMessages) /\ Len(outq) \in Nat
  BY DEF ListInv, TypeOK
<1>q. /\ Len(outq') = Len(outq) - 1 /\ Len(outq) >= 1
      /\ \A i \in 1 .. Len(outq') : outq'[i] = outq[i + 1]
      /\ outq' = <<>> => Len(outq) = 1
      /\ outq' # <<>> => Len(outq) > 1
  <2>1. outq' \in Seq(OutMessages) /\ Len(outq') = Len(outq) - 1 /\ Len(outq) >= 1
        /\ \A i \in 1 .. Len(outq') : outq'[i] = outq[i + 1]
    BY <1>1, QueueTail
  <2>2. outq' = <<>> <=> Len(outq') = 0
    BY <2>1, QueueLength
  <2>3. Len(outq') \in Nat
    BY <2>1, QueueLength
  <2> QED
    BY <1>1, <2>1, <2>2, <2>3
<1>2. HostStage' = HostStage /\ host' = host
  BY DEF HostStage, Batch, hostVars
<1>3. host # "dead" => HostStage = StageAfter(outq[Len(outq)])
  BY DEF Chain
<1>4. CASE outq' = <<>>
  BY <1>q, <1>2, <1>3, <1>4 DEF Chain
<1>5. CASE outq' # <<>>
  <2>1. \A i \in 1 .. Len(outq) - 1 : Stage(outq[i + 1]) = StageAfter(outq[i])
    BY DEF Chain
  <2>2. Stage(outq'[1]) = ChildStage'
    BY <1>1, <1>q, <1>5, <2>1
  <2>3. \A i \in 1 .. Len(outq') - 1 : Stage(outq'[i + 1]) = StageAfter(outq'[i])
    BY <1>1, <1>q, <2>1
  <2>4. outq'[Len(outq')] = outq[Len(outq)]
    BY <1>1, <1>q, <1>5
  <2> QED
    BY <1>2, <1>3, <1>5, <2>2, <2>3, <2>4 DEF Chain
<1> QED
  BY <1>4, <1>5

(* What the host sends is in the stage of the host.                        *)
LEMMA SentInStage ==
    ASSUME ListInv
    PROVE  /\ host = "num" => Stage(NumMsg(Batch)) = HostStage
           /\ StageAfter(NumMsg(Batch)) =
                  IF unsent # 0 THEN <<"list", Batch>> ELSE <<"info", 0>>
           /\ LET msg == ListMsg(fds - unsent + 1 .. fds - unsent + Batch)
              IN  /\ host = "list" => Stage(msg) = HostStage
                  /\ StageAfter(msg) = <<"num", 0>>
<1>1. fds \in Nat /\ unsent \in 0 .. fds /\ Batch \in 0 .. unsent
      /\ (unsent # 0 => Batch # 0)
  BY BatchBounds, MaxFdsAssumption DEF ListInv, TypeOK
<1>2. Cardinality(fds - unsent + 1 .. fds - unsent + Batch) = Batch
  <2> DEFINE a == fds - unsent + 1
             b == fds - unsent + Batch
  <2>1. a \in Int /\ b \in Int /\ b - a + 1 = Batch /\ Batch \in Nat
    BY <1>1
  <2> HIDE DEF a, b
  <2>2. Cardinality(a .. b) = IF a > b THEN 0 ELSE b - a + 1
    BY <2>1, FS_Interval
  <2>3. Cardinality(a .. b) = Batch
    BY <2>1, <2>2
  <2> QED
    BY <2>3 DEF a, b
<1>3. unsent = 0 <=> Batch = 0
  BY <1>1
<1> QED
  BY <1>2, <1>3 DEF Stage, StageAfter, HostStage, NumMsg, ListMsg

LEMMA ChainStep ==
    ASSUME ListInv, DeadIsClean, Chain, [Next]_vars
    PROVE  Chain'
<1>0. outq \in Seq(OutMessages) /\ Len(outq) \in Nat /\ (outq # <<>> => outq[1] = Head(outq))
  BY QueueTail DEF ListInv, TypeOK
<1>1. ASSUME UNCHANGED <<outq, childVars>>,
             HostStage' = HostStage \/ host' = "dead" \/ ~ChildAlive,
             host = "dead" => host' = "dead"
      PROVE  Chain'
  BY <1>1 DEF Chain, ChildStage, ChildAlive, childVars
<1>2. ASSUME OutBroken, UNCHANGED childVars, host # "dead"
      PROVE  Chain'
  BY <1>1, <1>2 DEF OutBroken
<1>3. CASE UNCHANGED vars
  <2>1. UNCHANGED <<host, unsent, outq, childVars>>
    BY <1>3 DEF vars, hostVars
  <2> QED
    BY <1>1, <2>1 DEF HostStage, Batch
<1>4. CASE Spawn
  <2>1. outq' = <<>> /\ child = "none" /\ ((child' = "num" /\ host' = "num") \/ child' = child)
    BY <1>4 DEF Spawn, DeadIsClean
  <2>2. Len(outq') = 0
    BY <2>1, QueueEmpty
  <2> QED
    BY <2>1, <2>2 DEF Chain, ChildStage, HostStage, ChildAlive
<1>5. CASE SendNum
  <2>1. /\ host = "num" /\ UNCHANGED <<unsent, fds, childVars>>
        /\ host' = IF unsent # 0 THEN "list" ELSE "info"
    BY <1>5 DEF SendNum
  <2>2. HostStage' = IF unsent # 0 THEN <<"list", Batch>> ELSE <<"info", 0>>
    BY <2>1 DEF HostStage, Batch
  <2>3. CASE WriteOut(NumMsg(Batch))
    BY <2>1, <2>2, <2>3, SentInStage, BatchBounds, ChainSent DEF WriteOut, ListInv
  <2> QED
    BY <1>2, <1>5, <2>1, <2>3 DEF SendNum
<1>6. CASE SendList
  <2> DEFINE msg == ListMsg(fds - unsent + 1 .. fds - unsent + Batch)
  <2>1. host = "list" /\ host' = "num" /\ UNCHANGED childVars /\ (WriteOut(msg) \/ OutBroken)
    BY <1>6 DEF SendList
  <2>2. /\ Stage(msg) = HostStage /\ StageAfter(msg) = HostStage' /\ msg \in OutMessages
    BY <2>1, SentInStage, BatchBounds DEF ListInv, HostStage
  <2> HIDE DEF msg
  <2>3. CASE WriteOut(msg)
    BY <2>1, <2>2, <2>3, ChainSent DEF WriteOut
  <2> QED
    BY <1>2, <2>1, <2>3
<1>7. CASE SendInfo \/ SendProtos \/ SendHash
  <2>1. host # "dead" /\ UNCHANGED childVars
    BY <1>7 DEF SendInfo, SendProtos, SendHash
  <2>2. CASE OutBroken
    BY <1>2, <2>1, <2>2
  <2>3. CASE ~OutBroken
    <3>1. PICK m \in Later : WriteOut(Msg(m)) /\ HostStage = <<m, 0>>
                             /\ HostStage' = IF m = "info" THEN <<"protos", 0>> ELSE <<"hash", 0>>
      BY <1>7, <2>3 DEF SendInfo, SendProtos, SendHash, HostStage, Later, hostVars
    <3>2. Msg(m) \in OutMessages /\ Stage(Msg(m)) = HostStage /\ StageAfter(Msg(m)) = HostStage'
      BY <3>1 DEF Later, Msg, OutMessages, Stage, StageAfter
    <3> QED
      BY <2>1, <3>1, <3>2, ChainSent DEF WriteOut
  <2> QED
    BY <2>2, <2>3
<1>8. CASE \/ ReadReply \/ WriteBack \/ BeginFinish
           \/ CloseIn \/ CloseOut \/ CloseBack \/ WaitPid \/ Join
           \/ Loader \/ HostDies
  <2>1. UNCHANGED <<outq, childVars>> /\ (host = "dead" => host' = "dead")
    BY <1>8
    DEF ReadReply, WriteBack, BeginFinish, CloseIn, CloseOut, CloseBack, WaitPid, Join,
        Loader, LoaderEnters, LoaderReads, HostDies, hostVars
  <2>2. HostStage' = HostStage \/ host' = "dead"
    BY <1>8
    DEF ReadReply, WriteBack, BeginFinish, CloseIn, CloseOut, CloseBack, WaitPid, Join,
        Loader, LoaderEnters, LoaderReads, HostDies, hostVars, HostStage, Batch
  <2> QED
    BY <1>1, <2>1, <2>2
<1>9. CASE Child \/ ChildDies
  <2>1. ChildAlive /\ UNCHANGED hostVars
    BY <1>9
    DEF Child, ChildNum, ChildList, ChildInit, ChildReply, ChildLoop, ChildCompiled, ChildDies,
        ChildAlive
  <2>2. CASE Exit
    <3>1. outq' = <<>> /\ Len(outq') = 0 /\ ~ChildAlive'
      BY <2>2, QueueEmpty DEF Exit, ChildAlive
    <3> QED
      BY <3>1 DEF Chain
  <2>3. CASE ~Exit /\ (ChildReply \/ ChildCompiled)
    <3>1. UNCHANGED outq /\ ChildStage' = ChildStage
      BY <2>3 DEF ChildReply, ChildCompiled, ChildStage
    <3>2. UNCHANGED <<host, HostStage>>
      BY <2>1 DEF HostStage, Batch, hostVars
    <3> QED
      BY <2>1, <3>1, <3>2 DEF Chain
  <2>4. CASE ~Exit /\ (ChildNum \/ ChildList \/ ChildInit \/ ChildLoop)
    <3>1. outq # <<>> /\ outq' = Tail(outq)
      BY <2>4 DEF ChildNum, ChildList, ChildInit, ChildLoop
    <3>2. Stage(outq[1]) = ChildStage
      BY <3>1 DEF Chain
    <3>3. StageAfter(outq[1]) = ChildStage'
      <4> USE <1>0, <3>1, <3>2 DEF Stage, StageAfter, ChildStage
      <4>1. CASE ChildNum
        BY <2>4, <4>1 DEF ChildNum
      <4>2. CASE ChildList
        BY <2>4, <4>2 DEF ChildList
      <4>3. CASE ChildInit
        BY <2>4, <4>3 DEF ChildInit
      <4>4. CASE ChildLoop
        BY <2>4, <4>4 DEF ChildLoop
      <4> QED
        BY <2>4, <4>1, <4>2, <4>3, <4>4
    <3> QED
      BY <2>1, <3>1, <3>3, ChainReceived
  <2> QED
    BY <1>9, <2>2, <2>3, <2>4 DEF Child, ChildDies
<1> QED
  BY <1>3, <1>4, <1>5, <1>6, <1>7, <1>8, <1>9 DEF Next, Calls, Work

-----------------------------------------------------------------------------
(* The handshake                                                           *)

(* Until the loader starts.                                                *)
LEMMA UnloadedStep ==
    ASSUME ListInv, DeadIsClean, Chain, Handshake, [Next]_vars, loader = "none"
    PROVE  IF loader' = "none" THEN Unloaded' ELSE Loaded' /\ host' = "running" /\ active'
<1>0. /\ Unloaded /\ inq \in Seq(InMessages) /\ outq \in Seq(OutMessages)
      /\ Len(inq) \in Nat /\ Len(outq) \in Nat
      /\ (inq # <<>> => inq[1] = Head(inq) /\ Len(Tail(inq)) = 0 /\ Tail(inq) = <<>>)
  <2>1. Unloaded /\ inq \in Seq(InMessages) /\ outq \in Seq(OutMessages)
    BY DEF Handshake, ListInv, TypeOK
  <2>2. ASSUME inq # <<>>
        PROVE  inq[1] = Head(inq) /\ Len(Tail(inq)) = 0 /\ Tail(inq) = <<>>
    <3>1. inq[1] = Head(inq) /\ Len(Tail(inq)) = Len(inq) - 1 /\ Tail(inq) \in Seq(InMessages)
      BY <2>1, <2>2, QueueTail
    <3>2. Len(Tail(inq)) = 0
      BY <2>1, <2>2, <3>1 DEF Unloaded
    <3> QED
      BY <3>1, <3>2, QueueLength
  <2> QED
    BY <2>1, <2>2, QueueLength
<1>1. ASSUME UNCHANGED <<inq, outq, child, loader>>, host' # "running"
      PROVE  loader' = "none" /\ Unloaded'
  BY <1>0, <1>1 DEF Unloaded
<1>2. CASE UNCHANGED vars
  BY <1>0, <1>1, <1>2 DEF vars, hostVars, childVars, loaderVars, Unloaded
<1>3. CASE \/ BeginFinish \/ CloseIn \/ CloseOut \/ CloseBack \/ WaitPid \/ Join \/ HostDies
  BY <1>1, <1>3
  DEF BeginFinish, CloseIn, CloseOut, CloseBack, WaitPid, Join, HostDies,
      childVars, loaderVars
<1>4. CASE Spawn
  <2>1. child = "none" /\ inq = <<>>
    BY <1>0, <1>4 DEF DeadIsClean, Spawn, Unloaded
  <2> QED
    BY <1>0, <1>4, <2>1 DEF Spawn, loaderVars, Unloaded
<1>5. CASE SendNum \/ SendList \/ SendInfo \/ SendProtos
  <2>1. UNCHANGED <<inq, child, loader>> /\ host' # "running"
    BY <1>5 DEF SendNum, SendList, SendInfo, SendProtos, childVars, loaderVars
  <2>2. CASE outq' = outq
    BY <1>1, <2>1, <2>2
  <2>3. CASE outq' # outq
    <3>1. PICK m : outq' = Append(outq, m) /\ m.type # "hash"
      BY <1>5, <2>3
      DEF SendNum, SendList, SendInfo, SendProtos, WriteOut, OutBroken, NumMsg, ListMsg, Msg
    <3>2. Len(outq') = Len(outq) + 1 /\ outq'[Len(outq) + 1] = m
          /\ \A i \in 1 .. Len(outq) : outq'[i] = outq[i]
      BY <1>0, <3>1
    <3> QED
      BY <1>0, <2>1, <3>1, <3>2 DEF Unloaded
  <2> QED
    BY <2>2, <2>3
<1>6. CASE ReadReply
  <2>1. CASE inq # <<>>
    <3>1. inq' = <<>> /\ Len(inq') = 0 /\ child \in {"loop", "dead"} /\ UNCHANGED <<outq, child>>
      BY <1>0, <1>6, <2>1 DEF ReadReply, Unloaded, childVars
    <3>2. CASE Head(inq) = Msg("accepted")
      BY <1>6, <2>1, <3>1, <3>2 DEF ReadReply, Loaded, InInit
    <3>3. CASE Head(inq) # Msg("accepted")
      BY <1>0, <1>6, <2>1, <3>1, <3>3 DEF ReadReply, Unloaded, loaderVars
    <3> QED
      BY <3>2, <3>3
  <2>2. CASE inq = <<>>
    BY <1>1, <1>6, <2>2 DEF ReadReply, childVars, loaderVars
  <2> QED
    BY <2>1, <2>2
<1>7. CASE SendHash \/ WriteBack
  BY <1>0, <1>7 DEF SendHash, WriteBack, Unloaded
<1>8. CASE Loader
  BY <1>8 DEF Loader, LoaderEnters, LoaderReads
<1>9. CASE Child \/ ChildDies
  <2>1. ChildAlive /\ UNCHANGED <<host, loader>>
    BY <1>9
    DEF Child, ChildNum, ChildList, ChildInit, ChildReply, ChildLoop, ChildCompiled, ChildDies,
        ChildAlive, hostVars, loaderVars
  <2>2. CASE ChildReply
    <3>1. inq = <<>> /\ child' \in {"loop", "dead"}
      BY <1>0, <2>2 DEF ChildReply, Unloaded, Exit
    <3>2. outq' = outq \/ outq' = <<>>
      BY <2>2 DEF ChildReply, Exit
    <3>3. inq' = <<>> \/ \E m \in {Msg("accepted"), Msg("refused")} : inq' = Append(<<>>, m)
      BY <2>2, <3>1 DEF ChildReply, ChildWrites
    <3>4. inq' # <<>> => Len(inq') = 1 /\ inq'[1].type \in {"accepted", "refused"}
      BY <3>3 DEF Msg
    <3>5. \A i \in 1 .. Len(outq') : outq'[i].type # "hash"
      BY <1>0, <3>2, QueueEmpty DEF Unloaded
    <3> QED
      BY <1>0, <2>1, <3>1, <3>4, <3>5 DEF Unloaded
  <2>3. CASE ~ChildReply
    <3>1. child # "loop" => child' # "compiled"
      BY <1>9, <2>3
      DEF Child, ChildNum, ChildList, ChildInit, ChildLoop, ChildCompiled, ChildDies, Exit
    <3>2. UNCHANGED inq
      BY <1>0, <1>9, <2>3
      DEF Child, ChildNum, ChildList, ChildInit, ChildLoop, ChildCompiled, ChildDies, Exit, Unloaded
    <3>3. (outq # <<>> /\ outq' = Tail(outq)) \/ Exit
      BY <1>0, <1>9, <2>3
      DEF Child, ChildNum, ChildList, ChildInit, ChildLoop, ChildCompiled, ChildDies, Unloaded
    <3>4. \A i \in 1 .. Len(outq') : outq'[i].type # "hash"
      <4>1. CASE Exit
        BY <4>1, QueueEmpty DEF Exit
      <4>2. CASE ~Exit
        <5>1. Len(outq') = Len(outq) - 1
              /\ \A i \in 1 .. Len(outq') : outq'[i] = outq[i + 1]
          BY <1>0, <3>3, <4>2, QueueTail
        <5> QED
          BY <1>0, <5>1 DEF Unloaded
      <4> QED
        BY <4>1, <4>2
    <3>5. child = "loop" => Exit
      <4>1. child = "loop" /\ ~Exit => Stage(outq[1]) = <<"hash", 0>> /\ 1 \in 1 .. Len(outq)
        BY <1>0, <3>3, QueueTail DEF Chain, ChildStage
      <4> QED
        BY <1>0, <4>1 DEF Unloaded, Stage
    <3>6. child' # "compiled" /\ (inq # <<>> => child' = "dead")
      BY <1>0, <2>1, <3>1, <3>2, <3>5 DEF Exit, Unloaded, ChildAlive
    <3> QED
      BY <1>0, <2>1, <3>2, <3>4, <3>6 DEF Unloaded
  <2> QED
    BY <2>2, <2>3
<1> QED
  BY <1>2, <1>3, <1>4, <1>5, <1>6, <1>7, <1>8, <1>9 DEF Next, Calls, Work

(* After the loader has started.                                           *)
LEMMA LoadedStep ==
    ASSUME ListInv, Handshake, [Next]_vars, loader # "none"
    PROVE  loader' # "none" /\ Loaded'
<1>0. Loaded /\ inq \in Seq(InMessages) /\ Len(inq) \in Nat
  BY DEF Handshake, ListInv, TypeOK
<1>1. ASSUME inq' = Append(inq, Msg("message"))
      PROVE  \A i \in 1 .. Len(inq') : inq'[i].type = "message"
  <2>1. Len(inq') = Len(inq) + 1 /\ inq'[Len(inq) + 1].type = "message"
        /\ \A i \in 1 .. Len(inq) : inq'[i] = inq[i]
    BY <1>0, <1>1 DEF Msg
  <2> QED
    BY <1>0, <2>1 DEF Loaded
<1>2. CASE UNCHANGED vars
  BY <1>0, <1>2 DEF vars, hostVars, childVars, loaderVars, Loaded
<1>3. CASE Calls
  BY <1>0, <1>3
  DEF Calls, Spawn, SendNum, SendList, SendInfo, SendProtos, ReadReply, CloseIn, CloseOut,
      CloseBack, WaitPid, Join, childVars, loaderVars, Loaded, InInit
<1>4. CASE SendHash \/ BeginFinish \/ HostDies
  BY <1>0, <1>4 DEF SendHash, BeginFinish, HostDies, hostVars, childVars, loaderVars, Loaded, InInit
<1>5. CASE WriteBack
  BY <1>0, <1>1, <1>5 DEF WriteBack, hostVars, childVars, loaderVars, Loaded
<1>6. CASE Loader
  <2>1. /\ loader' # "none" /\ UNCHANGED <<host, child>>
        /\ inq' = inq \/ (inq # <<>> /\ inq' = Tail(inq))
    BY <1>6 DEF Loader, LoaderEnters, LoaderReads, hostVars, childVars
  <2>2. CASE inq' = inq
    BY <1>0, <2>1, <2>2 DEF Loaded
  <2>3. CASE inq # <<>> /\ inq' = Tail(inq)
    <3>1. Len(inq') = Len(inq) - 1 /\ \A i \in 1 .. Len(inq') : inq'[i] = inq[i + 1]
      BY <1>0, <2>3, QueueTail
    <3> QED
      BY <1>0, <2>1, <3>1 DEF Loaded
  <2> QED
    BY <2>1, <2>2, <2>3
<1>7. CASE Child \/ ChildDies
  <2>1. UNCHANGED <<host, loader>>
    BY <1>7
    DEF Child, ChildNum, ChildList, ChildInit, ChildReply, ChildLoop, ChildCompiled, ChildDies,
        hostVars, loaderVars
  <2>2. child' \in {"loop", "compiled", "dead"}
    BY <1>0, <1>7
    DEF Child, ChildNum, ChildList, ChildInit, ChildReply, ChildLoop, ChildCompiled, ChildDies,
        Exit, Loaded
  <2>3. inq' = inq \/ inq' = Append(inq, Msg("message"))
    BY <1>0, <1>7
    DEF Child, ChildNum, ChildList, ChildInit, ChildReply, ChildLoop, ChildCompiled, ChildDies,
        ChildWrites, Loaded
  <2>4. \A i \in 1 .. Len(inq') : inq'[i].type = "message"
    BY <1>0, <1>1, <2>3 DEF Loaded
  <2> QED
    BY <1>0, <2>1, <2>2, <2>4 DEF Loaded
<1> QED
  BY <1>2, <1>3, <1>4, <1>5, <1>6, <1>7 DEF Next, Work

LEMMA HandshakeStep ==
    ASSUME ListInv, DeadIsClean, Chain, Handshake, [Next]_vars
    PROVE  Handshake'
<1> DEFINE Open == {"num", "list", "running", "off", "closeIn"} \cup InInit
<1>1. (loader' = "none" => Unloaded') /\ (loader' # "none" => Loaded')
  BY UnloadedStep, LoadedStep
<1>2. host' \in Open => ends' = Ends
  <2>1. UNCHANGED <<host, ends>> \/ Calls \/ BeginFinish \/ HostDies
    BY DEF Next, Work, SendHash, WriteBack, Loader, LoaderEnters, LoaderReads, Child, ChildNum,
           ChildList, ChildInit, ChildReply, ChildLoop, ChildCompiled, ChildDies, vars, hostVars
  <2>2. CASE UNCHANGED <<host, ends>>
    BY <2>2 DEF Handshake
  <2>3. CASE Calls \/ BeginFinish \/ HostDies
    BY <2>3
    DEF Calls, Spawn, SendNum, SendList, SendInfo, SendProtos, ReadReply, CloseIn, CloseOut,
        CloseBack, WaitPid, Join, BeginFinish, HostDies, Handshake, InInit
  <2> QED
    BY <2>1, <2>2, <2>3
<1>3. host' = "running" => active' /\ loader' \in {"top", "reading"}
  <2> SUFFICES ASSUME host' = "running"
               PROVE  active' /\ loader' \in {"top", "reading"}
    OBVIOUS
  <2>1. host = "running" \/ ReadReply
    BY DEF Next, Calls, Work, Spawn, SendNum, SendList, SendInfo, SendProtos, CloseIn, CloseOut,
           CloseBack, WaitPid, Join, BeginFinish, SendHash, WriteBack, Loader, LoaderEnters,
           LoaderReads, Child, ChildNum, ChildList, ChildInit, ChildReply, ChildLoop,
           ChildCompiled, ChildDies, HostDies, vars, hostVars
  <2>2. CASE ReadReply
    BY <2>2 DEF ReadReply
  <2>3. CASE host = "running"
    <3>1. /\ ends = Ends /\ active /\ loader \in {"top", "reading"}
          /\ inq # <<>> => Head(inq).type = "message"
          /\ inq # <<>> => Head(inq) \in InMessages
      <4>1. ends = Ends /\ active /\ loader \in {"top", "reading"} /\ Loaded
        BY <2>3 DEF Handshake
      <4>2. inq # <<>> => Head(inq) = inq[1] /\ Len(inq) >= 1 /\ Head(inq) \in InMessages
        BY QueueTail DEF ListInv, TypeOK
      <4>3. Len(inq) \in Nat
        BY QueueLength DEF ListInv, TypeOK
      <4> QED
        BY <4>1, <4>2, <4>3 DEF Loaded
    <3>2. CASE Loader
      <4>1. inq # <<>> => Head(inq) = Msg("message")
        BY <3>1 DEF InMessages, Msg
      <4> QED
        BY <3>1, <3>2, <4>1 DEF Loader, LoaderEnters, LoaderReads, InHasWriter, Ends
    <3>3. CASE ~Loader
      <4>1. UNCHANGED <<loader, active>>
        BY <2>3, <3>3
        DEF Next, Calls, Work, Spawn, SendNum, SendList, SendInfo, SendProtos, ReadReply, CloseIn,
            CloseOut, CloseBack, WaitPid, Join, BeginFinish, SendHash, WriteBack, Child, ChildNum,
            ChildList, ChildInit, ChildReply, ChildLoop, ChildCompiled, ChildDies, HostDies,
            vars, loaderVars, InInit
      <4> QED
        BY <3>1, <4>1
    <3> QED
      BY <3>2, <3>3
  <2> QED
    BY <2>1, <2>2, <2>3
<1> QED
  BY <1>1, <1>2, <1>3 DEF Handshake

-----------------------------------------------------------------------------
(* The theorems                                                            *)

IInv == ListInv /\ DeadIsClean /\ Chain /\ Handshake

(* The inductive invariant of the child process holds in every state.      *)
THEOREM ExtInvariance == Spec => []IInv
<1>1. Init => IInv
  BY ListInvInitially DEF IInv
<1>2. IInv /\ [Next]_vars => IInv'
  BY ListInvStep, DeadIsCleanStep, ChainStep, HandshakeStep DEF IInv
<1> QED
  BY <1>1, <1>2, PTL DEF Spec

(* The types of the variables, and the bounds of batches and of the list   *)
(* (ext_fdlist).                                                           *)
THEOREM ExtTypeCorrect == Spec => []TypeOK
<1>1. IInv => TypeOK
  BY DEF IInv, ListInv
<1> QED
  BY <1>1, ExtInvariance, PTL

(* jitcomp is executed without any descriptor of the host, for a list of   *)
(* any length (lpc_ext_spawn).                                             *)
THEOREM ExecStartsClean == Spec => []ExecClean
<1>1. IInv => ExecClean
  <2> SUFFICES ASSUME IInv, child \in Execed, NEW d \in inherited
               PROVE  FALSE
    BY DEF ExecClean
  <2>1. unsent = 0 /\ \A i \in 1 .. Len(outq) : outq[i].type # "list"
    BY DEF IInv, ListInv, ListEnds, Later
  <2>2. d \in fds - 0 + 1 .. fds
    BY <2>1 DEF IInv, ListInv, StillListed
  <2> QED
    BY <2>2, MaxFdsAssumption DEF IInv, ListInv, TypeOK
<1> QED
  BY <1>1, ExtInvariance, PTL

(* Every reader finds what it expects on its pipe (lpc_ext_spawn, main of  *)
(* jitcomp, jit_init, jit_thread).                                         *)
THEOREM MessagesFramed == Spec => []Framed
<1>1. IInv => Framed
  <2> SUFFICES ASSUME IInv
               PROVE  Framed
    OBVIOUS
  <2>1. outq # <<>> => Head(outq) = outq[1] /\ Stage(outq[1]) = ChildStage
    BY QueueTail DEF IInv, ListInv, TypeOK, Chain
  <2>2. inq # <<>> => Head(inq) = inq[1]
    BY QueueTail DEF IInv, ListInv, TypeOK
  <2>3. inq # <<>> /\ host = "reply" => Head(inq).type \in {"accepted", "refused"}
    BY <2>2 DEF IInv, Handshake, Unloaded, Loaded, InInit
  <2>4. loader # "none" => \A i \in 1 .. Len(inq) : inq[i].type = "message"
    BY DEF IInv, Handshake, Loaded
  <2> QED
    BY <2>1, <2>3, <2>4 DEF Framed, Stage, ChildStage
<1> QED
  BY <1>1, ExtInvariance, PTL

(* The loader runs for as long as the module is in use, whatever becomes   *)
(* of jitcomp (jit_thread and "back" of lpc_ext_spawn).                    *)
THEOREM LoaderStaysActive == Spec => []ActiveWhileRunning
<1>1. IInv => ActiveWhileRunning
  BY DEF IInv, Handshake, ActiveWhileRunning
<1> QED
  BY <1>1, ExtInvariance, PTL
=============================================================================
