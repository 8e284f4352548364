------------------------ MODULE SpecialObjectProofs ------------------------
(* Proofs about the slot of special objects, for any number of objects,    *)
(* sessions and patterns.                                                  *)
EXTENDS SpecialObject, TLAPS

THEOREM SlotTypeInit == SlotInit => SlotOK
BY DEF SlotInit, SlotOK, Zlib, Deflaters, Inflaters, NoBlocks, BlockKinds, NoContainer, Container,
       NotUsed, Compiled

LEMMA BlockTypes ==
    /\ DeflateBlocks \in [0 .. 4 -> BlockKinds]
    /\ \A w \in BOOLEAN : InflateBlocks(w) \in [0 .. 4 -> BlockKinds]
    /\ NoBlocks \in [0 .. 4 -> BlockKinds]
BY DEF DeflateBlocks, InflateBlocks, NoBlocks, BlockKinds

(* An update of the value with parts of their types keeps the types.       *)
LEMMA SetValueTypes ==
    ASSUME SlotOK, NEW o \in Objects,
           NEW name \in Zlib \cup {"nil", "tls", "regexp"}, NEW b \in [0 .. 4 -> BlockKinds],
           NEW s \in Sessions \cup {NoSession}, NEW c \in Container,
           SetValue(o, name, b, s, c)
    PROVE  /\ sig' \in [Objects -> Zlib \cup {"nil", "tls", "regexp"}]
           /\ blocks' \in [Objects -> [0 .. 4 -> BlockKinds]]
           /\ saved' \in [Objects -> BOOLEAN]
           /\ session' \in [Objects -> Sessions \cup {NoSession}]
           /\ rx' \in [Objects -> Container]
BY DEF SlotOK, SetValue

LEMMA ContainerTypes ==
    /\ NoContainer \in Container
    /\ \A pattern \in Patterns, casef \in BOOLEAN :
          [pattern |-> pattern, nocase |-> casef, code |-> <<pattern, casef>>] \in Container
BY DEF NoContainer, Container, Compiled

(* Events that have happened are not forgotten.                            *)
LEMMA HappenedNext ==
    ASSUME SlotOK, [SlotNext]_slotVars
    PROVE  happened' \subseteq Events /\ happened \subseteq happened'
<1> USE DEF Happens, SlotOK
<1>1. ASSUME NEW o \in Objects, NEW z \in Zlib, NEW finishes \in BOOLEAN,
             ZlibFirst(o, z, finishes) \/ ZlibNext(o, z, finishes) \/ ZlibInitFails(o, z)
      PROVE  happened' \subseteq Events /\ happened \subseteq happened'
  BY <1>1 DEF ZlibFirst, ZlibNext, ZlibInitFails
<1>2. ASSUME NEW o \in Objects, TlsStart(o) \/ TlsClose(o)
      PROVE  happened' \subseteq Events /\ happened \subseteq happened'
  BY <1>2 DEF TlsStart, TlsClose
<1>3. ASSUME NEW o \in Objects, NEW pattern \in Patterns, NEW casef \in BOOLEAN,
             Regexp(o, pattern, casef)
      PROVE  happened' \subseteq Events /\ happened \subseteq happened'
  BY <1>3 DEF Regexp
<1>4. ASSUME NEW o \in Objects, DriverMarks(o) \/ DriverUnmarks(o) \/ Destruct(o)
      PROVE  happened' \subseteq Events /\ happened \subseteq happened'
  BY <1>4 DEF DriverMarks, DriverUnmarks, Destruct
<1>5. CASE Restart \/ UNCHANGED slotVars
  BY <1>5 DEF Restart, slotVars
<1> QED BY <1>1, <1>2, <1>3, <1>4, <1>5 DEF SlotNext

LEMMA SlotTypeNext == SlotOK /\ [SlotNext]_slotVars => SlotOK'
<1> SUFFICES ASSUME SlotOK, [SlotNext]_slotVars PROVE SlotOK'
  OBVIOUS
<1>0. happened' \subseteq Events
  BY HappenedNext
<1> USE BlockTypes, ContainerTypes, SetValueTypes
<1>1. ASSUME NEW o \in Objects, NEW z \in Zlib, NEW finishes \in BOOLEAN, ZlibFirst(o, z, finishes)
      PROVE  SlotOK'
  <2>1. CASE finishes
    <3>1. SetNil(o) /\ unmark(o) /\ UNCHANGED <<live, used>>
      BY <1>1, <2>1 DEF ZlibFirst, Discard
    <3> QED BY <1>0, <3>1 DEF SetNil, unmark, SlotOK
  <2>2. CASE ~finishes
    <3>1. PICK w \in BOOLEAN :
             SetValue(o, z, IF z \in Deflaters THEN DeflateBlocks ELSE InflateBlocks(w),
                      NoSession, NoContainer)
      BY <1>1, <2>2 DEF ZlibFirst
    <3>2. (IF z \in Deflaters THEN DeflateBlocks ELSE InflateBlocks(w)) \in [0 .. 4 -> BlockKinds]
      OBVIOUS
    <3>3. mark(o) /\ UNCHANGED <<live, used>>
      BY <1>1, <2>2 DEF ZlibFirst
    <3> HIDE DEF DeflateBlocks, InflateBlocks
    <3> QED BY <1>0, <3>1, <3>2, <3>3 DEF mark, SlotOK
  <2> QED BY <2>1, <2>2
<1>2. ASSUME NEW o \in Objects, NEW z \in Zlib, NEW finishes \in BOOLEAN, ZlibNext(o, z, finishes)
      PROVE  SlotOK'
  <2>1. CASE finishes
    <3>1. SetNil(o) /\ unmark(o) /\ UNCHANGED <<live, used>>
      BY <1>2, <2>1 DEF ZlibNext, Discard
    <3> QED BY <1>0, <3>1 DEF SetNil, unmark, SlotOK
  <2>2. CASE ~finishes
    <3>1. blocks' \in [Objects -> [0 .. 4 -> BlockKinds]]
      <4>1. [blocks[o] EXCEPT ![0] = "window"] \in [0 .. 4 -> BlockKinds]
        BY DEF SlotOK, BlockKinds
      <4>2. blocks' = blocks \/ blocks' = [blocks EXCEPT ![o] = [blocks[o] EXCEPT ![0] = "window"]]
        BY <1>2, <2>2 DEF ZlibNext, SlotOK
      <4> QED BY <4>1, <4>2 DEF SlotOK
    <3>2. saved' = [saved EXCEPT ![o] = TRUE] /\ UNCHANGED <<special, sig, session, rx, live, used>>
      BY <1>2, <2>2 DEF ZlibNext
    <3> QED BY <1>0, <3>1, <3>2 DEF SlotOK
  <2> QED BY <2>1, <2>2
<1>3. ASSUME NEW o \in Objects, NEW z \in Zlib, ZlibInitFails(o, z) PROVE SlotOK'
  BY <1>0, <1>3 DEF ZlibInitFails, mark, SlotOK
<1>4. ASSUME NEW o \in Objects, TlsStart(o) PROVE SlotOK'
  <2>1. PICK s \in Sessions : SetValue(o, "tls", NoBlocks, s, NoContainer) /\ live' = live \cup {s}
    BY <1>4 DEF TlsStart
  <2>2. mark(o) /\ UNCHANGED used
    BY <1>4 DEF TlsStart
  <2> QED BY <1>0, <2>1, <2>2 DEF mark, SlotOK
<1>5. ASSUME NEW o \in Objects, TlsClose(o) PROVE SlotOK'
  BY <1>0, <1>5 DEF TlsClose, unmark, SlotOK
<1>6. ASSUME NEW o \in Objects, NEW pattern \in Patterns, NEW casef \in BOOLEAN,
             Regexp(o, pattern, casef)
      PROVE  SlotOK'
  <2> DEFINE new == [pattern |-> pattern, nocase |-> casef, code |-> <<pattern, casef>>]
             old == rgx_get(o)
  <2>1. old \in Container /\ new \in Container
    BY DEF rgx_get, SlotOK
  <2>2. mark(o) /\ UNCHANGED live
    BY <1>6 DEF Regexp
  <2>3. PICK c \in {old, new} : SetValue(o, "regexp", NoBlocks, NoSession, c)
    BY <1>6 DEF Regexp
  <2>4. used' \in [Objects -> [asked : Compiled \cup {NoPattern}, code : Compiled \cup {NoPattern}]]
    <3>1. \A d \in {old, new} : [asked |-> <<pattern, casef>>, code |-> d.code] \in
                  [asked : Compiled \cup {NoPattern}, code : Compiled \cup {NoPattern}]
      BY <2>1 DEF Container, Compiled
    <3>2. \/ UNCHANGED used
          \/ \E d \in {old, new} :
                used' = [used EXCEPT ![o] = [asked |-> <<pattern, casef>>, code |-> d.code]]
      BY <1>6 DEF Regexp
    <3> HIDE DEF old, new
    <3> QED BY <3>1, <3>2 DEF SlotOK
  <2> HIDE DEF old, new
  <2> QED BY <1>0, <2>1, <2>2, <2>3, <2>4 DEF mark, SlotOK
<1>7. ASSUME NEW o \in Objects, DriverMarks(o) \/ DriverUnmarks(o) PROVE SlotOK'
  BY <1>0, <1>7 DEF DriverMarks, DriverUnmarks, unmark, zlibVars, tlsVars, rgxVars, SlotOK
<1>8. ASSUME NEW o \in Objects, Destruct(o) PROVE SlotOK'
  BY <1>0, <1>8 DEF Destruct, SetNil, unmark, NotUsed, SlotOK
<1>9. CASE Restart
  BY <1>0, <1>9 DEF Restart, zlibVars, rgxVars, SlotOK
<1>10. CASE UNCHANGED slotVars
  BY <1>0, <1>10 DEF slotVars, zlibVars, tlsVars, rgxVars, SlotOK
<1> QED BY <1>1, <1>2, <1>3, <1>4, <1>5, <1>6, <1>7, <1>8, <1>9, <1>10 DEF SlotNext

(* Type correctness, for any events.                                       *)
THEOREM SlotTypeCorrect == SlotSpec => []SlotOK
BY SlotTypeInit, SlotTypeNext, PTL DEF SlotSpec

-----------------------------------------------------------------------------
(* Hands.                                                                  *)
(***************************************************************************)
(* What one step may do to an object that is and stays special.            *)
KeepsHand(o) ==
    special[o] # "no" /\ special'[o] # "no" =>
        /\ special'[o] = special[o]
        /\ sig'[o] = sig[o]
        /\ special[o] = "driver" \/ sig[o] = "tls" => session'[o] = session[o]

LEMMA HandStep == ASSUME SlotOK, [SlotNext]_slotVars, NEW p \in Objects PROVE KeepsHand(p)
<1> USE DEF KeepsHand, SlotOK, mark, unmark, SetNil, SetValue, IsMarkedBy
<1>1. ASSUME NEW o \in Objects, NEW z \in Zlib, NEW finishes \in BOOLEAN,
             ZlibFirst(o, z, finishes) \/ ZlibNext(o, z, finishes) \/ ZlibInitFails(o, z)
      PROVE  KeepsHand(p)
  <2>1. CASE ZlibFirst(o, z, finishes)
    <3>1. special[o] = "no" /\ \E b, name : SetValue(o, name, b, NoSession, NoContainer)
      BY <2>1 DEF ZlibFirst, Discard
    <3>2. finishes => unmark(o)
      BY <2>1 DEF ZlibFirst, Discard
    <3>3. ~finishes => mark(o)
      BY <2>1 DEF ZlibFirst
    <3> QED BY <3>1, <3>2, <3>3
  <2>2. CASE ZlibNext(o, z, finishes)
    <3>1. z # "tls" BY DEF Zlib, Deflaters, Inflaters
    <3> QED BY <2>2, <3>1 DEF ZlibNext, Discard
  <2>3. CASE ZlibInitFails(o, z)
    BY <2>3 DEF ZlibInitFails
  <2> QED BY <1>1, <2>1, <2>2, <2>3
<1>2. ASSUME NEW o \in Objects, TlsStart(o) \/ TlsClose(o) PROVE KeepsHand(p)
  BY <1>2 DEF TlsStart, TlsClose
<1>3. ASSUME NEW o \in Objects, NEW pattern \in Patterns, NEW casef \in BOOLEAN,
             Regexp(o, pattern, casef)
      PROVE  KeepsHand(p)
  <2>1. \E c : SetValue(o, "regexp", NoBlocks, NoSession, c)
    BY <1>3 DEF Regexp
  <2>2. mark(o) /\ (special[o] = "no" \/ IsMarkedBy(o, "regexp"))
    BY <1>3 DEF Regexp
  <2> QED BY <2>1, <2>2
<1>4. ASSUME NEW o \in Objects, DriverMarks(o) \/ DriverUnmarks(o) \/ Destruct(o)
      PROVE  KeepsHand(p)
  BY <1>4 DEF DriverMarks, DriverUnmarks, Destruct, zlibVars, tlsVars, rgxVars
<1>5. CASE Restart \/ UNCHANGED slotVars
  BY <1>5 DEF Restart, slotVars, zlibVars, tlsVars, rgxVars
<1> QED BY <1>1, <1>2, <1>3, <1>4, <1>5 DEF SlotNext

(* No step of a kfun, whatever the host does besides, takes an object from *)
(* its user.                                                               *)
THEOREM HandsKept == SlotSpec => KeepsHands
<1>1. SlotOK /\ [SlotNext]_slotVars =>
        [\A o \in Objects : special[o] # "no" /\ special'[o] # "no" =>
            /\ special'[o] = special[o]
            /\ sig'[o] = sig[o]
            /\ special[o] = "driver" \/ sig[o] = "tls" => session'[o] = session[o]]_slotVars
  BY HandStep DEF KeepsHand
<1> QED BY <1>1, SlotTypeCorrect, PTL DEF SlotSpec, KeepsHands

-----------------------------------------------------------------------------
(* Sessions.                                                               *)
(***************************************************************************)
IsTls(o) == IsMarkedBy(o, "tls")

(* All but two of the actions leave the sessions and those who have them   *)
(* alone.                                                                  *)
LeavesTls ==
    /\ live' = live
    /\ \A p \in Objects : (IsTls(p)' <=> IsTls(p)) /\ (IsTls(p) => session'[p] = session[p])

LEMMA OthersLeaveTls ==
    ASSUME SlotOK, [SlotNext]_slotVars, ~Restart,
           ~\E o \in Objects : TlsStart(o) \/ TlsClose(o) \/ Destruct(o)
    PROVE  LeavesTls
<1> USE DEF LeavesTls, IsTls, IsMarkedBy, SlotOK, mark, unmark, SetNil, SetValue
<1>1. ASSUME NEW o \in Objects, NEW z \in Zlib, NEW finishes \in BOOLEAN,
             ZlibFirst(o, z, finishes) \/ ZlibNext(o, z, finishes) \/ ZlibInitFails(o, z)
      PROVE  LeavesTls
  <2>1. z # "tls" BY DEF Zlib, Deflaters, Inflaters
  <2>2. CASE ZlibFirst(o, z, finishes)
    <3>1. PICK b \in {NoBlocks, DeflateBlocks, InflateBlocks(TRUE), InflateBlocks(FALSE)},
               name \in {"nil", z} :
             SetValue(o, name, b, NoSession, NoContainer)
      BY <2>2 DEF ZlibFirst, Discard
    <3>2. special[o] = "no" /\ live' = live
      BY <2>2 DEF ZlibFirst
    <3>3. unmark(o) \/ mark(o)
      BY <2>2 DEF ZlibFirst, Discard
    <3> HIDE DEF NoBlocks, DeflateBlocks, InflateBlocks
    <3> QED BY <2>1, <3>1, <3>2, <3>3
  <2>3. CASE ZlibNext(o, z, finishes)
    BY <2>1, <2>3 DEF ZlibNext, Discard
  <2>4. CASE ZlibInitFails(o, z)
    BY <2>1, <2>4 DEF ZlibInitFails
  <2> QED BY <1>1, <2>2, <2>3, <2>4
<1>2. ASSUME NEW o \in Objects, NEW pattern \in Patterns, NEW casef \in BOOLEAN,
             Regexp(o, pattern, casef)
      PROVE  LeavesTls
  <2>1. \E c : SetValue(o, "regexp", NoBlocks, NoSession, c)
    BY <1>2 DEF Regexp
  <2>2. mark(o) /\ (special[o] = "no" \/ IsMarkedBy(o, "regexp")) /\ UNCHANGED live
    BY <1>2 DEF Regexp
  <2> QED BY <2>1, <2>2
<1>3. ASSUME NEW o \in Objects, DriverMarks(o) \/ DriverUnmarks(o) PROVE LeavesTls
  BY <1>3 DEF DriverMarks, DriverUnmarks, zlibVars, tlsVars, rgxVars
<1>4. CASE UNCHANGED slotVars
  BY <1>4 DEF slotVars, zlibVars, tlsVars, rgxVars
<1> QED BY <1>1, <1>2, <1>3, <1>4 DEF SlotNext

SessionsInv == SessionsLive /\ SessionsReachable

LEMMA SessionsNext == SlotOK /\ SessionsInv /\ [SlotNext]_slotVars => SessionsInv'
<1> SUFFICES ASSUME SlotOK, SessionsInv, [SlotNext]_slotVars PROVE SessionsInv'
  OBVIOUS
<1> USE HappenedNext
<1>1. CASE ~Restart /\ ~\E o \in Objects : TlsStart(o) \/ TlsClose(o) \/ Destruct(o)
  <2>1. LeavesTls
    BY <1>1, OthersLeaveTls
  <2>2. SessionsLive'
    BY <2>1 DEF LeavesTls, SessionsInv, SessionsLive, IsTls, IsMarkedBy
  <2>3. SessionsReachable'
    BY <2>1 DEF LeavesTls, SessionsInv, SessionsReachable, IsTls, IsMarkedBy
  <2> QED BY <2>2, <2>3 DEF SessionsInv
<1>2. ASSUME NEW o \in Objects, TlsStart(o) PROVE SessionsInv'
  <2>1. PICK s \in Sessions \ live :
           live' = live \cup {s} /\ SetValue(o, "tls", NoBlocks, s, NoContainer)
    BY <1>2 DEF TlsStart
  <2>2. /\ IsTls(o)' /\ session'[o] = s
        /\ ~IsTls(o)
        /\ \A p \in Objects \ {o} : (IsTls(p)' <=> IsTls(p)) /\ session'[p] = session[p]
    BY <1>2, <2>1 DEF TlsStart, mark, SetValue, IsTls, IsMarkedBy, SlotOK
  <2>3. SessionsLive'
    BY <2>1, <2>2 DEF SessionsInv, SessionsLive, IsTls
  <2>4. SessionsReachable'
    BY <2>1, <2>2 DEF SessionsInv, SessionsReachable, IsTls
  <2> QED BY <2>3, <2>4 DEF SessionsInv
<1>3. ASSUME NEW o \in Objects, TlsClose(o) PROVE SessionsInv'
  <2>1. /\ live' = live \ {session[o]}
        /\ IsTls(o) /\ ~IsTls(o)'
        /\ \A p \in Objects \ {o} : IsTls(p)' <=> IsTls(p)
        /\ session' = session
    BY <1>3 DEF TlsClose, unmark, IsTls, IsMarkedBy, SlotOK
  <2>2. SessionsLive'
    BY <2>1 DEF SessionsInv, SessionsLive, IsTls
  <2>3. SessionsReachable'
    BY <2>1 DEF SessionsInv, SessionsReachable, IsTls
  <2> QED BY <2>2, <2>3 DEF SessionsInv
<1>4. ASSUME NEW o \in Objects, Destruct(o) PROVE SessionsInv'
  <2>1. live' = live /\ "destruct" \in happened'
    BY <1>4 DEF Destruct, Happens, SlotOK
  <2>2. \A p \in Objects : IsTls(p)' => IsTls(p) /\ session'[p] = session[p]
    BY <1>4 DEF Destruct, SetNil, SetValue, unmark, IsTls, IsMarkedBy, SlotOK
  <2> QED BY <2>1, <2>2 DEF SessionsInv, SessionsLive, SessionsReachable, IsTls
<1>5. CASE Restart
  BY <1>5 DEF Restart, Happens, SessionsInv, SessionsLive, SessionsReachable, SlotOK
<1> QED BY <1>1, <1>2, <1>3, <1>4, <1>5

LEMMA SessionsAlways == SlotSpec => []SessionsInv
<1>1. SlotInit => SessionsInv
  BY DEF SlotInit, SessionsInv, SessionsLive, SessionsReachable, IsMarkedBy
<1>2. SlotOK /\ SessionsInv /\ [SlotNext]_slotVars => SessionsInv'
  BY SessionsNext
<1> QED BY <1>1, <1>2, SlotTypeCorrect, PTL DEF SlotSpec

(* The pointers that tls_send, tls_receive and tls_close follow are those  *)
(* of an existing session, of this object alone.                           *)
THEOREM SessionsStayLive == SlotSpec => []SessionsLive
<1>1. SessionsInv => SessionsLive BY DEF SessionsInv
<1> QED BY <1>1, SessionsAlways, PTL

(* No session is left without an object through which it can be closed.    *)
THEOREM SessionsStayReachable == SlotSpec => []SessionsReachable
<1>1. SessionsInv => SessionsReachable BY DEF SessionsInv
<1> QED BY <1>1, SessionsAlways, PTL

-----------------------------------------------------------------------------
(* Patterns.                                                               *)
(***************************************************************************)
(* What a container holds is what its pattern and flag compile to.         *)
IsOwn(c) == c.pattern \in Patterns => c.code = <<c.pattern, c.nocase>>
ContainersOwn == \A o \in Objects : IsOwn(rx[o])

LEMMA PatternsNext ==
    SlotOK /\ ContainersOwn /\ MatchesAsked /\ [SlotNext]_slotVars => ContainersOwn' /\ MatchesAsked'
<1> SUFFICES ASSUME SlotOK, ContainersOwn, MatchesAsked, [SlotNext]_slotVars
             PROVE  ContainersOwn' /\ MatchesAsked'
  OBVIOUS
<1> USE NoPatternAssumption
<1>0. IsOwn(NoContainer) BY DEF IsOwn, NoContainer
<1>1. ASSUME NEW o \in Objects, NEW pattern \in Patterns, NEW casef \in BOOLEAN,
             Regexp(o, pattern, casef)
      PROVE  ContainersOwn' /\ MatchesAsked'
  <2> DEFINE new == [pattern |-> pattern, nocase |-> casef, code |-> <<pattern, casef>>]
             old == rgx_get(o)
  <2>1. IsOwn(old) /\ IsOwn(new)
    BY <1>0 DEF IsOwn, rgx_get, ContainersOwn
  <2>2. rgx_same(old, pattern, casef) => old.code = <<pattern, casef>>
    BY <2>1 DEF rgx_same, IsOwn
  <2>3. new.code = <<pattern, casef>> OBVIOUS
  <2>4. PICK c \in {old, new} :
           /\ SetValue(o, "regexp", NoBlocks, NoSession, c)
           /\ \/ UNCHANGED used
              \/ /\ c = IF rgx_same(old, pattern, casef) THEN old ELSE new
                 /\ used' = [used EXCEPT ![o] = [asked |-> <<pattern, casef>>, code |-> c.code]]
    BY <1>1 DEF Regexp
  <2> HIDE DEF old, new
  <2>5. ContainersOwn'
    BY <2>1, <2>4 DEF SetValue, ContainersOwn, SlotOK
  <2>6. MatchesAsked'
    <3>1. CASE UNCHANGED used
      BY <3>1 DEF MatchesAsked
    <3>2. CASE ~UNCHANGED used
      <4>1. used' = [used EXCEPT ![o] = [asked |-> <<pattern, casef>>, code |-> c.code]]
        BY <2>4, <3>2
      <4>2. c.code = <<pattern, casef>>
        BY <2>2, <2>3, <2>4, <3>2
      <4> QED BY <4>1, <4>2 DEF MatchesAsked, SlotOK
    <3> QED BY <3>1, <3>2
  <2> QED BY <2>5, <2>6
<1>2. CASE ~\E o \in Objects, pattern \in Patterns, casef \in BOOLEAN : Regexp(o, pattern, casef)
  <2>1. /\ \A o \in Objects : rx'[o] = rx[o] \/ rx'[o] = NoContainer
        /\ \A o \in Objects : used'[o] = used[o] \/ used'[o] = NotUsed
    <3> USE DEF SetNil, SetValue, SlotOK
    <3>1. ASSUME NEW o \in Objects, NEW z \in Zlib, NEW finishes \in BOOLEAN,
                 ZlibFirst(o, z, finishes) \/ ZlibNext(o, z, finishes) \/ ZlibInitFails(o, z)
          PROVE  used' = used /\ (rx' = rx \/ rx' = [rx EXCEPT ![o] = NoContainer])
      BY <3>1 DEF ZlibFirst, ZlibNext, ZlibInitFails, Discard
    <3>2. ASSUME NEW o \in Objects, TlsStart(o) \/ TlsClose(o)
          PROVE  used' = used /\ (rx' = rx \/ rx' = [rx EXCEPT ![o] = NoContainer])
      BY <3>2 DEF TlsStart, TlsClose
    <3>3. ASSUME NEW o \in Objects, DriverMarks(o) \/ DriverUnmarks(o)
          PROVE  used' = used /\ rx' = rx
      BY <3>3 DEF DriverMarks, DriverUnmarks, rgxVars
    <3>4. ASSUME NEW o \in Objects, Destruct(o)
          PROVE  used' = [used EXCEPT ![o] = NotUsed] /\ rx' = [rx EXCEPT ![o] = NoContainer]
      BY <3>4 DEF Destruct
    <3>5. CASE Restart \/ UNCHANGED slotVars
      BY <3>5 DEF Restart, slotVars, rgxVars
    <3> QED BY <1>2, <3>1, <3>2, <3>3, <3>4, <3>5 DEF SlotNext
  <2>2. ContainersOwn'
    BY <1>0, <2>1 DEF ContainersOwn
  <2>3. MatchesAsked'
    BY <2>1 DEF MatchesAsked, NotUsed
  <2> QED BY <2>2, <2>3
<1> QED BY <1>1, <1>2

(* A match is made with the code of the pattern and the flag asked for.    *)
THEOREM MatchesAreAsked == SlotSpec => []MatchesAsked
<1>1. SlotInit => ContainersOwn /\ MatchesAsked
  BY NoPatternAssumption
     DEF SlotInit, ContainersOwn, IsOwn, NoContainer, MatchesAsked, NotUsed
<1> QED BY <1>1, PatternsNext, SlotTypeCorrect, PTL DEF SlotSpec

-----------------------------------------------------------------------------
(* States of (de)compression.                                              *)
(***************************************************************************)
(* No initialisation has failed, and no window was allocated late.         *)
Prompt == happened \cap {"init", "late"} = {}

Restorable(o) ==
    sig[o] \in Zlib => /\ saved[o]
                       /\ blocks[o] = DeflateBlocks \/ blocks[o] = InflateBlocks(TRUE)
                          \/ blocks[o] = InflateBlocks(FALSE)

LEMMA RestorableNext ==
    ASSUME SlotOK, \A o \in Objects : Restorable(o), Prompt', [SlotNext]_slotVars, NEW p \in Objects
    PROVE  Restorable(p)'
<1> USE DEF Restorable, SlotOK, mark, unmark, SetNil, SetValue, Zlib, Deflaters, Inflaters
<1> HIDE DEF DeflateBlocks, InflateBlocks
<1>1. ASSUME NEW o \in Objects, NEW z \in Zlib, NEW finishes \in BOOLEAN,
             ZlibFirst(o, z, finishes)
      PROVE  Restorable(p)'
  <2>1. CASE finishes
    <3>1. SetNil(o) BY <1>1, <2>1 DEF ZlibFirst, Discard
    <3> QED BY <3>1
  <2>2. CASE ~finishes
    <3>1. \E b \in {DeflateBlocks, InflateBlocks(TRUE), InflateBlocks(FALSE)} :
             SetValue(o, z, b, NoSession, NoContainer)
      BY <1>1, <2>2 DEF ZlibFirst
    <3> QED BY <3>1
  <2> QED BY <2>1, <2>2
<1>2. ASSUME NEW o \in Objects, NEW z \in Zlib, NEW finishes \in BOOLEAN,
             ZlibNext(o, z, finishes)
      PROVE  Restorable(p)'
  <2>1. CASE finishes
    <3>1. SetNil(o) BY <1>2, <2>1 DEF ZlibNext, Discard
    <3> QED BY <3>1
  <2>2. CASE ~finishes
    <3>1. UNCHANGED blocks
      BY <1>2, <2>2 DEF ZlibNext, Happens, Prompt
    <3> QED BY <1>2, <2>2, <3>1 DEF ZlibNext
  <2> QED BY <2>1, <2>2
<1>3. ASSUME NEW o \in Objects, NEW z \in Zlib, ZlibInitFails(o, z) PROVE FALSE
  BY <1>3 DEF ZlibInitFails, Happens, Prompt
<1>4. ASSUME NEW o \in Objects, TlsStart(o) \/ TlsClose(o) PROVE Restorable(p)'
  BY <1>4 DEF TlsStart, TlsClose
<1>5. ASSUME NEW o \in Objects, NEW pattern \in Patterns, NEW casef \in BOOLEAN,
             Regexp(o, pattern, casef)
      PROVE  Restorable(p)'
  <2>1. \E c : SetValue(o, "regexp", NoBlocks, NoSession, c)
    BY <1>5 DEF Regexp
  <2> QED BY <2>1
<1>6. ASSUME NEW o \in Objects, DriverMarks(o) \/ DriverUnmarks(o) \/ Destruct(o)
      PROVE  Restorable(p)'
  BY <1>6 DEF DriverMarks, DriverUnmarks, Destruct, zlibVars, tlsVars, rgxVars
<1>7. CASE Restart \/ UNCHANGED slotVars
  BY <1>7 DEF Restart, slotVars, zlibVars, tlsVars, rgxVars
<1> HIDE DEF Restorable, SlotOK, Zlib
<1> QED BY <1>1, <1>2, <1>3, <1>4, <1>5, <1>6, <1>7 DEF SlotNext

(* Between two calls a (de)compression state can be restored.              *)
THEOREM StateStaysRestorable == SlotSpec => []StateRestorable
<1> DEFINE All == Prompt => \A o \in Objects : Restorable(o)
<1>1. SlotInit => All
  BY DEF SlotInit, Restorable, Zlib, Deflaters, Inflaters
<1>2. SlotOK /\ All /\ [SlotNext]_slotVars => All'
  BY RestorableNext, HappenedNext DEF Prompt
<1>3. All => StateRestorable
  BY DEF Restorable, StateRestorable, IsMarkedBy, Prompt
<1> HIDE DEF All
<1> QED BY <1>1, <1>2, <1>3, SlotTypeCorrect, PTL DEF SlotSpec
=============================================================================
