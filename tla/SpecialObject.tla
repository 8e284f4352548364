--------------------------- MODULE SpecialObject ---------------------------
(***************************************************************************)
(* The one slot that an object has for all extensions (doc/extensions.md,  *)
(* section 3): a mark and an LPC value, as the kfuns of zlib.c, tls.c and  *)
(* regexp.c use it side by side.  The value is an array that begins with   *)
(* the name of its user; what follows is a (de)compression state in        *)
(* blocks, the pointers of a TLS session, or a compiled pattern.           *)
(*                                                                         *)
(* A kfun has the object to itself while it runs, so that a call is one    *)
(* action.  Calls that are refused change nothing and are no actions.      *)
(***************************************************************************)
EXTENDS Naturals, FiniteSets

CONSTANTS
    Objects,      \* persistent objects
    Sessions,     \* addresses of TLS sessions
    Patterns,     \* regular expressions
    NoSession, NoPattern,
    Events        \* what else may happen: see EventKinds

(* "driver": objects that the host makes special for itself come and go;   *)
(* "destruct": objects are destructed; "restart": the host restarts from   *)
(* a snapshot; "init": deflateInit2 or inflateInit2 fails; "late":         *)
(* inflate() allocates its window after the first call of the kfun.        *)
EventKinds == {"driver", "destruct", "restart", "init", "late"}

ASSUME EventsAssumption    == Events \subseteq EventKinds
ASSUME NoSessionAssumption == NoSession \notin Sessions
ASSUME NoPatternAssumption == NoPattern \notin Patterns

VARIABLES
    special,      \* what the object is special for: nothing, the driver, a kfun
    sig,          \* the first element of the value, "nil" for no value
    blocks,       \* (de)compression: what is in the elements from A_ALLOCATED on
    saved,        \* (de)compression: pointers are offsets, tails are put aside
    session,      \* TLS: the pointers in the value
    live,         \* TLS: the sessions that exist
    rx,           \* regexp: pattern, flag and compiled code in the value
    used,         \* regexp: what was asked for in the last match, and what was used
    happened      \* a history variable: the kinds of events that have happened

zlibVars == <<blocks, saved>>
tlsVars == <<session, live>>
rgxVars == <<rx, used>>
slotVars == <<special, sig, zlibVars, tlsVars, rgxVars, happened>>

Deflaters == {"gzip", "deflate"}
Inflaters == {"gunzip", "inflate"}
Zlib == Deflaters \cup Inflaters

BlockKinds == {"nil", "state", "window", "prev", "head", "pending"}
NoBlocks == [k \in 0 .. 4 |-> "nil"]

(* deflateInit2() allocates all that deflate() needs; inflateInit2() only  *)
(* the state, and inflate() adds the window when it first has output.      *)
DeflateBlocks ==
    [k \in 0 .. 4 |-> CASE k = 0 -> "state" [] k = 1 -> "window" [] k = 2 -> "prev"
                        [] k = 3 -> "head" [] k = 4 -> "pending"]
InflateBlocks(window) ==
    [k \in 0 .. 4 |-> IF k = 0 THEN "state" ELSE IF k = 1 /\ window THEN "window" ELSE "nil"]

(* A pattern with its flag, and what becomes of it.                        *)
Compiled == Patterns \X BOOLEAN
Container == [pattern : Patterns \cup {NoPattern}, nocase : BOOLEAN,
              code : Compiled \cup {NoPattern}]
NoContainer == [pattern |-> NoPattern, nocase |-> FALSE, code |-> NoPattern]
NotUsed == [asked |-> NoPattern, code |-> NoPattern]

SlotOK ==
    /\ special \in [Objects -> {"no", "driver", "marked"}]
    /\ sig \in [Objects -> Zlib \cup {"nil", "tls", "regexp"}]
    /\ blocks \in [Objects -> [0 .. 4 -> BlockKinds]]
    /\ saved \in [Objects -> BOOLEAN]
    /\ session \in [Objects -> Sessions \cup {NoSession}]
    /\ live \subseteq Sessions
    /\ rx \in [Objects -> Container]
    /\ used \in [Objects -> [asked : Compiled \cup {NoPattern}, code : Compiled \cup {NoPattern}]]
    /\ happened \subseteq Events

SlotInit ==
    /\ special = [o \in Objects |-> "no"]
    /\ sig = [o \in Objects |-> "nil"]
    /\ blocks = [o \in Objects |-> NoBlocks]
    /\ saved = [o \in Objects |-> FALSE]
    /\ session = [o \in Objects |-> NoSession]
    /\ live = {}
    /\ rx = [o \in Objects |-> NoContainer]
    /\ used = [o \in Objects |-> NotUsed]
    /\ happened = {}

(* An event that the properties tell apart.                                *)
Happens(event) == event \in Events /\ happened' = happened \cup {event}

-----------------------------------------------------------------------------
(* The slot.                                                               *)
(***************************************************************************)
mark(o) == special' = [special EXCEPT ![o] = "marked"]
unmark(o) == special' = [special EXCEPT ![o] = "no"]
IsMarkedBy(o, name) == special[o] = "marked" /\ sig[o] = name

(* The value of an object becomes an array for a user, or nil; whatever    *)
(* was in it before is gone.                                               *)
SetValue(o, name, b, s, c) ==
    /\ sig' = [sig EXCEPT ![o] = name]
    /\ blocks' = [blocks EXCEPT ![o] = b]
    /\ saved' = [saved EXCEPT ![o] = name \in Zlib]
    /\ session' = [session EXCEPT ![o] = s]
    /\ rx' = [rx EXCEPT ![o] = c]

SetNil(o) == SetValue(o, "nil", NoBlocks, NoSession, NoContainer)

-----------------------------------------------------------------------------
(* gzip(), gunzip(), deflate(), inflate()                                  *)
(***************************************************************************)
(* finish(): the value is reset, then the mark.                            *)
Discard(o) ==
    /\ SetNil(o)
    /\ unmark(o)

(* The first call: check() marks the object, init() makes the array.  The  *)
(* blocks go to consecutive elements.  A call without a string also        *)
(* finishes.                                                               *)
ZlibFirst(o, z, finishes) ==
    /\ special[o] = "no"
    /\ IF finishes
         THEN Discard(o)
         ELSE /\ mark(o)
              /\ \E w \in IF "late" \in Events THEN BOOLEAN ELSE {TRUE} :
                    SetValue(o, z, IF z \in Deflaters THEN DeflateBlocks ELSE InflateBlocks(w),
                             NoSession, NoContainer)
    /\ UNCHANGED <<live, used, happened>>

(* ...in which the initialisation fails: the error leaves the object       *)
(* marked, with an array without blocks.                                   *)
ZlibInitFails(o, z) ==
    /\ special[o] = "no"
    /\ mark(o)
    /\ sig' = [sig EXCEPT ![o] = z]
    /\ blocks' = [blocks EXCEPT ![o] = NoBlocks]
    /\ saved' = [saved EXCEPT ![o] = FALSE]
    /\ session' = [session EXCEPT ![o] = NoSession]
    /\ rx' = [rx EXCEPT ![o] = NoContainer]
    /\ Happens("init")
    /\ UNCHANGED <<live, used>>

(* A mutant: check() does not look at the name in the array.               *)
ZlibNext_AnyName(o, z, finishes) ==
    /\ special[o] = "marked"
    /\ IF finishes THEN Discard(o)
       ELSE /\ sig' = [sig EXCEPT ![o] = z]
            /\ UNCHANGED <<special, blocks, saved, session, rx>>
    /\ UNCHANGED <<live, used, happened>>

(* A mutant: the state is not saved after a call that continues.           *)
ZlibNext_Unsaved(o, z, finishes) ==
    /\ IsMarkedBy(o, z)
    /\ blocks[o][0] = "state"
    /\ IF finishes THEN Discard(o)
       ELSE /\ saved' = [saved EXCEPT ![o] = FALSE]
            /\ UNCHANGED <<special, sig, session, blocks, rx>>
    /\ UNCHANGED <<live, used, happened>>

(* A following call: the blocks are restored from the array, and saved     *)
(* again or, without a string, discarded.  A window that inflate() still   *)
(* has to allocate goes to the first element of the blocks, since          *)
(* context.index starts there again.                                       *)
ZlibNext(o, z, finishes) ==
    /\ IsMarkedBy(o, z)
    /\ blocks[o][0] = "state"
    /\ IF finishes
         THEN Discard(o) /\ UNCHANGED happened
         ELSE /\ \/ UNCHANGED <<blocks, happened>>
                 \/ /\ z \in Inflaters
                    /\ blocks[o][1] = "nil"
                    /\ blocks' = [blocks EXCEPT ![o][0] = "window"]
                    /\ Happens("late")
              /\ saved' = [saved EXCEPT ![o] = TRUE]
              /\ UNCHANGED <<special, sig, session, rx>>
    /\ UNCHANGED <<live, used>>

-----------------------------------------------------------------------------
(* tls_server(), tls_client(), tls_close()                                 *)
(***************************************************************************)
(* A session is set up, and its pointers saved in the object.  A session   *)
(* that cannot be set up, or has a bad certificate, is freed at once, and  *)
(* the object left as it was.                                              *)
TlsStart(o) ==
    /\ special[o] = "no"
    /\ \E s \in Sessions \ live :
          /\ live' = live \cup {s}
          /\ SetValue(o, "tls", NoBlocks, s, NoContainer)
    /\ mark(o)
    /\ UNCHANGED <<used, happened>>

(* A mutant: the mark stays when the session is freed.                     *)
TlsClose_StaysMarked(o) ==
    /\ IsMarkedBy(o, "tls")
    /\ live' = live \ {session[o]}
    /\ UNCHANGED <<special, sig, blocks, saved, session, rx, used, happened>>

(* The session is freed and the object unmarked; the value stays.          *)
TlsClose(o) ==
    /\ IsMarkedBy(o, "tls")
    /\ live' = live \ {session[o]}
    /\ unmark(o)
    /\ UNCHANGED <<sig, blocks, saved, session, rx, used, happened>>

-----------------------------------------------------------------------------
(* regexp()                                                                *)
(***************************************************************************)
(* A mutant: the flag is not compared.                                     *)
rgx_same_AnyCase(c, pattern, casef) == c.pattern = pattern

(* Whether the container has this pattern, compiled with this flag.        *)
rgx_same(c, pattern, casef) == c.pattern = pattern /\ c.nocase = casef

(* The container of the object, a new one for an object without.           *)
rgx_get(o) == IF special[o] = "no" THEN NoContainer ELSE rx[o]

(* The pattern is compiled unless the container has it, and matched.  When *)
(* it does not compile the container keeps the pattern it had.             *)
Regexp(o, pattern, casef) ==
    /\ special[o] = "no" \/ IsMarkedBy(o, "regexp")
    /\ mark(o)
    /\ LET old == rgx_get(o)
           new == [pattern |-> pattern, nocase |-> casef, code |-> <<pattern, casef>>]
           same == rgx_same(old, pattern, casef)
       IN  \/ /\ \E c \in {IF same THEN old ELSE new} :
                    /\ SetValue(o, "regexp", NoBlocks, NoSession, c)
                    /\ used' = [used EXCEPT ![o] = [asked |-> <<pattern, casef>>, code |-> c.code]]
           \/ /\ ~same
              /\ SetValue(o, "regexp", NoBlocks, NoSession, old)
              /\ UNCHANGED used
    /\ UNCHANGED <<live, happened>>

-----------------------------------------------------------------------------
(* The host.                                                               *)
(***************************************************************************)
DriverMarks(o) ==
    /\ "driver" \in Events
    /\ special[o] = "no"
    /\ special' = [special EXCEPT ![o] = "driver"]
    /\ UNCHANGED <<sig, zlibVars, tlsVars, rgxVars, happened>>

DriverUnmarks(o) ==
    /\ special[o] = "driver"
    /\ unmark(o)
    /\ UNCHANGED <<sig, zlibVars, tlsVars, rgxVars, happened>>

(* The object is destructed; another takes its place.                      *)
Destruct(o) ==
    /\ Happens("destruct")
    /\ unmark(o)
    /\ SetNil(o)
    /\ used' = [used EXCEPT ![o] = NotUsed]
    /\ UNCHANGED live

(* Objects, marks and values come back; the memory of the extensions does  *)
(* not.                                                                    *)
Restart ==
    /\ Happens("restart")
    /\ live' = {}
    /\ UNCHANGED <<special, sig, zlibVars, session, rgxVars>>

SlotNext ==
    \/ \E o \in Objects :
          \/ \E z \in Zlib :
                \/ \E finishes \in BOOLEAN : ZlibFirst(o, z, finishes) \/ ZlibNext(o, z, finishes)
                \/ ZlibInitFails(o, z)
          \/ TlsStart(o) \/ TlsClose(o)
          \/ \E pattern \in Patterns, casef \in BOOLEAN : Regexp(o, pattern, casef)
          \/ DriverMarks(o) \/ DriverUnmarks(o) \/ Destruct(o)
    \/ Restart

SlotSpec == SlotInit /\ [][SlotNext]_slotVars

-----------------------------------------------------------------------------
(* Properties.                                                             *)
(***************************************************************************)
(* Every object that is marked for TLS has the pointers of a session of    *)
(* its own, that exists: tls_send, tls_receive and tls_close follow them   *)
(* without a test.  A restart of the host leaves objects whose pointers    *)
(* are those of another process.                                           *)
SessionsLive ==
    "restart" \notin happened =>
      \A o \in Objects : IsMarkedBy(o, "tls") =>
        /\ session[o] \in live
        /\ \A p \in Objects \ {o} : IsMarkedBy(p, "tls") => session[p] # session[o]

(* No session is lost: each one can still be closed through an object,     *)
(* unless the object was destructed.                                       *)
SessionsReachable ==
    "destruct" \notin happened =>
      \A s \in live : \E o \in Objects : IsMarkedBy(o, "tls") /\ session[o] = s

(* Between two calls a (de)compression state is as a following call        *)
(* expects it: each block in its place, and everything saved; but not once *)
(* an initialisation has failed, or a window was allocated late.           *)
StateRestorable ==
    happened \cap {"init", "late"} = {} =>
      \A o \in Objects, z \in Zlib : IsMarkedBy(o, z) =>
        /\ saved[o]
        /\ blocks[o] = DeflateBlocks \/ blocks[o] = InflateBlocks(TRUE)
           \/ blocks[o] = InflateBlocks(FALSE)

(* A kfun never touches the mark or the value of an object that is special  *)
(* for another one, or for the driver: an object changes hands only after   *)
(* it has not been special.                                                 *)
KeepsHands ==
    [][\A o \in Objects : special[o] # "no" /\ special'[o] # "no" =>
          /\ special'[o] = special[o]
          /\ sig'[o] = sig[o]
          /\ special[o] = "driver" \/ sig[o] = "tls" => session'[o] = session[o]]_slotVars

(* What a regular expression is matched with was compiled from the pattern *)
(* and the flag that were asked for, whatever failed to compile before.    *)
MatchesAsked == \A o \in Objects : used[o].code = used[o].asked

(* An object without a mark has no value (doc/extensions.md:113).          *)
ResetWhenUnmarked == \A o \in Objects : special[o] = "no" => sig[o] = "nil"
=============================================================================
