----------------------------- MODULE NativeCode -----------------------------
(***************************************************************************)
(* What the JIT cache promises its host, without the tables, messages and  *)
(* files behind it.  An object is announced to the module once (the call   *)
(* that returns -1); at some time it may get native code, several objects  *)
(* at once when they have the same program; the host uses native code only *)
(* of objects that have it; and the module withdraws it only from objects  *)
(* that the host has released.                                             *)
(***************************************************************************)
CONSTANTS
    Threads,         \* the host's threads
    Objects          \* the host's objects

VARIABLES
    known,           \* objects the module has been asked about
    asked,           \* <<t, o>>: thread t has just been asked to compile o
    native,          \* objects that a lookup would find native code for
    inUse,           \* objects whose native code the host is using
    released         \* objects the host has released

vars == <<known, asked, native, inUse, released>>

Init ==
    /\ known = {}
    /\ asked = {}
    /\ native = {}
    /\ inUse = {}
    /\ released = {}

(* The first lookup of an object, and only the first, asks the thread that *)
(* made it for a compile.                                                  *)
Announce(t, o) ==
    /\ o \notin known \cup released
    /\ known' = known \cup {o}
    /\ asked' = asked \cup {<<t, o>>}
    /\ UNCHANGED <<native, inUse, released>>

(* The host asks for it; the program may have its native code already.     *)
Compile(t, o) ==
    /\ <<t, o>> \in asked
    /\ asked' = asked \ {<<t, o>>}
    /\ native' \in {native, native \cup {o}}
    /\ UNCHANGED <<known, inUse, released>>

(* Known objects get native code.                                          *)
Provide(objs) ==
    /\ objs \subseteq known
    /\ native' = native \cup objs
    /\ UNCHANGED <<known, asked, inUse, released>>

(* A lookup finds native code, and the host starts using it.               *)
Use(o) ==
    /\ o \in native \ released
    /\ inUse' = inUse \cup {o}
    /\ UNCHANGED <<known, asked, native, released>>

(* The host is done with the native code of an object.                     *)
Leave(o) ==
    /\ inUse' = inUse \ {o}
    /\ UNCHANGED <<known, asked, native, released>>

(* The host releases an object that it uses no more.                       *)
GiveUp(o) ==
    /\ released' = released \cup {o}
    /\ inUse' = inUse \ {o}
    /\ UNCHANGED <<known, asked, native>>

(* The module forgets an object, which must have been released.            *)
Forget(o) ==
    /\ o \in released
    /\ \A t \in Threads : <<t, o>> \notin asked
    /\ known' = known \ {o}
    /\ native' = native \ {o}
    /\ UNCHANGED <<asked, inUse, released>>

(* The host process ends, and another begins.                              *)
Restart ==
    /\ known' = {}
    /\ asked' = {}
    /\ native' = {}
    /\ inUse' = {}
    /\ released' = {}

Next ==
    \/ \E t \in Threads, o \in Objects : Announce(t, o) \/ Compile(t, o)
    \/ \E o \in Objects : Use(o) \/ Leave(o) \/ GiveUp(o) \/ Forget(o)
    \/ \E objs \in SUBSET Objects : Provide(objs)
    \/ Restart

Spec == Init /\ [][Next]_vars
=============================================================================
