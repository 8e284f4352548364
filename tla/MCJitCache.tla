----------------------------- MODULE MCJitCache -----------------------------
(* Small instances of JitCache for TLC: three objects, two of which share  *)
(* a program.                                                              *)
EXTENDS JitCache, TLC

CONSTANTS o1, o2, o3, h1, h2

(* o1 and o2 have the same program.                                        *)
MCProgOf == o1 :> h1 @@ o2 :> h1 @@ o3 :> h2

(* Two objects of one program only.                                        *)
MCSharedProgOf == o1 :> h1 @@ o2 :> h1
=============================================================================
