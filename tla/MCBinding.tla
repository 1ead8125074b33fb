----------------------------- MODULE MCBinding -----------------------------
(* Two processes bind the tasks of a board that p1 knows by the trace z is keyed for, and p2 by *)
(* that of x, the parent of z.  One of them is in trouble once.                                 *)
EXTENDS Binding, TLC
CONSTANTS p1, p2, x, z, kA, kB, A, B

MCTokenOf == (x :> kB) @@ (z :> kA)
MCParents == (x :> {}) @@ (z :> {x})
MCTraceOf == (kA :> A) @@ (kB :> B)
MCBoard == (p1 :> A) @@ (p2 :> B)
MCLaunch == (p1 :> None) @@ (p2 :> z)
=============================================================================
