---------------------------- MODULE MC_TokenRing ----------------------------
(***************************************************************************)
(* TokenRing for TLC: clients with names of their own, and clients of      *)
(* which two were started with the same name.                              *)
(***************************************************************************)
EXTENDS TokenRing, TLC

CONSTANTS c1, c2, c3, n1, n2, n3

MCEigeneNamen   == (c1 :> n1) @@ (c2 :> n2) @@ (c3 :> n3)
MCGleicheNamen  == (c1 :> n1) @@ (c2 :> n1) @@ (c3 :> n3)
MCZweiNamen     == (c1 :> n1) @@ (c2 :> n2)

MCSymmetrie == Permutations(Client)

=============================================================================
