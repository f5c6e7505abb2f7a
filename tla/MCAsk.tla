------------------------------- MODULE MCAsk -------------------------------
(* Two chapters with a chunk each and a claim of the second one.           *)
EXTENDS Ask

MCChapOf == (1 :> 1) @@ (2 :> 2) @@ (3 :> 2)

=============================================================================
