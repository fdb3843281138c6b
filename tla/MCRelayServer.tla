---------------------------- MODULE MCRelayServer ----------------------------
(* Four requests of two users. *)
EXTENDS RelayServer, TLC
CONSTANTS r1, r2, r3, r4, u1, u2

TwoEach == r1 :> u1 @@ r2 :> u1 @@ r3 :> u1 @@ r4 :> u2
==============================================================================
