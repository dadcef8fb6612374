----------------------------- MODULE MCHandshake -----------------------------
(* The instances of Handshake that TLC checks. *)
EXTENDS Handshake

=============================================================================
