----------------------------- MODULE MCAntiReplay -----------------------------
(* Instances of AntiReplay for TLC. *)
EXTENDS AntiReplay

\* The receiver's clock starts at 0; senders may be behind it.
MCStamps == {-2, 2, 4}

=============================================================================
