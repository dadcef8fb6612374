---------------------------- MODULE MCMarketplace ----------------------------
(* The instance of Marketplace that TLC checks. *)
EXTENDS Marketplace, TLC

\* One agent books twice.
MCCaller == "c1" :> "a1" @@ "c2" :> "a1"
=============================================================================
