--------------------------- MODULE MCLiveAnalysis ---------------------------
(* Small instances of LiveAnalysis: a flow of ESP packets, which the          *)
(* classifier accepts, and one of IKE packets, which it does not.             *)
EXTENDS LiveAnalysis

MCFlows     == {"esp", "ike"}
MCEncrypted == {"esp"}
=============================================================================
