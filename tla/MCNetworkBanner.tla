--------------------------- MODULE MCNetworkBanner ---------------------------
(* Instances of NetworkBanner for TLC. *)
EXTENDS NetworkBanner
=============================================================================
