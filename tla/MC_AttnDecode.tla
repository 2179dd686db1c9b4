--------------------------- MODULE MC_AttnDecode ---------------------------
(* AttnDecode for TLC: the launch shapes are in the .cfg files.            *)
EXTENDS AttnDecode
=============================================================================
