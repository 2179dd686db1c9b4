---------------------------- MODULE MC_ModelLoad ----------------------------
(* ModelLoad for TLC: the number of layers is in the .cfg file.            *)
EXTENDS ModelLoad
=============================================================================
