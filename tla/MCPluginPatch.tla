---------------------------- MODULE MCPluginPatch ----------------------------
EXTENDS PluginPatch

(* Two contents of the patch file: all parameters at one value or the other. *)
MCSource(v) == [p \in Params |-> v]
=============================================================================
