---------------------------- MODULE MCPluginGuard ----------------------------
(***************************************************************************)
(* The plug-in's locks (PluginGuard) and the upload of a patch while they  *)
(* are held (Upload).  They share no state: each behaviour is about one of *)
(* them, and the other stays as it begins.                                 *)
(***************************************************************************)
EXTENDS PluginGuard

CONSTANTS Inits, Lengths, MaxAsked

VARIABLES
  part,  \* what this behaviour is about
  strict, asked, heard, half, base, packets, pid, current, last, slips, failed

transfer == <<strict, asked, heard, half, base, packets, pid, current, last, slips, failed>>

Upl == INSTANCE Upload

ASSUME Upl!UploadAssumption

MCInit ==
  /\ part \in {"guard", "upload"}
  /\ Init /\ Upl!Init
  /\ part = "guard" => strict
  /\ part = "upload" => ~host

MCNext ==
  \/ part = "guard" /\ Next /\ UNCHANGED <<part, transfer>>
  \/ part = "upload" /\ Upl!Next /\ UNCHANGED <<part, vars>>

MCSpec ==
  /\ MCInit /\ [][MCNext]_<<part, vars, transfer>>
  /\ part = "guard" => Fairness

OwnPid == Upl!OwnPid
=============================================================================
