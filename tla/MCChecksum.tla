----------------------------- MODULE MCChecksum -----------------------------
(* Instances of Checksum for TLC. *)
EXTENDS Checksum
=============================================================================
