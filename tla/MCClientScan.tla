---------------------------- MODULE MCClientScan ----------------------------
(* Two executables under four names: aliases and their absence included. *)
EXTENDS ClientScan

CONSTANTS binary1, binary2

MCBinaries == {binary1, binary2}
=============================================================================
