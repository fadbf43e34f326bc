---------------------------- MODULE MCAudioStream ----------------------------
(***************************************************************************)
(* A small instance of AudioStream.                                        *)
(***************************************************************************)
EXTENDS AudioStream

\* The host plays from the beginning, where it may seek to.  It may stop and start.
Hosts == {[position |-> 0, playing |-> TRUE, flags |-> {}]}
=============================================================================
