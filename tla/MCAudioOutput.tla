---------------------------- MODULE MCAudioOutput ----------------------------
(***************************************************************************)
(* Small instances of AudioOutput: what modifyConsumerInfo() is asked for. *)
(***************************************************************************)
EXTENDS AudioOutput

Stored(n, block) == [store |-> TRUE, size |-> n, capacity |-> 3, block |-> block]
NotStored(n) == [Stored(n, FALSE) EXCEPT !.store = FALSE]

\* Nothing is stored, but the info changes.
NoHistory == {NotStored(2), NotStored(3)}
\* The history grows, and blocks the processor at one size and not at the other.
Growing == {Stored(2, FALSE), Stored(3, TRUE)}
\* The transport frames end batches and say that nothing changed.
AtRest == {Rest}
=============================================================================
