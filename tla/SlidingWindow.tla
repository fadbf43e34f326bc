---------------------------- MODULE SlidingWindow ----------------------------
(***************************************************************************)
(* What the circular history buffer promises (src/lib/CLIFOStream.h): it   *)
(* always holds the last samples recorded, oldest first; a resize keeps    *)
(* the newest ones, in order, and pads the past with the filler.           *)
(***************************************************************************)
EXTENDS Naturals, Sequences

CONSTANTS Sample, Filler

VARIABLE window

Newest(n, seq) == SubSeq(seq, Len(seq) - n + 1, Len(seq))

Resized(n, seq) ==
    IF n <= Len(seq) THEN Newest(n, seq)
                     ELSE [i \in 1 .. n - Len(seq) |-> Filler] \o seq

Init == window = <<>>

Record(block) == window' = Newest(Len(window), window \o block)

Resize(n) == window' = Resized(n, window)

Next == \/ \E block \in Seq(Sample) : Record(block)
        \/ \E n \in Nat : Resize(n)

Spec == Init /\ [][Next]_window
=============================================================================
