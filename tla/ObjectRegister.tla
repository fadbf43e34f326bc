--------------------------- MODULE ObjectRegister ---------------------------
(***************************************************************************)
(* What an object swapper promises: a register that a producer sets to     *)
(* newer and newer objects, and from which a consumer reads the newest.    *)
(***************************************************************************)
EXTENDS Naturals

VARIABLES newest, answer

Init == newest \in Nat /\ answer = 0

Store == newest' \in Nat /\ newest' > newest /\ UNCHANGED answer

Read == answer' = newest /\ UNCHANGED newest

Spec == Init /\ [][Store \/ Read]_<<newest, answer>>
=============================================================================
