---------------------------- MODULE CircularBuffer ----------------------------
(***************************************************************************)
(* The data of a CLIFOStream (src/lib/CLIFOStream.h) and what its          *)
(* functions compute.  A stream is a record of its memory (a function on   *)
(* 0 .. capacity - 1), its size and its cursor, where the oldest sample is *)
(* and the next one goes.                                                  *)
(***************************************************************************)
EXTENDS Integers, Sequences, FiniteSets

CONSTANT Garbage   \* what memory holds that was never written

Filler == 0   \* T()

NewStream == [memory |-> [i \in {} |-> Garbage], size |-> 0, cursor |-> 0]

Capacity(s) == Cardinality(DOMAIN s.memory)

Least(a, b) == IF a < b THEN a ELSE b

(* memcpy and memmove: n elements of src from index from on, to index to.    *)
Moved(dst, to, src, from, n) ==
    [i \in DOMAIN dst |-> IF to <= i /\ i < to + n THEN src[from + i - to] ELSE dst[i]]

Filled(dst, to, n, value) ==
    [i \in DOMAIN dst |-> IF to <= i /\ i < to + n THEN value ELSE dst[i]]

(* std::rotate of the first n elements, so that index middle comes first.    *)
Rotated(dst, middle, n) ==
    [i \in DOMAIN dst |-> IF i < n THEN dst[(i + middle) % n] ELSE dst[i]]

-----------------------------------------------------------------------------
(***************************************************************************)
(* Writer::copyIntoHead(mem, bufSize).  Of a block larger than the stream  *)
(* only the end is copied; the loop runs twice at most, since the second   *)
(* part starts at index 0 and is no larger than the stream.                *)
(***************************************************************************)
CopyIntoHead(s, block) ==
    LET n     == Least(Len(block), s.size)
        part  == Least(s.size - s.cursor, n)
        taken == Len(block) - n
    IN  IF s.size = 0 THEN s
        ELSE [s EXCEPT
                !.memory = Moved(Moved(@, s.cursor, block, taken + 1, part),
                                 0, block, taken + part + 1, n - part),
                !.cursor = (@ + n) % s.size]

SetHeadAndAdvance(s, sample) ==
    [s EXCEPT !.memory[s.cursor] = sample, !.cursor = (@ + 1) % s.size]

SetCursor(s, c) == [s EXCEPT !.cursor = IF s.size # 0 THEN c % s.size ELSE 0]

-----------------------------------------------------------------------------
(* configureNewSize(): with the cursor behind the new size what is kept is   *)
(* rotated to the front, otherwise what is dropped is overwritten in place;  *)
(* samples that are added go in at the cursor.                               *)
Shrunk(s, n) ==
    IF s.cursor > n
    THEN Rotated(s.memory, (s.size - (n - s.cursor)) % s.size, s.size)
    ELSE Moved(s.memory, s.cursor, s.memory, s.cursor + (s.size - n), n - s.cursor)

Grown(s, n, filler) ==
    Filled(Moved(s.memory, s.cursor + (n - s.size), s.memory, s.cursor, s.size - s.cursor),
           s.cursor, n - s.size, filler)

\* Mutant: the cursor is not reset after the rotation.
Mutant_NewCursor(s, n, modify) == IF n = 0 THEN 0 ELSE s.cursor % n

NewCursor(s, n, modify) ==
    IF n = 0 \/ (modify /\ s.size > n /\ s.cursor > n) THEN 0 ELSE s.cursor % n

NewMemory(s, n, modify, filler) ==
    CASE s.size = 0 /\ n # 0 -> [i \in DOMAIN s.memory |-> filler]
      [] s.size > n /\ modify -> Shrunk(s, n)
      [] s.size # 0 /\ s.size < n /\ modify -> Grown(s, n, filler)
      [] OTHER -> s.memory

ConfigureNewSize(s, n, modify, filler) ==
    [memory |-> NewMemory(s, n, modify, filler),
     size   |-> n,
     cursor |-> NewCursor(s, n, modify)]

(* resize(): the memory is reallocated, what is new is not initialised.      *)
Reallocate(s, c) ==
    [s EXCEPT !.memory = [i \in 0 .. c - 1 |-> IF i \in DOMAIN @ THEN @[i] ELSE Garbage]]

(* setStorageRequirements(); the memory is resized first unless that would   *)
(* drop samples still in use.                                                *)
SetStorageRequirements(s, n, c, modify, filler) ==
    LET Configure(t) == IF n = s.size THEN t ELSE ConfigureNewSize(t, n, modify, filler)
    IN  IF c < s.size THEN Reallocate(Configure(s), c) ELSE Configure(Reallocate(s, c))

-----------------------------------------------------------------------------
(* Reading: operator[] counts from the cursor; an iterator gives two runs,   *)
(* and copyFromHead() strings runs together until it has n samples.          *)

Window(s) == [i \in 1 .. s.size |-> s.memory[(s.cursor + i - 1) % s.size]]

ItIndex(s, run) == IF run = 0 THEN s.cursor ELSE 0

\* Mutant: both runs have the length of the first.
Mutant_ItRange(s, run) == s.size - s.cursor

ItRange(s, run) == IF run = 0 THEN s.size - s.cursor ELSE s.cursor

Run(s, run) ==
    [i \in 1 .. ItRange(s, run) |-> s.memory[ItIndex(s, run) + i - 1]]

CopyFromHead(s, n) ==
    LET RunAt(k) == Run(s, k % 2)
        \* from run p[1] on, with p[2] samples left
        f[p \in Nat \X (0 .. n)] ==
            LET part == Least(p[2], Len(RunAt(p[1])))
            IN  IF p[2] = 0 \/ s.size = 0 THEN <<>>
                ELSE SubSeq(RunAt(p[1]), 1, part) \o f[<<p[1] + 1, p[2] - part>>]
    IN  f[<<0, n>>]
=============================================================================
