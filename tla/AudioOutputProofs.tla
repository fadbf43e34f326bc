-------------------------- MODULE AudioOutputProofs --------------------------
(***************************************************************************)
(* Theorems about AudioOutput, the CircularBuffer it keeps its history in, *)
(* and the AudioStream that feeds it, for any number of listeners,         *)
(* channels, samples and calls, and any size of the queue.                 *)
(*                                                                         *)
(* 1. The listeners.  Their commands form a chain (Leads) from the ones    *)
(* registered to those asked for, so that when all commands are applied    *)
(* the two are the same, and whoever was told it is out is not among those *)
(* the batch still calls (Registered, Silenced).  A listener has been told *)
(* of the present info or is among those who will be before the audio      *)
(* (Informed, Announced), and its count of samples is the one before or    *)
(* after the batch, as it is yet to be called or not (InOrder).  All but   *)
(* the last two hold for any frames (Listening), so that part 4 has them   *)
(* for a stream that loses some.                                           *)
(*                                                                         *)
(* 2. The circular buffer.  Writing a block slides the window of the       *)
(* newest samples, and a new size pads it with silence in front or drops   *)
(* its oldest, at each place of the cursor.                                *)
(*                                                                         *)
(* 3. The history, when it is kept all the time in sizes that only grow    *)
(* and for one number of channels (Steady; see README for what happens     *)
(* otherwise).  The channels are all alike (Counted), and the history has  *)
(* its size before it is written to and never a larger one (Kept).  The    *)
(* clock counts what went by (Played), the deferred samples are the last   *)
(* before it (Deferred), and the samples of the history are in place       *)
(* relative to the time published with it, which what is deferred and what *)
(* the batch holds separate from the clock (Published).                    *)
(*                                                                         *)
(* 4. The stream.  The frames in the queue lead the transport from what    *)
(* the Output has (Place) to what it is where the call under way goes on,  *)
(* and those of that call, if it lost none, from there to what the Input   *)
(* has (Plays); a loss is remembered, so that the next call sends its      *)
(* transport first (OnTrack).  The commands form the chain of part 1, and  *)
(* a thread that is done has emptied the queue and then applied them       *)
(* (Ending).                                                               *)
(*                                                                         *)
(* 5. The room for the audio, without the conditions of part 3 and with    *)
(* lost frames: a batch is even over its channels, the history has one     *)
(* size (Sized), and a history that does not suit the channels of a batch  *)
(* is noticed before the batch is published (Suited), while it is stored.  *)
(*                                                                         *)
(* 6. The circular buffer used by itself, through its views and writers    *)
(* (LifoStream): part 2 makes its steps those of a SlidingWindow, and what *)
(* is read from it is the window: for copyFromHead(), whose rounds are a   *)
(* recursion, by the least number of samples for which it is not.          *)
(***************************************************************************)
EXTENDS AudioStream, LifoStream, SequenceTheorems, WellFoundedInduction, TLAPS

Distinct(s) == \A i, j \in DOMAIN s : s[i] = s[j] => i = j

Info == [channels : Nat, store : BOOLEAN, size : Nat, capacity : Nat, block : BOOLEAN]
Commanding == [listener : Listener, wasAdded : BOOLEAN]
Change == [type : {"info"}, channels : Nat] \cup [type : {"transport"}, transport : TransportData]

TypeOK ==
    /\ pc \in {"idle", "open", "end", "lock", "commands", "resize", "notify", "publish", "dead"}
    /\ info \in Info /\ oldInfo \in Info
    /\ inputInfo \in [store : BOOLEAN, size : Nat, capacity : Nat, block : BOOLEAN]
    /\ {producerInfoChange, consumerInfoChange, inputChanges, signalChange} \subseteq BOOLEAN
    /\ listeners \in Seq(Listener) /\ todo \in Seq(Listener)
    /\ inputListeners \in Seq(Commanding)
    /\ asked \subseteq Listener /\ quiet \subseteq Listener
    /\ told \in [Listener -> Seq(Info)] /\ heard \in [Listener -> Nat]
    /\ audioInput \in Seq(Seq(Nat))
    /\ sent \in [samples : Nat, channels : Nat, infos : Nat]
    /\ held = <<>> \/ (held = <<held[1]>> /\ held[1] \in Change)

(* The commands cs lead from the set of listeners to those asked for: an add *)
(* finds its listener missing, a removal finds it there.                     *)
Leads(cs, from, to) ==
    \E r \in [0 .. Len(cs) -> SUBSET Listener] :
        /\ r[0] = from /\ r[Len(cs)] = to
        /\ \A i \in 1 .. Len(cs) :
              /\ cs[i].wasAdded <=> cs[i].listener \notin r[i - 1]
              /\ r[i] = IF cs[i].wasAdded THEN r[i - 1] \cup {cs[i].listener}
                                          ELSE r[i - 1] \ {cs[i].listener}

Registered ==
    /\ Leads(inputListeners, ToSet(listeners), asked)
    /\ Distinct(listeners)
    /\ inputListeners # <<>> => inputChanges
    /\ pc = "commands" <=> commandMutex # None

Registration ==
    /\ listeners \in Seq(Listener) /\ inputListeners \in Seq(Commanding)
    /\ asked \subseteq Listener /\ Registered

Silenced ==
    /\ quiet \cap asked = {}
    /\ pc \notin {"lock", "commands"} => ToSet(listeners) \cap quiet = {}
    /\ pc = "notify" => Distinct(todo)
    /\ IF pc \in {"notify", "dead"} THEN ToSet(todo) \subseteq ToSet(listeners) ELSE todo = <<>>

(* Changes of info that the listeners are still to be told of.               *)
Untold(l) ==
    \/ pc \in {"open", "end"} /\ producerInfoChange
    \/ pc \in {"lock", "commands", "resize"} /\ signalChange
    \/ pc = "notify" /\ signalChange /\ l \in ToSet(todo)

Informed ==
    /\ pc \notin {"open", "end"} => ~producerInfoChange
    /\ (pc \in {"open", "end"} /\ ~producerInfoChange) \/ (pc = "lock" /\ ~signalChange) =>
           info = oldInfo
    /\ \A l \in Listener \ ToSet(listeners) : told[l] = <<>>
    /\ \A l \in ToSet(listeners) :
           told[l] \in IF Untold(l) THEN {<<>>, <<oldInfo>>} ELSE {<<info>>}

(* The channels that were announced are those of the info, or of the frame   *)
(* that ended the batch, and audio has as many.                              *)
Announced ==
    /\ IF held # <<>> /\ held[1].type = "info" THEN held[1].channels = sent.channels
                                               ELSE info.channels = sent.channels
    /\ held # <<>> => pc \notin {"idle", "open", "dead"}
    /\ pc \notin {"idle", "dead"} /\ contained > 0 => channels = info.channels

(* Who is still to be called with the audio of the batch.                    *)
Unheard(l) ==
    pc \in {"open", "end", "lock", "commands", "resize"} \/ (pc = "notify" /\ l \in ToSet(todo))

InOrder ==
    /\ contained <= sent.samples
    /\ \A i \in 1 .. contained : audioInput[1][i] = sent.samples - contained + i
    /\ \A l \in ToSet(listeners) :
           heard[l] \in {0, IF Unheard(l) THEN sent.samples - contained ELSE sent.samples}

(* What holds whatever the frames are, also in a stream that drops some;     *)
(* and, with all frames of one producer, what the listeners make of them.    *)
Listening == TypeOK /\ Registered /\ Silenced /\ Informed
IInv == Listening /\ Announced /\ InOrder

-----------------------------------------------------------------------------
(* Sequences.                                                                *)

(* An element that occurs once at most is taken out, the others stay.        *)
LEMMA Removed ==
    ASSUME NEW S, NEW s \in Seq(S), NEW e, Distinct(s)
    PROVE  /\ RemoveFirst(s, e) \in Seq(S) /\ Distinct(RemoveFirst(s, e))
           /\ ToSet(RemoveFirst(s, e)) = ToSet(s) \ {e}
<1>1. Len(s) \in Nat /\ DOMAIN s = 1 .. Len(s) /\ \A i \in 1 .. Len(s) : s[i] \in S
  OBVIOUS
<1>2. CASE \A i \in 1 .. Len(s) : s[i] # e
  <2>1. RemoveFirst(s, e) = s
    BY <1>2 DEF RemoveFirst
  <2> QED
    BY <1>1, <1>2, <2>1 DEF ToSet
<1>3. ASSUME NEW k \in 1 .. Len(s), s[k] = e
      PROVE  /\ RemoveFirst(s, e) \in Seq(S) /\ Distinct(RemoveFirst(s, e))
             /\ ToSet(RemoveFirst(s, e)) = ToSet(s) \ {e}
  <2> DEFINE r == RemoveAt(s, k)
             a == SubSeq(s, 1, k - 1)
             b == SubSeq(s, k + 1, Len(s))
  <2>1. {i \in 1 .. Len(s) : s[i] = e} = {k}
    BY <1>1, <1>3 DEF Distinct
  <2>2. Min({k}) = k
    BY DEF Min
  <2>3. SelectInSeq(s, LAMBDA v : v = e) = k
    BY <2>1, <2>2 DEF SelectInSeq
  <2>4. RemoveFirst(s, e) = r
    BY <1>3, <2>3 DEF RemoveFirst
  <2>5. a \in Seq(S) /\ Len(a) = k - 1 /\ \A i \in 1 .. k - 1 : a[i] = s[i]
    <3>1. k - 1 \in Int /\ \A i \in 1 .. k - 1 : s[i] \in S
      BY <1>1
    <3> QED
      BY <3>1, SubSeqProperties
  <2>6. b \in Seq(S) /\ Len(b) = Len(s) - k /\ \A i \in 1 .. Len(s) - k : b[i] = s[k + i]
    <3>1. /\ k + 1 \in Int /\ Len(s) \in Int
          /\ \A i \in k + 1 .. Len(s) : s[i] \in S
      BY <1>1
    <3>2. /\ b \in Seq(S) /\ Len(b) = IF k + 1 <= Len(s) THEN Len(s) - (k + 1) + 1 ELSE 0
          /\ \A i \in 1 .. Len(s) - (k + 1) + 1 : b[i] = s[(k + 1) + i - 1]
      BY <3>1, SubSeqProperties
    <3>3. Len(s) - (k + 1) + 1 = Len(s) - k
      BY <1>1
    <3> HIDE DEF b
    <3>4. Len(b) = Len(s) - k
      <4>1. CASE k + 1 <= Len(s)
        BY <3>2, <3>3, <4>1
      <4>2. CASE ~(k + 1 <= Len(s))
        <5>1. Len(s) = k
          <6>1. \A x, y \in Nat : y <= x /\ ~(y + 1 <= x) => x = y
            OBVIOUS
          <6>2. k \in Nat /\ Len(s) \in Nat /\ k <= Len(s)
            BY <1>1
          <6> QED
            BY <4>2, <6>1, <6>2
        <5>2. Len(b) = 0
          BY <3>2, <4>2
        <5> QED
          BY <5>1, <5>2
      <4> QED
        BY <4>1, <4>2
    <3>5. ASSUME NEW i \in 1 .. Len(s) - k PROVE b[i] = s[k + i]
      <4>1. b[i] = s[(k + 1) + i - 1]
        BY <3>2, <3>3
      <4>2. (k + 1) + i - 1 = k + i
        BY <1>1
      <4> QED
        BY <4>1, <4>2
    <3> QED
      BY <3>2, <3>4, <3>5
  <2>7. r = a \o b
    BY DEF RemoveAt
  <2> HIDE DEF r, a, b
  <2>8. /\ r \in Seq(S) /\ Len(r) = Len(s) - 1
        /\ \A i \in 1 .. Len(s) - 1 : r[i] = IF i < k THEN s[i] ELSE s[i + 1]
    <3>1. /\ r \in Seq(S) /\ Len(r) = (k - 1) + (Len(s) - k)
          /\ \A i \in 1 .. (k - 1) + (Len(s) - k) : r[i] = IF i <= k - 1 THEN a[i] ELSE b[i - (k - 1)]
      <4>1. /\ r \in Seq(S) /\ Len(r) = Len(a) + Len(b)
            /\ \A i \in 1 .. Len(a) + Len(b) : r[i] = IF i <= Len(a) THEN a[i] ELSE b[i - Len(a)]
        BY <2>5, <2>6, <2>7, ConcatProperties
      <4> QED
        BY <2>5, <2>6, <4>1
    <3>2. (k - 1) + (Len(s) - k) = Len(s) - 1
      BY <1>1
    <3>3. ASSUME NEW i \in 1 .. Len(s) - 1
          PROVE  r[i] = IF i < k THEN s[i] ELSE s[i + 1]
      <4>1. r[i] = IF i <= k - 1 THEN a[i] ELSE b[i - (k - 1)]
        BY <3>1, <3>2
      <4>2. i < k => i \in 1 .. k - 1 /\ i <= k - 1
        BY <1>1
      <4>3. ~(i < k) => ~(i <= k - 1) /\ i - (k - 1) \in 1 .. Len(s) - k /\ k + (i - (k - 1)) = i + 1
        BY <1>1
      <4> QED
        BY <2>5, <2>6, <4>1, <4>2, <4>3
    <3> QED
      BY <3>1, <3>2, <3>3
  <2>9. DOMAIN r = 1 .. Len(s) - 1
    BY <2>8
  <2>10. Distinct(r)
    <3> SUFFICES ASSUME NEW i \in 1 .. Len(s) - 1, NEW j \in 1 .. Len(s) - 1, r[i] = r[j]
                 PROVE  i = j
      BY <2>9 DEF Distinct
    <3>1. \A l \in 1 .. Len(s) - 1 : l \in 1 .. Len(s) /\ l + 1 \in 1 .. Len(s)
      BY <1>1
    <3>2. \A x, y \in 1 .. Len(s) : s[x] = s[y] => x = y
      BY <1>1 DEF Distinct
    <3>3. CASE (i < k) <=> (j < k)
      <4>1. i = j \/ i + 1 = j + 1
        BY <2>8, <3>1, <3>2, <3>3
      <4> QED
        BY <4>1
    <3>4. CASE i < k /\ ~(j < k)
      <4>1. i = j + 1
        BY <2>8, <3>1, <3>2, <3>4
      <4> QED
        BY <1>1, <3>4, <4>1
    <3>5. CASE j < k /\ ~(i < k)
      <4>1. j = i + 1
        BY <2>8, <3>1, <3>2, <3>5
      <4> QED
        BY <1>1, <3>5, <4>1
    <3> QED
      BY <3>3, <3>4, <3>5
  <2>11. ASSUME NEW i \in 1 .. Len(s) - 1 PROVE r[i] \in ToSet(s) \ {e}
    <3>1. PICK j \in 1 .. Len(s) : r[i] = s[j] /\ j # k
      <4>1. i \in 1 .. Len(s) /\ i + 1 \in 1 .. Len(s) /\ (i < k => i # k) /\ (~(i < k) => i + 1 # k)
        BY <1>1
      <4> QED
        BY <2>8, <4>1
    <3> QED
      BY <1>1, <1>3, <3>1 DEF Distinct, ToSet
  <2>12. ASSUME NEW i \in 1 .. Len(s), s[i] # e PROVE s[i] \in ToSet(r)
    <3>1. PICK j \in 1 .. Len(s) - 1 : r[j] = s[i]
      <4>1. CASE i < k
        <5>1. i \in 1 .. Len(s) - 1
          BY <1>1, <4>1
        <5> QED
          BY <2>8, <4>1, <5>1
      <4>2. CASE i > k
        <5>1. i - 1 \in 1 .. Len(s) - 1 /\ ~(i - 1 < k) /\ (i - 1) + 1 = i
          BY <1>1, <4>2
        <5> QED
          BY <2>8, <5>1
      <4> QED
        BY <1>1, <1>3, <2>12, <4>1, <4>2
    <3> QED
      BY <2>9, <3>1 DEF ToSet
  <2>13. ToSet(r) = ToSet(s) \ {e}
    BY <1>1, <2>9, <2>11, <2>12 DEF ToSet
  <2> QED
    BY <2>4, <2>8, <2>10, <2>13
<1> QED
  BY <1>2, <1>3

(* The elements of a sequence without repetitions, from its head on.         *)
LEMMA HeadAndTail ==
    ASSUME NEW S, NEW s \in Seq(S), s # <<>>, Distinct(s)
    PROVE  /\ Head(s) \in S /\ Head(s) \in ToSet(s)
           /\ Tail(s) \in Seq(S) /\ Distinct(Tail(s))
           /\ ToSet(Tail(s)) = ToSet(s) \ {Head(s)}
<1>1. /\ Head(s) = s[1] /\ Tail(s) \in Seq(S) /\ Len(Tail(s)) = Len(s) - 1
      /\ Len(s) \in Nat \ {0} /\ DOMAIN s = 1 .. Len(s) /\ Head(s) \in S
      /\ \A i \in 1 .. Len(s) - 1 : Tail(s)[i] = s[i + 1]
      /\ DOMAIN Tail(s) = 1 .. Len(s) - 1
  OBVIOUS
<1>2. \A i \in 1 .. Len(s) - 1 : i + 1 \in 1 .. Len(s) /\ i + 1 # 1
  BY <1>1
<1>3. 1 \in 1 .. Len(s)
  BY <1>1
<1>4. Distinct(Tail(s))
  BY <1>1, <1>2 DEF Distinct
<1>5. \A i \in 1 .. Len(s) - 1 : Tail(s)[i] \in ToSet(s) \ {Head(s)}
  BY <1>1, <1>2, <1>3 DEF Distinct, ToSet
<1>6. ASSUME NEW i \in 1 .. Len(s), s[i] # Head(s) PROVE s[i] \in ToSet(Tail(s))
  <2>1. i - 1 \in 1 .. Len(s) - 1 /\ (i - 1) + 1 = i
    BY <1>1, <1>6
  <2> QED
    BY <1>1, <2>1 DEF ToSet
<1>7. ToSet(Tail(s)) = ToSet(s) \ {Head(s)}
  BY <1>1, <1>5, <1>6 DEF ToSet
<1> QED
  BY <1>1, <1>3, <1>4, <1>7 DEF ToSet

(* A new element is appended.                                                *)
LEMMA Appended ==
    ASSUME NEW S, NEW s \in Seq(S), NEW e \in S, e \notin ToSet(s), Distinct(s)
    PROVE  /\ Append(s, e) \in Seq(S) /\ Distinct(Append(s, e))
           /\ ToSet(Append(s, e)) = ToSet(s) \cup {e}
<1>1. /\ Append(s, e) \in Seq(S) /\ Len(s) \in Nat
      /\ DOMAIN Append(s, e) = 1 .. Len(s) + 1 /\ DOMAIN s = 1 .. Len(s)
      /\ \A i \in 1 .. Len(s) + 1 : Append(s, e)[i] = IF i = Len(s) + 1 THEN e ELSE s[i]
  OBVIOUS
<1>2. \A i \in 1 .. Len(s) : i \in 1 .. Len(s) + 1 /\ i # Len(s) + 1
  BY <1>1
<1>3. \A i \in 1 .. Len(s) + 1 : i = Len(s) + 1 \/ i \in 1 .. Len(s)
  BY <1>1
<1>4. Len(s) + 1 \in 1 .. Len(s) + 1
  BY <1>1
<1>5. \A i \in 1 .. Len(s) : s[i] # e
  BY <1>1 DEF ToSet
<1>6. Distinct(Append(s, e))
  BY <1>1, <1>3, <1>5 DEF Distinct
<1>7. ToSet(Append(s, e)) = ToSet(s) \cup {e}
  BY <1>1, <1>2, <1>3, <1>4 DEF ToSet
<1> QED
  BY <1>1, <1>6, <1>7

(* Commands that lead somewhere lead on with one more.                       *)
LEMMA LeadsOn ==
    ASSUME NEW cs \in Seq(Commanding), NEW c \in Commanding,
           NEW from \in SUBSET Listener, NEW to \in SUBSET Listener, Leads(cs, from, to),
           c.wasAdded <=> c.listener \notin to
    PROVE  Leads(Append(cs, c), from, IF c.wasAdded THEN to \cup {c.listener} ELSE to \ {c.listener})
<1> DEFINE n == Len(cs)
           ds == Append(cs, c)
           goal == IF c.wasAdded THEN to \cup {c.listener} ELSE to \ {c.listener}
<1>1. n \in Nat /\ c.listener \in Listener
  BY DEF Commanding
<1>2. Len(ds) = n + 1 /\ ds[n + 1] = c /\ \A i \in 1 .. n : ds[i] = cs[i]
  BY AppendProperties
<1>3. PICK r \in [0 .. n -> SUBSET Listener] :
        /\ r[0] = from /\ r[n] = to
        /\ \A i \in 1 .. n :
              /\ cs[i].wasAdded <=> cs[i].listener \notin r[i - 1]
              /\ r[i] = IF cs[i].wasAdded THEN r[i - 1] \cup {cs[i].listener}
                                          ELSE r[i - 1] \ {cs[i].listener}
  BY DEF Leads
<1> DEFINE q == [i \in 0 .. n + 1 |-> IF i = n + 1 THEN goal ELSE r[i]]
<1>4. goal \in SUBSET Listener
  BY <1>1
<1> HIDE DEF n, ds, goal
<1>5. \A i \in 0 .. n : q[i] = r[i]
  BY <1>1
<1>6. q[n + 1] = goal /\ q \in [0 .. n + 1 -> SUBSET Listener]
  BY <1>1, <1>3, <1>4
<1> HIDE DEF q
<1>7. ASSUME NEW i \in 1 .. n + 1
      PROVE  /\ ds[i].wasAdded <=> ds[i].listener \notin q[i - 1]
             /\ q[i] = IF ds[i].wasAdded THEN q[i - 1] \cup {ds[i].listener}
                                         ELSE q[i - 1] \ {ds[i].listener}
  <2>1. CASE i = n + 1
    <3>1. i - 1 = n /\ n \in 0 .. n
      BY <1>1, <2>1
    <3>2. q[i - 1] = to /\ ds[i] = c /\ q[i] = goal
      BY <1>2, <1>3, <1>5, <1>6, <2>1, <3>1
    <3> QED
      BY <3>2 DEF goal
  <2>2. CASE i # n + 1
    <3>1. i \in 1 .. n /\ i \in 0 .. n /\ i - 1 \in 0 .. n
      BY <1>1, <2>2
    <3>2. q[i] = r[i] /\ q[i - 1] = r[i - 1] /\ ds[i] = cs[i]
      BY <1>2, <1>5, <3>1
    <3> QED
      BY <1>3, <3>1, <3>2
  <2> QED
    BY <2>1, <2>2
<1>8. q[0] = from
  BY <1>1, <1>3, <1>5
<1>9. Leads(ds, from, goal)
  BY <1>2, <1>6, <1>7, <1>8 DEF Leads
<1> QED
  BY <1>9 DEF ds, goal

(* The first of the commands may be applied, and the others lead on.         *)
LEMMA LeadsFrom ==
    ASSUME NEW cs \in Seq(Commanding), cs # <<>>, NEW from, NEW to, Leads(cs, from, to)
    PROVE  LET c == Head(cs)
           IN  /\ c \in Commanding /\ (c.wasAdded <=> c.listener \notin from)
               /\ Leads(Tail(cs), IF c.wasAdded THEN from \cup {c.listener}
                                               ELSE from \ {c.listener}, to)
<1> DEFINE n == Len(cs)
           c == Head(cs)
           ds == Tail(cs)
           on == IF c.wasAdded THEN from \cup {c.listener} ELSE from \ {c.listener}
<1>1. n \in Nat \ {0} /\ c = cs[1] /\ c \in Commanding
  OBVIOUS
<1>2. Len(ds) = n - 1 /\ \A i \in 1 .. n - 1 : ds[i] = cs[i + 1]
  OBVIOUS
<1>3. PICK r \in [0 .. n -> SUBSET Listener] :
        /\ r[0] = from /\ r[n] = to
        /\ \A i \in 1 .. n :
              /\ cs[i].wasAdded <=> cs[i].listener \notin r[i - 1]
              /\ r[i] = IF cs[i].wasAdded THEN r[i - 1] \cup {cs[i].listener}
                                          ELSE r[i - 1] \ {cs[i].listener}
  BY DEF Leads
<1> DEFINE q == [i \in 0 .. n - 1 |-> r[i + 1]]
<1> HIDE DEF n, c, ds
<1>4. /\ c.wasAdded <=> c.listener \notin from
      /\ r[1] = on
  <2>1. 1 \in 1 .. n /\ 1 - 1 = 0
    BY <1>1
  <2> QED
    BY <1>1, <1>3, <2>1
<1> HIDE DEF on
<1>5. /\ q \in [0 .. n - 1 -> SUBSET Listener] /\ q[0] = on /\ q[n - 1] = to
      /\ \A i \in 0 .. n - 1 : q[i] = r[i + 1]
  <2>1. \A i \in 0 .. n - 1 : i + 1 \in 0 .. n
    BY <1>1
  <2>2. 0 \in 0 .. n - 1 /\ n - 1 \in 0 .. n - 1 /\ 0 + 1 = 1 /\ (n - 1) + 1 = n
    BY <1>1
  <2> QED
    BY <1>3, <1>4, <2>1, <2>2
<1> HIDE DEF q
<1>6. ASSUME NEW i \in 1 .. n - 1
      PROVE  /\ ds[i].wasAdded <=> ds[i].listener \notin q[i - 1]
             /\ q[i] = IF ds[i].wasAdded THEN q[i - 1] \cup {ds[i].listener}
                                         ELSE q[i - 1] \ {ds[i].listener}
  <2>1. i + 1 \in 1 .. n /\ i \in 0 .. n - 1 /\ i - 1 \in 0 .. n - 1 /\ (i - 1) + 1 = i /\ (i + 1) - 1 = i
    BY <1>1
  <2>2. q[i] = r[i + 1] /\ q[i - 1] = r[i] /\ ds[i] = cs[i + 1]
    BY <1>2, <1>5, <2>1
  <2>3. /\ cs[i + 1].wasAdded <=> cs[i + 1].listener \notin r[i]
        /\ r[i + 1] = IF cs[i + 1].wasAdded THEN r[i] \cup {cs[i + 1].listener}
                                            ELSE r[i] \ {cs[i + 1].listener}
    BY <1>3, <2>1
  <2> QED
    BY <2>2, <2>3
<1>7. Leads(ds, on, to)
  BY <1>2, <1>5, <1>6 DEF Leads
<1> QED
  BY <1>1, <1>4, <1>7 DEF c, ds, on

(* The natural numbers are well-founded.                                     *)
LEMMA Smallest ==
    ASSUME NEW S \in SUBSET Nat, S # {}
    PROVE  \E x \in S : \A y \in S : x <= y
<1> DEFINE R == {p \in Nat \X Nat : p[1] < p[2]}
<1>1. IsWellFoundedOn(R, Nat)
  BY NatLessThanWellFounded, Zenon DEF OpToRel
<1>2. \E x \in S : \A y \in S : ~(<<y, x>> \in R)
  <2> HIDE DEF R
  <2> QED
    BY <1>1, WFMin
<1>3. PICK x \in S : \A y \in S : ~(<<y, x>> \in R)
  BY <1>2
<1>4. ASSUME NEW y \in S PROVE x <= y
  <2>1. <<y, x>> \in Nat \X Nat /\ <<y, x>>[1] = y /\ <<y, x>>[2] = x
    OBVIOUS
  <2>2. ~(y < x)
    BY <1>3, <2>1
  <2> QED
    BY <2>2
<1> QED
  BY <1>4

(* Commands that lead away from a listener have a removal of it.             *)
LEMMA LeadsAway ==
    ASSUME NEW cs \in Seq(Commanding), NEW from, NEW to, Leads(cs, from, to),
           NEW l \in from, l \notin to
    PROVE  [listener |-> l, wasAdded |-> FALSE] \in ToSet(cs)
<1>1. PICK r \in [0 .. Len(cs) -> SUBSET Listener] :
        /\ r[0] = from /\ r[Len(cs)] = to
        /\ \A i \in 1 .. Len(cs) :
              /\ cs[i].wasAdded <=> cs[i].listener \notin r[i - 1]
              /\ r[i] = IF cs[i].wasAdded THEN r[i - 1] \cup {cs[i].listener}
                                          ELSE r[i - 1] \ {cs[i].listener}
  BY DEF Leads
<1> DEFINE Without == {i \in 0 .. Len(cs) : l \notin r[i]}
<1>2. PICK k \in Without : \A i \in Without : k <= i
  <2>1. Len(cs) \in Without /\ Without \in SUBSET Nat
    BY <1>1
  <2> HIDE DEF Without
  <2> QED
    BY <2>1, Smallest
<1>3. k \in 1 .. Len(cs) /\ l \notin r[k] /\ l \in r[k - 1]
  <2>1. k \in 0 .. Len(cs) /\ k # 0 /\ l \notin r[k]
    BY <1>1
  <2>2. k - 1 \in 0 .. Len(cs) /\ ~(k <= k - 1)
    BY <2>1
  <2>3. k - 1 \notin Without
    BY <1>2, <2>2
  <2> QED
    BY <2>1, <2>2, <2>3
<1> HIDE DEF Without
<1>4. cs[k] \in Commanding /\ cs[k].listener = l /\ ~cs[k].wasAdded
  <2>1. r[k] = IF cs[k].wasAdded THEN r[k - 1] \cup {cs[k].listener}
                                 ELSE r[k - 1] \ {cs[k].listener}
    BY <1>1, <1>3
  <2>2. cs[k] \in Commanding
    BY <1>3
  <2> QED
    BY <1>3, <2>1, <2>2
<1>5. cs[k] = [listener |-> l, wasAdded |-> FALSE]
  BY <1>4 DEF Commanding
<1>6. k \in DOMAIN cs
  BY <1>3
<1>7. cs[k] \in ToSet(cs)
  BY <1>6 DEF ToSet
<1> QED
  BY <1>5, <1>7

(* Without commands there is nothing left to do.                             *)
LEMMA LeadsNowhere == ASSUME NEW from, NEW to, Leads(<<>>, from, to) PROVE from = to
BY DEF Leads

-----------------------------------------------------------------------------
(* The commands.                                                             *)

(* A command comes to the end of those that wait.                            *)
LEMMA CommandRegisters ==
    ASSUME Registration, NEW l \in Listener, AddListener(l) \/ RemoveListener(l)
    PROVE  Registration'
<1> DEFINE added == l \notin asked
           c == [listener |-> l, wasAdded |-> added]
<1>1. /\ inputListeners' = Append(inputListeners, c) /\ inputChanges' = TRUE
      /\ asked' = IF added THEN asked \cup {l} ELSE asked \ {l}
      /\ UNCHANGED <<pc, listeners, commandMutex>>
  <2>1. CASE AddListener(l)
    BY <2>1 DEF AddListener, Command, mutexes, processor
  <2>2. CASE RemoveListener(l)
    BY <2>2 DEF RemoveListener, Command, mutexes, processor
  <2> QED
    BY <2>1, <2>2
<1>2. c \in Commanding /\ c.listener = l /\ c.wasAdded = added
  BY DEF Commanding
<1> HIDE DEF c
<1>3. inputListeners' \in Seq(Commanding) /\ inputListeners' # <<>>
  <2>1. inputListeners \in Seq(Commanding)
    BY DEF Registration
  <2>2. Append(inputListeners, c) \in Seq(Commanding) /\ Append(inputListeners, c) # <<>>
    BY <1>2, <2>1, AppendProperties
  <2> QED
    BY <1>1, <2>2
<1>4. ToSet(listeners) \in SUBSET Listener /\ asked \in SUBSET Listener
  BY DEF Registration, ToSet
<1>5. Leads(inputListeners, ToSet(listeners), asked) /\ inputListeners \in Seq(Commanding)
  BY DEF Registration, Registered
<1>6. Leads(inputListeners', ToSet(listeners), asked')
  BY <1>1, <1>2, <1>4, <1>5, LeadsOn
<1> QED
  BY <1>1, <1>3, <1>4, <1>6 DEF Registration, Registered

(* The first command adds a listener that was missing.                       *)
LEMMA AddRegisters ==
    ASSUME Registration, ApplyAdd, NEW l, l = Head(inputListeners).listener
    PROVE  /\ Registration'
           /\ l \in Listener /\ l \notin ToSet(listeners)
           /\ ToSet(listeners') = ToSet(listeners) \cup {l}
<1>1. /\ pc = "commands" /\ inputListeners # <<>> /\ Head(inputListeners).wasAdded
      /\ listeners' = Append(listeners, l) /\ inputListeners' = Tail(inputListeners)
      /\ UNCHANGED <<pc, inputChanges, asked, commandMutex>>
  BY DEF ApplyAdd, mutexes, processor, callers
<1>2. /\ inputListeners \in Seq(Commanding) /\ listeners \in Seq(Listener) /\ Distinct(listeners)
      /\ Leads(inputListeners, ToSet(listeners), asked)
  BY DEF Registration, Registered
<1>3. /\ l \in Listener /\ l \notin ToSet(listeners)
      /\ Leads(Tail(inputListeners), ToSet(listeners) \cup {l}, asked)
  <2>1. LET c == Head(inputListeners)
        IN  /\ c \in Commanding /\ (c.wasAdded <=> c.listener \notin ToSet(listeners))
            /\ Leads(Tail(inputListeners), IF c.wasAdded THEN ToSet(listeners) \cup {c.listener}
                                           ELSE ToSet(listeners) \ {c.listener}, asked)
    BY <1>1, <1>2, LeadsFrom
  <2> QED
    BY <1>1, <2>1 DEF Commanding
<1>4. /\ listeners' \in Seq(Listener) /\ Distinct(listeners')
      /\ ToSet(listeners') = ToSet(listeners) \cup {l}
  BY <1>1, <1>2, <1>3, Appended
<1>5. inputListeners' \in Seq(Commanding)
  BY <1>1, <1>2
<1>6. Registered'
  BY <1>1, <1>3, <1>4 DEF Registration, Registered
<1> QED
  BY <1>1, <1>3, <1>4, <1>5, <1>6 DEF Registration

(* The first command removes a listener that was there.                      *)
LEMMA RemoveRegisters ==
    ASSUME Registration, ApplyRemove, NEW l, l = Head(inputListeners).listener
    PROVE  /\ Registration'
           /\ l \in Listener /\ ToSet(listeners') = ToSet(listeners) \ {l}
<1>1. /\ pc = "commands" /\ inputListeners # <<>> /\ ~Head(inputListeners).wasAdded
      /\ listeners' = RemoveFirst(listeners, l) /\ inputListeners' = Tail(inputListeners)
      /\ UNCHANGED <<pc, inputChanges, asked, commandMutex>>
  BY DEF ApplyRemove, mutexes, processor, callers
<1>2. /\ inputListeners \in Seq(Commanding) /\ listeners \in Seq(Listener) /\ Distinct(listeners)
      /\ Leads(inputListeners, ToSet(listeners), asked)
  BY DEF Registration, Registered
<1>3. /\ l \in Listener
      /\ Leads(Tail(inputListeners), ToSet(listeners) \ {l}, asked)
  <2>1. LET c == Head(inputListeners)
        IN  /\ c \in Commanding /\ (c.wasAdded <=> c.listener \notin ToSet(listeners))
            /\ Leads(Tail(inputListeners), IF c.wasAdded THEN ToSet(listeners) \cup {c.listener}
                                           ELSE ToSet(listeners) \ {c.listener}, asked)
    BY <1>1, <1>2, LeadsFrom
  <2> QED
    BY <1>1, <2>1 DEF Commanding
<1>4. /\ listeners' \in Seq(Listener) /\ Distinct(listeners')
      /\ ToSet(listeners') = ToSet(listeners) \ {l}
  BY <1>1, <1>2, Removed
<1>5. inputListeners' \in Seq(Commanding)
  BY <1>1, <1>2
<1>6. Registered'
  BY <1>1, <1>3, <1>4 DEF Registration, Registered
<1> QED
  BY <1>1, <1>3, <1>4, <1>5, <1>6 DEF Registration

-----------------------------------------------------------------------------
(* What other threads ask for.                                               *)

(* All that the invariant is about.                                          *)
core == <<pc, info, oldInfo, inputInfo, producerInfoChange, consumerInfoChange, inputChanges,
          signalChange, listeners, todo, inputListeners, asked, quiet, told, heard,
          audioInput, sent, held, commandMutex>>

(* The listeners are some of them all.                                       *)
LEMMA ListenersAreThem == ASSUME Listening PROVE ToSet(listeners) \subseteq Listener
BY DEF Listening, TypeOK, ToSet

(* Who uses the history, and what is in it, does not matter.                 *)
LEMMA UntouchedKeeps == ASSUME Listening, UNCHANGED core PROVE Listening' /\ (IInv => IInv')
<1>1. (TypeOK /\ Registered /\ Silenced)'
  <2>1. TypeOK'
    BY DEF core, Listening, TypeOK
  <2>2. Registered'
    BY DEF core, Listening, Registered
  <2>3. Silenced'
    BY DEF core, Listening, Silenced
  <2> QED
    BY <2>1, <2>2, <2>3
<1>2. Informed' /\ (IInv => (Announced /\ InOrder)')
  BY DEF core, IInv, Listening, Informed, Untold, Announced, InOrder, Unheard, contained, channels
<1> QED
  BY <1>1, <1>2 DEF IInv, Listening

(* A command comes to the end of those that wait.                            *)
LEMMA CommandKeeps ==
    ASSUME Listening, NEW l \in Listener, AddListener(l) \/ RemoveListener(l)
    PROVE  Listening' /\ (IInv => IInv')
<1> DEFINE added == l \notin asked
           c == [listener |-> l, wasAdded |-> added]
<1>1. /\ inputListeners' = Append(inputListeners, c) /\ inputChanges' = TRUE
      /\ asked' = IF added THEN asked \cup {l} ELSE asked \ {l}
      /\ quiet' = IF added THEN quiet \ {l} ELSE quiet
      /\ UNCHANGED <<pc, info, oldInfo, inputInfo, producerInfoChange, consumerInfoChange,
                     signalChange, listeners, todo, told, heard, audioInput, sent, held,
                     commandMutex>>
  <2>1. CASE AddListener(l)
    BY <2>1 DEF AddListener, MayCommand, Command, data, infos, mutexes, processor
  <2>2. CASE RemoveListener(l)
    BY <2>2 DEF RemoveListener, MayCommand, Command, data, infos, mutexes, processor, ghosts
  <2> QED
    BY <2>1, <2>2
<1> HIDE DEF c
<1>2. Registration'
  BY CommandRegisters DEF Listening, TypeOK, Registration
<1>3. TypeOK'
  BY <1>1, <1>2 DEF Listening, TypeOK, Registration
<1>4. Registered'
  BY <1>2 DEF Registration
<1>5. Silenced'
  <2>1. (quiet \cap asked)' = {} /\ quiet' \subseteq quiet
    BY <1>1 DEF Listening, Silenced
  <2> QED
    BY <1>1, <2>1 DEF Listening, Silenced
<1>6. Informed' /\ (IInv => (Announced /\ InOrder)')
  BY <1>1 DEF IInv, Listening, Informed, Untold, Announced, InOrder, Unheard, contained, channels
<1> QED
  BY <1>3, <1>4, <1>5, <1>6 DEF IInv, Listening

(* The change is noted for the next batch.                                   *)
LEMMA ModifyKeeps ==
    ASSUME OutputAssumption, Listening, NEW consumer \in Consumers, ModifyConsumerInfo(consumer)
    PROVE  Listening' /\ (IInv => IInv')
<1>1. /\ inputInfo' = [consumer EXCEPT !.size = Least(consumer.size, consumer.capacity)]
      /\ inputChanges' = TRUE /\ consumerInfoChange' = TRUE
      /\ UNCHANGED <<pc, info, oldInfo, producerInfoChange, signalChange, listeners, todo,
                     inputListeners, asked, quiet, told, heard, audioInput, sent, held,
                     commandMutex>>
  BY DEF ModifyConsumerInfo, data, infos, mutexes, processor, ghosts
<1>2. inputInfo' \in [store : BOOLEAN, size : Nat, capacity : Nat, block : BOOLEAN]
  <2>1. consumer \in [store : BOOLEAN, size : Nat, capacity : Nat, block : BOOLEAN]
    BY DEF OutputAssumption
  <2>2. Least(consumer.size, consumer.capacity) \in Nat
    BY <2>1 DEF Least
  <2> QED
    BY <1>1, <2>1, <2>2
<1>3. (TypeOK /\ Registered /\ Silenced)'
  <2>1. TypeOK'
    BY <1>1, <1>2 DEF Listening, TypeOK
  <2>2. Registered'
    BY <1>1 DEF Listening, Registered
  <2>3. Silenced'
    BY <1>1 DEF Listening, Silenced
  <2> QED
    BY <2>1, <2>2, <2>3
<1>4. Informed' /\ (IInv => (Announced /\ InOrder)')
  BY <1>1 DEF IInv, Listening, Informed, Untold, Announced, InOrder, Unheard, contained, channels
<1> QED
  BY <1>3, <1>4 DEF IInv, Listening

-----------------------------------------------------------------------------
(* A batch.                                                                  *)

(* A batch that begins has no audio.                                         *)
LEMMA Emptied ==
    ASSUME NEW n \in Nat, audioInput' = [c \in 1 .. n |-> <<>>]
    PROVE  audioInput' \in Seq(Seq(Nat)) /\ channels' = n /\ contained' = 0
<1>1. <<>> \in Seq(Nat)
  OBVIOUS
<1>2. audioInput' \in Seq(Seq(Nat)) /\ Len(audioInput') = n
  BY <1>1
<1>3. n # 0 => Len(audioInput'[1]) = 0
  <2>1. n # 0 => audioInput'[1] = <<>>
    OBVIOUS
  <2> QED
    BY <2>1
<1> QED
  BY <1>2, <1>3 DEF contained, channels

(* The listeners know the info, and have heard all there was.                *)
LEMMA BeginKeeps == ASSUME Listening, BeginBatch PROVE Listening' /\ (IInv => IInv')
<1>1. /\ pc = "idle" /\ pc' = "open" /\ oldInfo' = info
      /\ audioInput' = [c \in 1 .. channels |-> <<>>]
      /\ UNCHANGED <<info, inputInfo, producerInfoChange, consumerInfoChange, inputChanges,
                     signalChange, listeners, todo, inputListeners, asked, quiet, told,
                     heard, sent, held, commandMutex>>
  BY DEF BeginBatch, Begin, requests, mutexes, callers, ghosts
<1>2. channels \in Nat
  BY DEF Listening, TypeOK, channels
<1>3. audioInput' \in Seq(Seq(Nat)) /\ contained' = 0
  BY <1>1, <1>2, Emptied
<1>4. TypeOK'
  BY <1>1, <1>3 DEF Listening, TypeOK
<1>5. Registered'
  BY <1>1 DEF Listening, Registered
<1>6. Silenced'
  BY <1>1 DEF Listening, Silenced
<1>7. Informed'
  BY <1>1 DEF Listening, Informed, Untold
<1>8. IInv => Announced'
  BY <1>1, <1>3 DEF IInv, Announced
<1>9. ASSUME IInv PROVE InOrder'
  <2>1. sent.samples \in Nat
    BY DEF Listening, TypeOK
  <2>2. \A l \in ToSet(listeners) : heard[l] \in {0, sent.samples}
    BY <1>1, <1>9 DEF IInv, InOrder, Unheard
  <2>3. sent.samples - 0 = sent.samples
    BY <2>1
  <2> QED
    BY <1>1, <1>3, <2>1, <2>2, <2>3 DEF InOrder
<1> QED
  BY <1>4, <1>5, <1>6, <1>7, <1>8, <1>9 DEF IInv, Listening

(* The batch a with samples put at the end of f channels, of which the ones  *)
(* that are new begin with k zeros.                                          *)
Extend(a, k, f, more) ==
    [c \in 1 .. f |-> (IF c <= Len(a) THEN a[c] ELSE [i \in 1 .. k |-> 0]) \o more]

Continues(b, a, k, f, more) ==
    /\ b \in Seq(Seq(Nat)) /\ Len(b) = f /\ Len(b[1]) = k + Len(more)
    /\ \A i \in 1 .. k : b[1][i] = a[1][i]
    /\ \A i \in 1 .. Len(more) : b[1][k + i] = more[i]

(* The samples of the first channel come after those it had.                 *)
LEMMA Extended ==
    ASSUME NEW a \in Seq(Seq(Nat)), NEW k \in Nat,
           Len(a) = 0 => k = 0, Len(a) # 0 => k = Len(a[1]),
           NEW f \in Nat \ {0}, NEW more \in Seq(Nat), NEW b, b = Extend(a, k, f, more)
    PROVE  Continues(b, a, k, f, more)
<1> DEFINE n == Len(more)
           zeros == [i \in 1 .. k |-> 0]
           before(c) == IF c <= Len(a) THEN a[c] ELSE zeros
           after(c) == before(c) \o more
<1>1. zeros \in Seq(Nat) /\ Len(zeros) = k /\ n \in Nat
  OBVIOUS
<1>2. Len(a) \in Nat /\ \A c \in 1 .. f : c <= Len(a) => a[c] \in Seq(Nat)
  OBVIOUS
<1>3. /\ b = [c \in 1 .. f |-> after(c)]
      /\ \A c : before(c) = IF c <= Len(a) THEN a[c] ELSE zeros
      /\ \A c : after(c) = before(c) \o more
  BY DEF Extend
<1> HIDE DEF n, zeros, before, after
<1>4. \A c \in 1 .. f : before(c) \in Seq(Nat)
  BY <1>1, <1>2, <1>3
<1>5. \A c \in 1 .. f : after(c) \in Seq(Nat)
  BY <1>1, <1>3, <1>4, ConcatProperties
<1>6. b \in Seq(Seq(Nat)) /\ Len(b) = f /\ b[1] = after(1)
  BY <1>3, <1>5
<1>7. 1 \in 1 .. f /\ before(1) \in Seq(Nat)
  BY <1>4
<1>8. Len(before(1)) = k /\ (k # 0 => before(1) = a[1])
  BY <1>1, <1>2, <1>3
<1>9. /\ Len(b[1]) = k + n
      /\ \A i \in 1 .. k + n : b[1][i] = IF i <= k THEN before(1)[i] ELSE more[i - k]
  <2>1. /\ Len(before(1) \o more) = Len(before(1)) + n
        /\ \A i \in 1 .. Len(before(1)) + n :
              (before(1) \o more)[i] = IF i <= Len(before(1)) THEN before(1)[i]
                                                             ELSE more[i - Len(before(1))]
    BY <1>7, ConcatProperties DEF n
  <2>2. b[1] = before(1) \o more
    BY <1>3, <1>6
  <2> QED
    BY <1>8, <2>1, <2>2
<1>10. ASSUME NEW i \in 1 .. k PROVE b[1][i] = a[1][i]
  <2>1. i \in 1 .. k + n /\ i <= k /\ k # 0
    BY <1>1
  <2> QED
    BY <1>8, <1>9, <2>1
<1>11. ASSUME NEW i \in 1 .. n PROVE b[1][k + i] = more[i]
  <2>1. k + i \in 1 .. k + n /\ ~(k + i <= k) /\ (k + i) - k = i
    BY <1>1
  <2> QED
    BY <1>9, <2>1
<1> QED
  BY <1>6, <1>9, <1>10, <1>11 DEF Continues, n

(* The samples that follow join those of the batch.                          *)
LEMMA AudioGiven ==
    ASSUME OutputAssumption, IInv, GiveAudio
    PROVE  \E n \in Nat :
              /\ pc = "open"
              /\ audioInput' = Extend(audioInput, contained, sent.channels,
                                      [i \in 1 .. n |-> sent.samples + i])
              /\ contained \in Nat /\ sent.channels \in Nat \ {0}
              /\ audioInput' \in Seq(Seq(Nat)) /\ channels' = sent.channels
              /\ contained' = contained + n
              /\ \A i \in 1 .. contained : audioInput'[1][i] = audioInput[1][i]
              /\ \A i \in 1 .. n : audioInput'[1][contained + i] = sent.samples + i
              /\ sent' \in [samples : Nat, channels : Nat, infos : Nat]
              /\ sent'.samples = sent.samples + n /\ sent'.channels = sent.channels
              /\ UNCHANGED <<pc, info, oldInfo, inputInfo, producerInfoChange,
                             consumerInfoChange, inputChanges, signalChange, listeners, todo,
                             inputListeners, asked, quiet, told, heard, held, commandMutex>>
<1> DEFINE k == contained
           s == sent.samples
<1>1. PICK n \in Nat :
        /\ n > 0
        /\ HandleFrame([type |-> "audio", channels |-> sent.channels,
                        samples |-> [i \in 1 .. n |-> sent.samples + i]])
        /\ sent' = [sent EXCEPT !.samples = @ + n]
  <2>1. Least(MaxPacket, MaxSamples - sent.samples) \in Int
    BY DEF OutputAssumption, IInv, Listening, TypeOK, Least
  <2>2. \A n \in 1 .. Least(MaxPacket, MaxSamples - sent.samples) : n \in Nat /\ n > 0
    BY <2>1
  <2> QED
    BY <2>2 DEF GiveAudio
<1>2. /\ pc = "open"
      /\ audioInput' = [c \in 1 .. sent.channels |->
                          (IF c <= Len(audioInput) THEN audioInput[c]
                                                   ELSE [i \in 1 .. contained |-> 0])
                              \o [i \in 1 .. n |-> sent.samples + i]]
      /\ UNCHANGED <<pc, info, oldInfo, inputInfo, producerInfoChange, consumerInfoChange,
                     inputChanges, signalChange, listeners, todo, inputListeners, asked,
                     quiet, told, heard, held, commandMutex>>
  BY <1>1 DEF HandleFrame, HandleAudio, channels, infos, requests, mutexes, processor, callers, ghosts
<1>3. /\ audioInput \in Seq(Seq(Nat)) /\ s \in Nat /\ sent.channels \in Nat \ {0}
      /\ sent \in [samples : Nat, channels : Nat, infos : Nat]
  BY DEF GiveAudio, IInv, Listening, TypeOK
<1>4. k \in Nat /\ k = IF Len(audioInput) = 0 THEN 0 ELSE Len(audioInput[1])
  <2>1. Len(audioInput) \in Nat /\ (Len(audioInput) # 0 => audioInput[1] \in Seq(Nat))
    BY <1>3
  <2> QED
    BY <2>1 DEF contained, channels
<1>5. sent'.samples = s + n /\ sent'.channels = sent.channels
      /\ sent' \in [samples : Nat, channels : Nat, infos : Nat]
  <2>1. sent' = [sent EXCEPT !.samples = sent.samples + n] /\ sent.samples + n \in Nat
    BY <1>1, <1>3
  <2> QED
    BY <1>3, <2>1
<1> HIDE DEF k, s
<1>6. /\ audioInput' \in Seq(Seq(Nat)) /\ Len(audioInput') = sent.channels
      /\ Len(audioInput'[1]) = k + n
      /\ \A i \in 1 .. k : audioInput'[1][i] = audioInput[1][i]
      /\ \A i \in 1 .. n : audioInput'[1][k + i] = s + i
  <2> DEFINE more == [i \in 1 .. n |-> s + i]
  <2>1. audioInput' = Extend(audioInput, k, sent.channels, more)
    BY <1>2 DEF Extend, k, s
  <2>2. n \in Nat
    BY <1>1
  <2>3. more \in Seq(Nat) /\ Len(more) = n /\ \A i \in 1 .. n : more[i] = s + i
    <3>1. s \in Nat
      BY <1>3
    <3> QED
      BY <2>2, <3>1
  <2> HIDE DEF more
  <2>4. Continues(audioInput', audioInput, k, sent.channels, more)
    <3>1. (Len(audioInput) = 0 => k = 0) /\ (Len(audioInput) # 0 => k = Len(audioInput[1]))
      BY <1>4
    <3>2. audioInput \in Seq(Seq(Nat)) /\ k \in Nat /\ sent.channels \in Nat \ {0}
      BY <1>3, <1>4
    <3>3. more \in Seq(Nat)
      BY <2>3
    <3> QED
      BY <2>1, <3>1, <3>2, <3>3, Extended
  <2> QED
    BY <2>3, <2>4 DEF Continues
<1>7. channels' = sent.channels /\ contained' = k + n
  BY <1>3, <1>6 DEF contained, channels
<1>8. audioInput' = Extend(audioInput, contained, sent.channels,
                           [i \in 1 .. n |-> sent.samples + i])
  BY <1>2 DEF Extend
<1> QED
  BY <1>1, <1>2, <1>3, <1>4, <1>5, <1>6, <1>7, <1>8 DEF k, s

(* They come in order, and with the channels that were announced.            *)
LEMMA AudioKeeps == ASSUME OutputAssumption, IInv, GiveAudio PROVE IInv'
<1> DEFINE k == contained
           s == sent.samples
<1>1. PICK n \in Nat :
        /\ pc = "open" /\ k \in Nat /\ sent.channels \in Nat \ {0}
        /\ audioInput' \in Seq(Seq(Nat)) /\ channels' = sent.channels
        /\ contained' = k + n
        /\ \A i \in 1 .. k : audioInput'[1][i] = audioInput[1][i]
        /\ \A i \in 1 .. n : audioInput'[1][k + i] = s + i
        /\ sent' \in [samples : Nat, channels : Nat, infos : Nat]
        /\ sent'.samples = s + n /\ sent'.channels = sent.channels
        /\ UNCHANGED <<pc, info, oldInfo, inputInfo, producerInfoChange,
                       consumerInfoChange, inputChanges, signalChange, listeners, todo,
                       inputListeners, asked, quiet, told, heard, held, commandMutex>>
  BY AudioGiven
<1>2. s \in Nat /\ k \in Nat /\ n \in Nat
  BY <1>1 DEF IInv, Listening, TypeOK
<1> HIDE DEF k, s
<1>3. TypeOK'
  BY <1>1 DEF IInv, Listening, TypeOK
<1>4. Registered'
  BY <1>1 DEF IInv, Listening, Registered
<1>5. Silenced'
  BY <1>1 DEF IInv, Listening, Silenced
<1>6. Informed'
  BY <1>1 DEF IInv, Listening, Informed, Untold
<1>7. Announced'
  <2>1. held = <<>> /\ info.channels = sent.channels
    BY <1>1 DEF IInv, Announced
  <2> QED
    BY <1>1, <2>1 DEF Announced
<1>8. InOrder'
  <2>1. /\ k <= s /\ \A i \in 1 .. k : audioInput[1][i] = s - k + i
        /\ \A l \in ToSet(listeners) : heard[l] \in {0, s - k}
    BY <1>1 DEF IInv, InOrder, Unheard, k, s
  <2>2. k + n <= s + n /\ (s + n) - (k + n) = s - k
    BY <1>1, <1>2, <2>1
  <2>3. ASSUME NEW i \in 1 .. k + n PROVE audioInput'[1][i] = (s + n) - (k + n) + i
    <3>1. CASE i <= k
      <4>1. i \in 1 .. k
        BY <1>1, <3>1
      <4> QED
        BY <1>1, <2>1, <2>2, <4>1
    <3>2. CASE ~(i <= k)
      <4>1. i - k \in 1 .. n /\ k + (i - k) = i /\ s + (i - k) = s - k + i
        BY <1>2, <3>2
      <4>2. audioInput'[1][k + (i - k)] = s + (i - k)
        BY <1>1, <4>1
      <4> QED
        BY <2>2, <4>1, <4>2
    <3> QED
      BY <3>1, <3>2
  <2> QED
    BY <1>1, <2>1, <2>2, <2>3 DEF InOrder, Unheard
<1> QED
  BY <1>3, <1>4, <1>5, <1>6, <1>7, <1>8 DEF IInv, Listening

(* What is handed over next ends the batch, or changes the info at once.     *)
LEMMA HandleChangeListens ==
    ASSUME Listening, pc = "open", NEW frame \in Change, HandleChange(frame),
           sent' \in [samples : Nat, channels : Nat, infos : Nat]
    PROVE  Listening'
<1>1. UNCHANGED <<oldInfo, inputInfo, consumerInfoChange, inputChanges, signalChange,
                  listeners, todo, inputListeners, asked, quiet, told, heard, audioInput,
                  commandMutex>>
  BY DEF HandleChange, data, requests, mutexes, callers, ghosts
<1>2. CASE contained > 0
  <2>1. pc' = "end" /\ held' = <<frame>> /\ UNCHANGED <<info, producerInfoChange>>
    BY <1>2 DEF HandleChange
  <2>2. held' # <<>> /\ held'[1] = frame /\ held' = <<held'[1]>>
    BY <2>1
  <2>3. TypeOK'
    BY <1>1, <2>1, <2>2 DEF Listening, TypeOK
  <2>4. Registered'
    BY <1>1, <2>1 DEF Listening, Registered
  <2>5. Silenced'
    BY <1>1, <2>1 DEF Listening, Silenced
  <2>6. Informed'
    BY <1>1, <2>1 DEF Listening, Informed, Untold
  <2> QED
    BY <2>3, <2>4, <2>5, <2>6 DEF Listening
<1>3. CASE ~(contained > 0)
  <2>1. ApplyChange(frame) /\ UNCHANGED <<pc, held>>
    BY <1>3 DEF HandleChange
  <2>2. Registered'
    BY <1>1, <2>1 DEF Listening, Registered
  <2>3. Silenced'
    BY <1>1, <2>1 DEF Listening, Silenced
  <2>4. CASE frame.type = "info"
    <3>1. /\ info' = [info EXCEPT !.channels = frame.channels] /\ producerInfoChange' = TRUE
          /\ frame.channels \in Nat
      BY <2>1, <2>4 DEF ApplyChange, Change
    <3>2. info \in Info /\ info' \in Info
      BY <3>1 DEF Listening, TypeOK, Info
    <3>3. TypeOK'
      BY <1>1, <2>1, <3>1, <3>2 DEF Listening, TypeOK
    <3>4. \A l \in ToSet(listeners) : told[l] \in {<<>>, <<oldInfo>>}
      BY DEF Listening, Informed, Untold
    <3>5. Informed'
      BY <1>1, <2>1, <3>1, <3>4 DEF Listening, Informed, Untold
    <3> QED
      BY <2>2, <2>3, <3>3, <3>5 DEF Listening
  <2>5. CASE frame.type # "info"
    <3>1. info' = info /\ producerInfoChange' = producerInfoChange
      BY <2>1, <2>5 DEF ApplyChange, Listening, TypeOK
    <3>2. TypeOK'
      BY <1>1, <2>1, <3>1 DEF Listening, TypeOK
    <3>3. Informed'
      BY <1>1, <2>1, <3>1 DEF Listening, Informed, Untold
    <3> QED
      BY <2>2, <2>3, <3>2, <3>3 DEF Listening
  <2> QED
    BY <2>4, <2>5
<1> QED
  BY <1>2, <1>3

(* The frame that ends the batch is not announced any more.                  *)
LEMMA HandleChangeKeeps ==
    ASSUME IInv, pc = "open", NEW frame \in Change, HandleChange(frame),
           sent' \in [samples : Nat, channels : Nat, infos : Nat], sent'.samples = sent.samples,
           sent'.channels = IF frame.type = "info" THEN frame.channels ELSE sent.channels
    PROVE  IInv'
<1>1. UNCHANGED <<listeners, heard, audioInput>>
  BY DEF HandleChange, data, ghosts
<1>2. channels' = channels /\ contained' = contained
  BY <1>1 DEF channels, contained
<1>3. held = <<>> /\ info.channels = sent.channels
  BY DEF IInv, Announced
<1>4. Listening'
  BY HandleChangeListens DEF IInv
<1>5. InOrder' \/ pc' \notin {"open", "end"}
  BY <1>1, <1>2 DEF IInv, InOrder, Unheard
<1>6. CASE contained > 0
  <2>1. pc' = "end" /\ held' = <<frame>> /\ UNCHANGED info
    BY <1>6 DEF HandleChange
  <2>2. held' # <<>> /\ held'[1] = frame
    BY <2>1
  <2>3. channels = info.channels
    BY <1>6 DEF IInv, Announced
  <2>4. Announced'
    BY <1>2, <1>3, <2>1, <2>2, <2>3 DEF Announced
  <2> QED
    BY <1>4, <1>5, <2>1, <2>4 DEF IInv
<1>7. CASE ~(contained > 0)
  <2>1. /\ info' = IF frame.type = "info" THEN [info EXCEPT !.channels = frame.channels] ELSE info
        /\ UNCHANGED <<pc, held>>
    BY <1>7 DEF HandleChange, ApplyChange
  <2>2. info \in Info
    BY DEF IInv, Listening, TypeOK
  <2>3. info'.channels = sent'.channels
    BY <1>3, <2>1, <2>2 DEF Info
  <2>4. Announced'
    BY <1>2, <1>3, <1>7, <2>1, <2>3 DEF Announced
  <2> QED
    BY <1>4, <1>5, <2>1, <2>4 DEF IInv
<1> QED
  BY <1>6, <1>7

(* What is announced is in the info, or in the frame that is held.           *)
LEMMA ChangeKeeps ==
    ASSUME OutputAssumption, IInv, GiveInfo \/ GiveTransport PROVE IInv'
<1>1. sent \in [samples : Nat, channels : Nat, infos : Nat]
  BY DEF IInv, Listening, TypeOK
<1>2. CASE GiveInfo
  <2>1. PICK c \in ChannelCounts :
          /\ HandleFrame([type |-> "info", channels |-> c])
          /\ sent' = [sent EXCEPT !.channels = c, !.infos = @ + 1]
    BY <1>2 DEF GiveInfo
  <2> DEFINE frame == [type |-> "info", channels |-> c]
  <2>2. c \in Nat
    BY <2>1 DEF OutputAssumption
  <2>3. frame \in Change /\ frame.type = "info" /\ frame.channels = c
    BY <2>2 DEF Change
  <2>4. pc = "open" /\ HandleChange(frame)
    BY <2>1, <2>3 DEF HandleFrame
  <2>5. /\ sent' \in [samples : Nat, channels : Nat, infos : Nat]
        /\ sent'.samples = sent.samples /\ sent'.channels = c
    <3>1. /\ sent' = [sent EXCEPT !.channels = c, !.infos = sent.infos + 1]
          /\ sent.infos + 1 \in Nat
      BY <1>1, <2>1
    <3> QED
      BY <1>1, <2>2, <3>1
  <2> HIDE DEF frame
  <2> QED
    BY <2>3, <2>4, <2>5, HandleChangeKeeps
<1>3. CASE GiveTransport
  <2>1. PICK t \in HostTransports :
          HandleFrame([type |-> "transport", transport |-> t]) /\ sent' = sent
    BY <1>3 DEF GiveTransport
  <2> DEFINE frame == [type |-> "transport", transport |-> t]
  <2>2. frame \in Change /\ frame.type = "transport"
    BY DEF OutputAssumption, Change
  <2>3. pc = "open" /\ HandleChange(frame)
    BY <2>1, <2>2 DEF HandleFrame
  <2> HIDE DEF frame
  <2> QED
    BY <1>1, <2>1, <2>2, <2>3, HandleChangeKeeps
<1> QED
  BY <1>2, <1>3

(* The batch comes to its end.                                               *)
LEMMA EndKeeps == ASSUME Listening, EndBatch PROVE Listening' /\ (IInv => IInv')
<1>1. /\ pc = "open" /\ pc' = "end"
      /\ UNCHANGED <<info, oldInfo, inputInfo, producerInfoChange, consumerInfoChange,
                     inputChanges, signalChange, listeners, todo, inputListeners, asked,
                     quiet, told, heard, audioInput, sent, held, commandMutex>>
  BY DEF EndBatch, data, infos, requests, mutexes, callers, ghosts
<1>2. TypeOK'
  BY <1>1 DEF Listening, TypeOK
<1>3. Registered'
  BY <1>1 DEF Listening, Registered
<1>4. Silenced'
  BY <1>1 DEF Listening, Silenced
<1>5. Informed' /\ (IInv => (Announced /\ InOrder)')
  BY <1>1 DEF IInv, Listening, Informed, Untold, Announced, InOrder, Unheard, contained, channels
<1> QED
  BY <1>2, <1>3, <1>4, <1>5 DEF IInv, Listening

-----------------------------------------------------------------------------
(* The end of a batch.                                                       *)

(* Without commands that wait the listeners are those that were asked for.   *)
LEMMA ReadFlagsKeeps == ASSUME Listening, ReadFlags PROVE Listening' /\ (IInv => IInv')
<1>1. /\ pc = "end" /\ producerInfoChange' = FALSE
      /\ pc' = IF inputChanges THEN "lock" ELSE "resize"
      /\ signalChange' = (producerInfoChange \/ (~inputChanges /\ HistoryMissing(info)))
      /\ quiet' = Listener \ asked
      /\ UNCHANGED <<info, oldInfo, inputInfo, consumerInfoChange, inputChanges, listeners,
                     todo, inputListeners, asked, told, heard, audioInput, sent, held,
                     commandMutex>>
  BY DEF ReadFlags, data, requests, mutexes, callers
<1>2. signalChange' \in BOOLEAN
  BY <1>1 DEF Listening, TypeOK, HistoryMissing, Info
<1>3. TypeOK'
  BY <1>1, <1>2 DEF Listening, TypeOK
<1>4. Registered'
  BY <1>1 DEF Listening, Registered
<1>5. Silenced'
  <2>1. ~inputChanges => inputListeners = <<>>
    BY DEF Listening, Registered
  <2>2. ~inputChanges => ToSet(listeners) = asked
    BY <2>1, LeadsNowhere DEF Listening, Registered
  <2> QED
    BY <1>1, <2>2 DEF Listening, Silenced
<1>6. Informed'
  <2>1. ~producerInfoChange => info = oldInfo
    BY <1>1 DEF Listening, Informed
  <2>2. producerInfoChange => signalChange'
    BY <1>1
  <2>3. \A l \in Listener : Untold(l) <=> producerInfoChange
    BY <1>1 DEF Untold
  <2>4. \A l \in Listener : Untold(l)' <=> signalChange'
    BY <1>1 DEF Untold
  <2>5. \A l \in ToSet(listeners) :
          l \in Listener /\ (told[l] \in IF Untold(l) THEN {<<>>, <<oldInfo>>} ELSE {<<info>>})
    BY ListenersAreThem DEF Listening, Informed
  <2>6. \A l \in ToSet(listeners) :
          told[l] \in IF signalChange' THEN {<<>>, <<oldInfo>>} ELSE {<<info>>}
    BY <2>1, <2>2, <2>3, <2>5
  <2>7. \A l \in ToSet(listeners') :
          told'[l] \in IF Untold(l)' THEN {<<>>, <<oldInfo'>>} ELSE {<<info'>>}
    BY <1>1, <2>4, <2>5, <2>6
  <2>8. \A l \in Listener \ ToSet(listeners) : told[l] = <<>>
    BY DEF Listening, Informed
  <2> QED
    BY <1>1, <2>1, <2>2, <2>7, <2>8 DEF Informed
<1>7. IInv => (Announced /\ InOrder)'
  BY <1>1 DEF IInv, Announced, InOrder, Unheard, contained, channels
<1> QED
  BY <1>3, <1>4, <1>5, <1>6, <1>7 DEF IInv, Listening

(* The info changes with what the consumer asked for: a change to be told.   *)
LEMMA LockKeeps == ASSUME Listening, LockCommands PROVE Listening' /\ (IInv => IInv')
<1>1. /\ pc = "lock" /\ pc' = "commands" /\ commandMutex' # None
      /\ info' = IF consumerInfoChange
                 THEN [channels |-> info.channels, store |-> inputInfo.store,
                       size |-> inputInfo.size, capacity |-> inputInfo.capacity,
                       block |-> inputInfo.block]
                 ELSE info
      /\ signalChange' = (signalChange \/ consumerInfoChange \/ HistoryMissing(info'))
      /\ consumerInfoChange' = FALSE
      /\ UNCHANGED <<oldInfo, inputInfo, producerInfoChange, inputChanges, listeners, todo,
                     inputListeners, asked, quiet, told, heard, audioInput, sent, held>>
  BY DEF LockCommands, None, data, callers, ghosts
<1>2. info \in Info /\ info' \in Info /\ info'.channels = info.channels
  <2>1. /\ info \in Info
        /\ inputInfo \in [store : BOOLEAN, size : Nat, capacity : Nat, block : BOOLEAN]
    BY DEF Listening, TypeOK
  <2>2. CASE consumerInfoChange
    BY <1>1, <2>1, <2>2 DEF Info
  <2>3. CASE ~consumerInfoChange
    BY <1>1, <2>1, <2>3
  <2> QED
    BY <2>2, <2>3
<1>3. signalChange' \in BOOLEAN
  BY <1>1, <1>2 DEF Listening, TypeOK, HistoryMissing, Info
<1>4. TypeOK'
  BY <1>1, <1>2, <1>3 DEF Listening, TypeOK
<1>5. Registered'
  BY <1>1 DEF Listening, Registered
<1>6. Silenced'
  BY <1>1 DEF Listening, Silenced
<1>7. Informed'
  <2>1. ~signalChange => info = oldInfo
    BY <1>1 DEF Listening, Informed
  <2>2. (signalChange => signalChange') /\ (~signalChange' => info' = info)
    BY <1>1 DEF Listening, TypeOK
  <2>3. \A l \in Listener : Untold(l) <=> signalChange
    BY <1>1 DEF Untold
  <2>4. \A l \in Listener : Untold(l)' <=> signalChange'
    BY <1>1 DEF Untold
  <2>5. \A l \in ToSet(listeners) :
          l \in Listener /\ (told[l] \in IF Untold(l) THEN {<<>>, <<oldInfo>>} ELSE {<<info>>})
    BY ListenersAreThem DEF Listening, Informed
  <2>6. \A l \in ToSet(listeners) :
          told[l] \in IF signalChange' THEN {<<>>, <<oldInfo>>} ELSE {<<info'>>}
    BY <2>1, <2>2, <2>3, <2>5
  <2>7. \A l \in ToSet(listeners') :
          told'[l] \in IF Untold(l)' THEN {<<>>, <<oldInfo'>>} ELSE {<<info'>>}
    BY <1>1, <2>4, <2>5, <2>6
  <2>8. ~producerInfoChange /\ \A l \in Listener \ ToSet(listeners) : told[l] = <<>>
    BY <1>1 DEF Listening, Informed
  <2> QED
    BY <1>1, <2>7, <2>8 DEF Informed
<1>8. IInv => Announced'
  BY <1>1, <1>2 DEF IInv, Announced, contained, channels
<1>9. IInv => InOrder'
  BY <1>1 DEF IInv, InOrder, Unheard, contained, channels
<1> QED
  BY <1>4, <1>5, <1>6, <1>7, <1>8, <1>9 DEF IInv, Listening

(* Untold(l) while the commands are applied.                                 *)
LEMMA AtCommands ==
    ASSUME Listening, pc = "commands"
    PROVE  /\ \A l \in Listener \ ToSet(listeners) : told[l] = <<>>
           /\ \A l \in ToSet(listeners) :
                 told[l] \in IF signalChange THEN {<<>>, <<oldInfo>>} ELSE {<<info>>}
           /\ IInv => \A l \in ToSet(listeners) : heard[l] \in {0, sent.samples - contained}
<1>1. \A l : Untold(l) <=> signalChange
  BY DEF Untold
<1>2. \A l : Unheard(l)
  BY DEF Unheard
<1> QED
  BY <1>1, <1>2 DEF IInv, Listening, Informed, InOrder

(* The first command adds a listener that was missing.                       *)
LEMMA AddKeeps == ASSUME Listening, ApplyAdd PROVE Listening' /\ (IInv => IInv')
<1> DEFINE l == Head(inputListeners).listener
<1>1. /\ pc = "commands" /\ inputListeners # <<>> /\ Head(inputListeners).wasAdded
      /\ listeners' = Append(listeners, l)
      /\ inputListeners' = Tail(inputListeners)
      /\ told' = IF signalChange THEN told ELSE [told EXCEPT ![l] = <<info>>]
      /\ heard' = [heard EXCEPT ![l] = 0]
      /\ UNCHANGED <<pc, info, oldInfo, inputInfo, producerInfoChange, consumerInfoChange,
                     inputChanges, signalChange, todo, asked, quiet, audioInput, sent, held,
                     commandMutex>>
  BY DEF ApplyAdd, Tell, data, infos, mutexes, processor, callers
<1>2. Registration
  BY DEF Listening, TypeOK, Registration
<1>3. /\ Registration'
      /\ l \in Listener /\ l \notin ToSet(listeners)
      /\ ToSet(listeners') = ToSet(listeners) \cup {l}
  BY <1>2, AddRegisters
<1> HIDE DEF l
<1>4. /\ told' \in [Listener -> Seq(Info)] /\ heard' \in [Listener -> Nat]
      /\ \A m \in Listener \ {l} : told'[m] = told[m] /\ heard'[m] = heard[m]
      /\ told'[l] = IF signalChange THEN told[l] ELSE <<info>>
      /\ heard'[l] = 0
  <2>1. told \in [Listener -> Seq(Info)] /\ heard \in [Listener -> Nat] /\ <<info>> \in Seq(Info)
    BY DEF Listening, TypeOK
  <2> QED
    BY <1>1, <1>3, <2>1
<1>5. TypeOK'
  BY <1>1, <1>3, <1>4 DEF Listening, TypeOK, Registration
<1>6. Registered'
  BY <1>3 DEF Registration
<1>7. Silenced'
  BY <1>1 DEF Listening, Silenced
<1>8. \A m : Untold(m)' <=> signalChange
  BY <1>1 DEF Untold
<1>9. Informed'
  <2>1. \A m \in Listener \ ToSet(listeners') : told'[m] = <<>>
    BY <1>1, <1>3, <1>4, AtCommands
  <2>2. ASSUME NEW m \in ToSet(listeners')
        PROVE  told'[m] \in IF Untold(m)' THEN {<<>>, <<oldInfo'>>} ELSE {<<info'>>}
    <3>1. CASE m = l
      <4>1. told[l] = <<>>
        BY <1>1, <1>3, AtCommands
      <4> QED
        BY <1>1, <1>4, <1>8, <3>1, <4>1
    <3>2. CASE m # l
      <4>1. m \in ToSet(listeners) /\ m \in Listener
        BY <1>3, <3>2, ListenersAreThem
      <4> QED
        BY <1>1, <1>4, <1>8, <3>2, <4>1, AtCommands
    <3> QED
      BY <3>1, <3>2
  <2>3. ~producerInfoChange
    BY <1>1 DEF Listening, Informed
  <2> QED
    BY <1>1, <2>1, <2>2, <2>3 DEF Informed
<1>10. IInv => Announced'
  BY <1>1 DEF IInv, Announced, contained, channels
<1>11. ASSUME IInv PROVE InOrder'
  <2>1. contained' = contained
    BY <1>1 DEF contained, channels
  <2>2. ASSUME NEW m \in ToSet(listeners')
        PROVE  heard'[m] \in {0, sent.samples - contained}
    BY <1>1, <1>3, <1>4, <1>11, AtCommands, ListenersAreThem
  <2>3. \A m : Unheard(m)'
    BY <1>1 DEF Unheard
  <2> QED
    BY <1>1, <1>11, <2>1, <2>2, <2>3 DEF IInv, InOrder
<1> QED
  BY <1>5, <1>6, <1>7, <1>9, <1>10, <1>11 DEF IInv, Listening

(* The first command removes a listener that was there.                      *)
LEMMA RemoveKeeps == ASSUME Listening, ApplyRemove PROVE Listening' /\ (IInv => IInv')
<1> DEFINE l == Head(inputListeners).listener
<1>1. /\ pc = "commands" /\ inputListeners # <<>> /\ ~Head(inputListeners).wasAdded
      /\ listeners' = RemoveFirst(listeners, l)
      /\ inputListeners' = Tail(inputListeners)
      /\ told' = [told EXCEPT ![l] = <<>>]
      /\ UNCHANGED <<pc, info, oldInfo, inputInfo, producerInfoChange, consumerInfoChange,
                     inputChanges, signalChange, todo, asked, quiet, heard, audioInput, sent,
                     held, commandMutex>>
  BY DEF ApplyRemove, data, infos, mutexes, processor, callers
<1>2. Registration
  BY DEF Listening, TypeOK, Registration
<1>3. /\ Registration'
      /\ l \in Listener /\ ToSet(listeners') = ToSet(listeners) \ {l}
  BY <1>2, RemoveRegisters
<1> HIDE DEF l
<1>4. /\ told' \in [Listener -> Seq(Info)] /\ told'[l] = <<>>
      /\ \A m \in Listener \ {l} : told'[m] = told[m]
  <2>1. told \in [Listener -> Seq(Info)] /\ <<>> \in Seq(Info)
    BY DEF Listening, TypeOK
  <2> QED
    BY <1>1, <1>3, <2>1
<1>5. TypeOK'
  BY <1>1, <1>3, <1>4 DEF Listening, TypeOK, Registration
<1>6. Registered'
  BY <1>3 DEF Registration
<1>7. Silenced'
  BY <1>1 DEF Listening, Silenced
<1>8. \A m : Untold(m)' <=> signalChange
  BY <1>1 DEF Untold
<1>9. Informed'
  <2>1. \A m \in Listener \ ToSet(listeners') : told'[m] = <<>>
    BY <1>1, <1>3, <1>4, AtCommands
  <2>2. ASSUME NEW m \in ToSet(listeners')
        PROVE  told'[m] \in IF Untold(m)' THEN {<<>>, <<oldInfo'>>} ELSE {<<info'>>}
    <3>1. m \in ToSet(listeners) /\ m \in Listener \ {l}
      BY <1>3, ListenersAreThem
    <3> QED
      BY <1>1, <1>4, <1>8, <3>1, AtCommands
  <2>3. ~producerInfoChange
    BY <1>1 DEF Listening, Informed
  <2> QED
    BY <1>1, <2>1, <2>2, <2>3 DEF Informed
<1>10. IInv => Announced'
  BY <1>1 DEF IInv, Announced, contained, channels
<1>11. ASSUME IInv PROVE InOrder'
  <2>1. contained' = contained
    BY <1>1 DEF contained, channels
  <2>2. \A m \in ToSet(listeners') : heard'[m] \in {0, sent.samples - contained}
    BY <1>1, <1>3, <1>11, AtCommands
  <2>3. \A m : Unheard(m)'
    BY <1>1 DEF Unheard
  <2> QED
    BY <1>1, <1>11, <2>1, <2>2, <2>3 DEF IInv, InOrder
<1> QED
  BY <1>5, <1>6, <1>7, <1>9, <1>10, <1>11 DEF IInv, Listening

(* All commands are applied: whoever's removal had returned is removed.      *)
LEMMA UnlockKeeps == ASSUME Listening, UnlockCommands PROVE Listening' /\ (IInv => IInv')
<1>1. /\ pc = "commands" /\ pc' = "resize" /\ inputListeners = <<>> /\ commandMutex' = None
      /\ inputChanges' = FALSE
      /\ UNCHANGED <<info, oldInfo, inputInfo, producerInfoChange, consumerInfoChange,
                     signalChange, listeners, todo, inputListeners, asked, quiet, told,
                     heard, audioInput, sent, held>>
  BY DEF UnlockCommands, data, infos, callers, ghosts
<1>2. TypeOK'
  BY <1>1 DEF Listening, TypeOK
<1>3. Registered'
  BY <1>1 DEF Listening, Registered
<1>4. Silenced'
  <2>1. ToSet(listeners) = asked
    BY <1>1, LeadsNowhere DEF Listening, Registered
  <2> QED
    BY <1>1, <2>1 DEF Listening, Silenced
<1>5. Informed' /\ (IInv => (Announced /\ InOrder)')
  BY <1>1 DEF IInv, Listening, Informed, Untold, Announced, InOrder, Unheard, contained, channels
<1> QED
  BY <1>2, <1>3, <1>4, <1>5 DEF IInv, Listening

(* Each listener is to be called.                                            *)
LEMMA ResizeKeeps == ASSUME Listening, ResizeHistory PROVE Listening' /\ (IInv => IInv')
<1>1. /\ pc = "resize" /\ pc' = "notify" /\ todo' = listeners
      /\ UNCHANGED <<info, oldInfo, inputInfo, producerInfoChange, consumerInfoChange,
                     inputChanges, signalChange, listeners, inputListeners, asked, quiet,
                     told, heard, audioInput, sent, held, commandMutex>>
  BY DEF ResizeHistory, infos, requests, mutexes, callers, ghosts
<1>2. TypeOK'
  BY <1>1 DEF Listening, TypeOK
<1>3. Registered'
  BY <1>1 DEF Listening, Registered
<1>4. Silenced'
  BY <1>1 DEF Listening, Registered, Silenced
<1>5. Informed'
  BY <1>1 DEF Listening, Informed, Untold
<1>6. IInv => Announced'
  BY <1>1 DEF IInv, Announced, contained, channels
<1>7. IInv => InOrder'
  BY <1>1 DEF IInv, InOrder, Unheard, contained, channels
<1> QED
  BY <1>2, <1>3, <1>4, <1>5, <1>6, <1>7 DEF IInv, Listening

(* The last sample of the batch is the last that was handed over.            *)
LEMMA LastOfBatch ==
    ASSUME Listening
    PROVE  /\ contained \in Nat /\ sent.samples \in Nat
           /\ contained > 0 => Last(audioInput[1]) \in Nat
           /\ IInv /\ contained > 0 => Last(audioInput[1]) = sent.samples
<1>1. audioInput \in Seq(Seq(Nat)) /\ sent.samples \in Nat
  BY DEF IInv, Listening, TypeOK
<1>2. Len(audioInput) \in Nat /\ (Len(audioInput) # 0 => audioInput[1] \in Seq(Nat))
  BY <1>1
<1>3. contained \in Nat /\ (contained > 0 => contained = Len(audioInput[1]))
  BY <1>2 DEF contained, channels
<1>4. contained > 0 => Last(audioInput[1]) = audioInput[1][contained]
  BY <1>3 DEF Last
<1>5. contained > 0 => Last(audioInput[1]) \in Nat
  BY <1>2, <1>3, <1>4 DEF contained, channels
<1>6. ASSUME IInv, contained > 0 PROVE Last(audioInput[1]) = sent.samples
  <2>2. contained \in 1 .. contained /\ sent.samples - contained + contained = sent.samples
    BY <1>1, <1>3, <1>6
  <2>3. \A i \in 1 .. contained : audioInput[1][i] = sent.samples - contained + i
    BY <1>6 DEF IInv, InOrder
  <2> QED
    BY <1>4, <1>6, <2>2, <2>3
<1> QED
  BY <1>1, <1>3, <1>5, <1>6

(* The next listener is called, and no longer waits.                         *)
LEMMA NotifyKeeps == ASSUME Listening, Notify PROVE Listening' /\ (IInv => IInv')
<1> DEFINE l == Head(todo)
           before == sent.samples - contained
<1>1. /\ pc = "notify" /\ todo # <<>> /\ todo' = Tail(todo)
      /\ told' = IF signalChange THEN [told EXCEPT ![l] = <<info>>] ELSE told
      /\ heard' = IF contained > 0 THEN [heard EXCEPT ![l] = Last(audioInput[1])] ELSE heard
      /\ UNCHANGED <<pc, info, oldInfo, inputInfo, producerInfoChange, consumerInfoChange,
                     inputChanges, signalChange, listeners, inputListeners, asked, quiet,
                     audioInput, sent, held, commandMutex>>
  BY DEF Notify, Tell, data, infos, requests, mutexes, callers
<1>2. todo \in Seq(Listener) /\ Distinct(todo) /\ ToSet(todo) \subseteq ToSet(listeners)
  BY <1>1 DEF Listening, TypeOK, Silenced
<1>3. /\ l \in Listener /\ l \in ToSet(todo)
      /\ todo' \in Seq(Listener) /\ Distinct(todo') /\ ToSet(todo') = ToSet(todo) \ {l}
  BY <1>1, <1>2, HeadAndTail
<1> HIDE DEF l
<1>4. /\ told' \in [Listener -> Seq(Info)]
      /\ told'[l] = IF signalChange THEN <<info>> ELSE told[l]
      /\ \A m \in Listener \ {l} : told'[m] = told[m]
  <2>1. told \in [Listener -> Seq(Info)] /\ <<info>> \in Seq(Info)
    BY DEF Listening, TypeOK
  <2> QED
    BY <1>1, <1>3, <2>1
<1>5. /\ heard' \in [Listener -> Nat]
      /\ IInv => heard'[l] = IF contained > 0 THEN sent.samples ELSE heard[l]
      /\ \A m \in Listener \ {l} : heard'[m] = heard[m]
  <2>1. heard \in [Listener -> Nat] /\ (contained > 0 => Last(audioInput[1]) \in Nat)
    BY LastOfBatch DEF Listening, TypeOK
  <2> QED
    BY <1>1, <1>3, <2>1, LastOfBatch
<1>6. TypeOK'
  BY <1>1, <1>3, <1>4, <1>5 DEF Listening, TypeOK
<1>7. Registered'
  BY <1>1 DEF Listening, Registered
<1>8. Silenced'
  BY <1>1, <1>2, <1>3 DEF Listening, Silenced
<1>9. Informed'
  <2>1. ~producerInfoChange /\ \A m \in Listener \ ToSet(listeners) : told[m] = <<>>
    BY <1>1 DEF Listening, Informed
  <2>2. \A m \in ToSet(listeners) : m \in Listener
    BY ListenersAreThem
  <2>3. \A m \in ToSet(listeners) :
          told[m] \in IF signalChange /\ m \in ToSet(todo) THEN {<<>>, <<oldInfo>>} ELSE {<<info>>}
    BY <1>1 DEF Listening, Informed, Untold
  <2>4. ASSUME NEW m \in ToSet(listeners)
        PROVE  told'[m] \in IF signalChange /\ m \in ToSet(todo') THEN {<<>>, <<oldInfo>>}
                                                              ELSE {<<info>>}
    <3>1. CASE m = l
      BY <1>3, <1>4, <2>3, <2>4, <3>1
    <3>2. CASE m # l
      BY <1>3, <1>4, <2>2, <2>3, <2>4, <3>2
    <3> QED
      BY <3>1, <3>2
  <2>5. ASSUME NEW m \in Listener \ ToSet(listeners) PROVE told'[m] = <<>>
    <3>1. m # l
      BY <1>2, <1>3, <2>5
    <3> QED
      BY <1>4, <2>1, <2>5, <3>1
  <2>6. \A m : Untold(m)' <=> signalChange /\ m \in ToSet(todo')
    BY <1>1 DEF Untold
  <2> QED
    BY <1>1, <2>1, <2>4, <2>5, <2>6 DEF Informed
<1>10. IInv => Announced'
  BY <1>1 DEF IInv, Announced, contained, channels
<1>11. ASSUME IInv PROVE InOrder'
  <2>1. contained' = contained
    BY <1>1 DEF contained, channels
  <2>2. \A m \in ToSet(listeners) :
          m \in Listener /\ heard[m] \in {0, IF m \in ToSet(todo) THEN before ELSE sent.samples}
    BY <1>1, <1>11, ListenersAreThem DEF IInv, InOrder, Unheard
  <2>3. contained = 0 => before = sent.samples
    BY LastOfBatch
  <2>4. contained > 0 \/ contained = 0
    BY LastOfBatch
  <2> HIDE DEF before
  <2>5. ASSUME NEW m \in ToSet(listeners)
        PROVE  heard'[m] \in {0, IF m \in ToSet(todo') THEN before ELSE sent.samples}
    <3>1. CASE m = l
      BY <1>3, <1>5, <1>11, <2>2, <2>3, <2>4, <2>5, <3>1
    <3>2. CASE m # l
      BY <1>3, <1>5, <2>2, <2>5, <3>2
    <3> QED
      BY <3>1, <3>2
  <2>6. \A m : Unheard(m)' <=> m \in ToSet(todo')
    BY <1>1 DEF Unheard
  <2> QED
    BY <1>1, <1>11, <2>1, <2>5, <2>6 DEF IInv, InOrder, before
<1> QED
  BY <1>6, <1>7, <1>8, <1>9, <1>10, <1>11 DEF IInv, Listening

(* When all were called, all know the info and heard the last sample.        *)
LEMMA AdvanceKeeps == ASSUME Listening, Advance PROVE Listening' /\ (IInv => IInv')
<1>1. /\ pc = "notify" /\ pc' = "publish" /\ todo = <<>>
      /\ UNCHANGED <<info, oldInfo, inputInfo, producerInfoChange, consumerInfoChange,
                     inputChanges, signalChange, listeners, todo, inputListeners, asked, quiet,
                     told, heard, audioInput, sent, held, commandMutex>>
  BY DEF Advance, data, infos, requests, callers, ghosts, mutexes
<1>2. ToSet(todo) = {}
  BY <1>1 DEF ToSet
<1>3. TypeOK'
  BY <1>1 DEF Listening, TypeOK
<1>4. Registered'
  BY <1>1 DEF Listening, Registered
<1>5. Silenced'
  BY <1>1 DEF Listening, Silenced
<1>6. Informed'
  BY <1>1, <1>2 DEF Listening, Informed, Untold
<1>7. IInv => Announced'
  BY <1>1 DEF IInv, Announced, contained, channels
<1>8. IInv => InOrder'
  BY <1>1, <1>2 DEF IInv, InOrder, Unheard, contained, channels
<1> QED
  BY <1>3, <1>4, <1>5, <1>6, <1>7, <1>8 DEF IInv, Listening

(* The batch is over, or the next begins with the frame that ended it.       *)
LEMMA PublishKeeps == ASSUME Listening, Publish PROVE Listening' /\ (IInv => IInv')
<1>1. /\ pc = "publish" /\ held' = <<>>
      /\ UNCHANGED <<inputInfo, consumerInfoChange, inputChanges, signalChange, listeners, todo,
                     inputListeners, asked, quiet, told, heard, sent, commandMutex>>
  BY DEF Publish, requests, mutexes, callers, ghosts
<1>2. Registered' \/ pc' = "commands"
  BY <1>1 DEF Listening, Registered
<1>3. Silenced' \/ pc' \notin {"idle", "open"}
  BY <1>1 DEF Listening, Silenced
<1>4. /\ ~producerInfoChange
      /\ \A l \in Listener \ ToSet(listeners) : told[l] = <<>>
      /\ \A l \in ToSet(listeners) : told[l] = <<info>>
  BY <1>1 DEF Listening, Informed, Untold
<1>5. IInv => \A l \in ToSet(listeners) : heard[l] \in {0, sent.samples}
  BY <1>1 DEF IInv, InOrder, Unheard
<1>6. CASE held = <<>>
  <2>1. pc' = "idle" /\ UNCHANGED <<info, oldInfo, producerInfoChange, audioInput>>
    BY <1>6 DEF Publish
  <2>2. TypeOK'
    BY <1>1, <2>1 DEF Listening, TypeOK
  <2>3. Informed'
    BY <1>1, <1>4, <2>1 DEF Informed, Untold
  <2>4. IInv => Announced'
    BY <1>1, <1>6, <2>1 DEF IInv, Announced
  <2>5. IInv => InOrder'
    BY <1>1, <1>5, <2>1 DEF IInv, InOrder, Unheard, contained, channels
  <2> QED
    BY <1>2, <1>3, <2>1, <2>2, <2>3, <2>4, <2>5 DEF IInv, Listening
<1>7. CASE held # <<>>
  <2> DEFINE frame == held[1]
  <2>1. /\ pc' = "open" /\ oldInfo' = info /\ ApplyChange(frame)
        /\ audioInput' = [c \in 1 .. channels |-> <<>>]
    BY <1>7 DEF Publish, Begin
  <2>2. frame \in Change
    BY <1>7 DEF Listening, TypeOK
  <2>3. audioInput' \in Seq(Seq(Nat)) /\ contained' = 0
    <3>1. channels \in Nat
      BY DEF Listening, TypeOK, channels
    <3> QED
      BY <2>1, <3>1, Emptied
  <2>4. /\ info' = IF frame.type = "info" THEN [info EXCEPT !.channels = frame.channels] ELSE info
        /\ producerInfoChange' = (frame.type = "info")
    BY <1>4, <2>1 DEF ApplyChange
  <2>5. IInv => IF frame.type = "info" THEN frame.channels = sent.channels
                                       ELSE info.channels = sent.channels
    BY <1>7 DEF IInv, Announced
  <2> HIDE DEF frame
  <2>6. info \in Info /\ info' \in Info /\ (IInv => info'.channels = sent.channels)
    <3>1. info \in Info
      BY DEF Listening, TypeOK
    <3>2. CASE frame.type = "info"
      <4>1. frame.channels \in Nat
        BY <2>2, <3>2 DEF Change
      <4> QED
        BY <2>4, <2>5, <3>1, <3>2, <4>1 DEF Info
    <3>3. CASE frame.type # "info"
      BY <2>4, <2>5, <3>1, <3>3
    <3> QED
      BY <3>2, <3>3
  <2>7. TypeOK'
    BY <1>1, <2>1, <2>3, <2>4, <2>6 DEF Listening, TypeOK
  <2>8. Informed'
    <3>1. ~producerInfoChange' => info' = info
      BY <2>4
    <3>2. \A l \in ToSet(listeners') : told'[l] = <<oldInfo'>>
      BY <1>1, <1>4, <2>1
    <3>3. \A l : Untold(l)' <=> producerInfoChange'
      BY <2>1 DEF Untold
    <3> QED
      BY <1>1, <1>4, <2>1, <3>1, <3>2, <3>3 DEF Informed
  <2>9. IInv => Announced'
    BY <1>1, <2>1, <2>3, <2>6 DEF Announced
  <2>10. ASSUME IInv PROVE InOrder'
    <3>1. sent.samples \in Nat /\ sent.samples - 0 = sent.samples
      BY DEF Listening, TypeOK
    <3> QED
      BY <1>1, <1>5, <2>3, <2>10, <3>1 DEF InOrder
  <2> QED
    BY <1>2, <1>3, <2>1, <2>7, <2>8, <2>9, <2>10 DEF IInv, Listening
<1> QED
  BY <1>6, <1>7

-----------------------------------------------------------------------------
(* The end of the Output.                                                    *)

(* There is no batch then.                                                   *)
LEMMA DestroyKeeps == ASSUME IInv, Destroy PROVE IInv'
<1>1. /\ pc = "idle" /\ pc' = "dead" /\ todo' = listeners
      /\ UNCHANGED <<info, oldInfo, inputInfo, producerInfoChange, consumerInfoChange,
                     inputChanges, signalChange, listeners, inputListeners, asked, quiet,
                     told, heard, audioInput, sent, held, commandMutex>>
  BY DEF Destroy, data, infos, requests, mutexes, callers, ghosts
<1>2. TypeOK'
  BY <1>1 DEF IInv, Listening, TypeOK
<1>3. Registered'
  BY <1>1 DEF IInv, Listening, Registered
<1>4. Silenced'
  BY <1>1 DEF IInv, Listening, Silenced
<1>5. Informed'
  BY <1>1 DEF IInv, Listening, Informed, Untold
<1>6. Announced'
  BY <1>1 DEF IInv, Announced
<1>7. InOrder'
  BY <1>1 DEF IInv, InOrder, Unheard, contained, channels
<1> QED
  BY <1>2, <1>3, <1>4, <1>5, <1>6, <1>7 DEF IInv, Listening

(* The listeners are told one by one.                                        *)
LEMMA DiedKeeps == ASSUME IInv, StreamDied PROVE IInv'
<1>1. /\ pc = "dead" /\ todo # <<>> /\ todo' = Tail(todo)
      /\ UNCHANGED <<pc, info, oldInfo, inputInfo, producerInfoChange, consumerInfoChange,
                     inputChanges, signalChange, listeners, inputListeners, asked, quiet,
                     told, heard, audioInput, sent, held, commandMutex>>
  BY DEF StreamDied, data, infos, requests, mutexes, callers
<1>2. todo' \in Seq(Listener) /\ ToSet(todo') \subseteq ToSet(todo)
  <2>1. todo \in Seq(Listener)
    BY DEF IInv, Listening, TypeOK
  <2>2. /\ todo' \in Seq(Listener) /\ DOMAIN todo = 1 .. Len(todo)
        /\ \A i \in DOMAIN todo' : i + 1 \in DOMAIN todo /\ todo'[i] = todo[i + 1]
    BY <1>1, <2>1
  <2> QED
    BY <2>2 DEF ToSet
<1>3. TypeOK'
  BY <1>1, <1>2 DEF IInv, Listening, TypeOK
<1>4. Registered'
  BY <1>1 DEF IInv, Listening, Registered
<1>5. Silenced'
  BY <1>1, <1>2 DEF IInv, Listening, Silenced
<1>6. Informed'
  BY <1>1 DEF IInv, Listening, Informed, Untold
<1>7. Announced'
  BY <1>1 DEF IInv, Announced
<1>8. InOrder'
  BY <1>1 DEF IInv, InOrder, Unheard, contained, channels
<1> QED
  BY <1>3, <1>4, <1>5, <1>6, <1>7, <1>8 DEF IInv, Listening

-----------------------------------------------------------------------------
(* The invariant holds, and what follows from it.                            *)

(* Nothing has been asked for or handed over.                                *)
LEMMA InitKeeps == ASSUME Init PROVE IInv
<1>1. TypeOK
  <2>1. /\ NoInfo \in Info
        /\ ConsumerPart(NoInfo) \in [store : BOOLEAN, size : Nat, capacity : Nat, block : BOOLEAN]
    BY DEF NoInfo, Info, ConsumerPart
  <2>2. <<>> \in Seq(Listener) /\ <<>> \in Seq(Commanding) /\ <<>> \in Seq(Seq(Nat))
        /\ <<>> \in Seq(Info)
    OBVIOUS
  <2>3. /\ told \in [Listener -> Seq(Info)] /\ heard \in [Listener -> Nat]
        /\ sent \in [samples : Nat, channels : Nat, infos : Nat]
    BY <2>2 DEF Init
  <2>4. {producerInfoChange, consumerInfoChange, inputChanges, signalChange} \subseteq BOOLEAN
    BY DEF Init
  <2> QED
    BY <2>1, <2>2, <2>3, <2>4 DEF Init, TypeOK
<1>2. ToSet(<<>>) = {}
  BY DEF ToSet
<1>3. Registered
  <2>1. Leads(<<>>, {}, {})
    <3> DEFINE r == [i \in 0 .. 0 |-> {}]
    <3>1. r \in [0 .. Len(<<>>) -> SUBSET Listener] /\ r[0] = {} /\ r[Len(<<>>)] = {}
      OBVIOUS
    <3>2. 1 .. Len(<<>>) = {}
      OBVIOUS
    <3> QED
      BY <3>1, <3>2 DEF Leads
  <2>2. Distinct(<<>>)
    BY DEF Distinct
  <2>3. listeners = <<>> /\ inputListeners = <<>> /\ asked = {} /\ pc = "idle" /\ commandMutex = None
    BY DEF Init
  <2> QED
    BY <1>2, <2>1, <2>2, <2>3 DEF Registered
<1>4. Silenced
  BY <1>2 DEF Init, Silenced
<1>5. Informed
  BY <1>2 DEF Init, Informed
<1>6. Announced
  BY DEF Init, Announced, NoInfo
<1>7. InOrder
  <2>1. contained = 0 /\ sent.samples = 0
    BY DEF Init, contained, channels
  <2> QED
    BY <1>2, <2>1 DEF Init, InOrder
<1> QED
  BY <1>1, <1>3, <1>4, <1>5, <1>6, <1>7 DEF IInv, Listening

(* Each step keeps it.                                                       *)
LEMMA NextKeeps == ASSUME OutputAssumption, IInv, [Next]_vars PROVE IInv'
<1>0. Listening
  BY DEF IInv
<1>1. CASE BeginBatch
  BY <1>0, <1>1, BeginKeeps
<1>2. CASE GiveAudio
  BY <1>2, AudioKeeps
<1>3. CASE GiveInfo \/ GiveTransport
  BY <1>3, ChangeKeeps
<1>4. CASE EndBatch
  BY <1>0, <1>4, EndKeeps
<1>5. CASE ReadFlags
  BY <1>0, <1>5, ReadFlagsKeeps
<1>6. CASE LockCommands
  BY <1>0, <1>6, LockKeeps
<1>7. CASE ApplyAdd
  BY <1>0, <1>7, AddKeeps
<1>8. CASE ApplyRemove
  BY <1>0, <1>8, RemoveKeeps
<1>9. CASE UnlockCommands
  BY <1>0, <1>9, UnlockKeeps
<1>10. CASE ResizeHistory
  BY <1>0, <1>10, ResizeKeeps
<1>11. CASE Notify
  BY <1>0, <1>11, NotifyKeeps
<1>12. CASE Advance
  BY <1>0, <1>12, AdvanceKeeps
<1>13. CASE Publish
  BY <1>0, <1>13, PublishKeeps
<1>14. CASE Spool \/ TakeViews \/ ReleaseViews \/ Stopped \/ UNCHANGED vars
  <2>1. UNCHANGED core
    <3>1. CASE Spool
      BY <3>1 DEF Spool, core, infos, requests, mutexes, processor, callers, ghosts
    <3>2. CASE TakeViews \/ ReleaseViews
      BY <3>2 DEF TakeViews, ReleaseViews, core, data, infos, requests, processor, ghosts
    <3>3. CASE Stopped \/ UNCHANGED vars
      BY <3>3 DEF Stopped, vars, core, data, infos, requests, mutexes, processor, callers, ghosts
    <3> QED
      BY <1>14, <3>1, <3>2, <3>3
  <2> QED
    BY <1>0, <2>1, UntouchedKeeps
<1>15. CASE Commands
  <2>1. CASE \E l \in Listener : AddListener(l) \/ RemoveListener(l)
    BY <1>0, <2>1, CommandKeeps
  <2>2. CASE \E consumer \in Consumers : ModifyConsumerInfo(consumer)
    BY <1>0, <2>2, ModifyKeeps
  <2> QED
    BY <1>15, <2>1, <2>2 DEF Commands
<1>16. CASE Destroy
  BY <1>16, DestroyKeeps
<1>17. CASE StreamDied
  BY <1>17, DiedKeeps
<1> QED
  BY <1>1, <1>2, <1>3, <1>4, <1>5, <1>6, <1>7, <1>8, <1>9, <1>10, <1>11, <1>12, <1>13, <1>14,
     <1>15, <1>16, <1>17 DEF Next, Batch, Finish

(* The invariant is one of the specification, for any listeners, commands    *)
(* and frames.                                                               *)
THEOREM Invariance == Spec => []IInv
<1>1. Init => IInv
  BY InitKeeps
<1>2. IInv /\ [Next]_vars => IInv'
  BY OutputAssumption, NextKeeps
<1> QED
  BY <1>1, <1>2, PTL DEF Spec

(* Only the call of a listener lets it hear or know anything.                *)
LEMMA OnlyNotify ==
    ASSUME [Next]_vars
    PROVE  /\ heard' = heard \/ Notify \/ ApplyAdd
           /\ told' = told \/ Notify \/ ApplyAdd \/ ApplyRemove
           /\ pc = "notify" /\ todo' # todo => Notify
<1>1. CASE Batch
  BY <1>1 DEF Batch, BeginBatch, GiveAudio, GiveInfo, GiveTransport, HandleFrame, HandleAudio,
       HandleChange, EndBatch, processor, ghosts
<1>2. CASE ReadFlags \/ LockCommands
  BY <1>2 DEF ReadFlags, LockCommands, ghosts
<1>3. CASE ApplyRemove \/ UnlockCommands
  BY <1>3 DEF ApplyRemove, UnlockCommands, ghosts
<1>4. CASE ResizeHistory \/ Advance
  BY <1>4 DEF ResizeHistory, Advance, ghosts
<1>5. CASE Publish
  BY <1>5 DEF Publish, ghosts
<1>6. CASE ApplyAdd
  BY <1>6 DEF ApplyAdd, processor
<1>7. CASE Spool \/ TakeViews \/ ReleaseViews
  BY <1>7 DEF Spool, TakeViews, ReleaseViews, processor, ghosts
<1>8. CASE Commands
  BY <1>8 DEF Commands, AddListener, RemoveListener, ModifyConsumerInfo, processor, ghosts
<1>9. CASE Destroy \/ StreamDied \/ Stopped \/ UNCHANGED vars
  BY <1>9 DEF Destroy, StreamDied, Stopped, vars, processor, ghosts
<1> QED
  BY <1>1, <1>2, <1>3, <1>4, <1>5, <1>6, <1>7, <1>8, <1>9 DEF Next, Finish

(* Those that were removed are not to be called; one that is added has its   *)
(* removal waiting.                                                          *)
LEMMA QuietIsNotCalled ==
    ASSUME Listening, told' = told \/ Notify \/ ApplyAdd \/ ApplyRemove,
           NEW l \in quiet, Called(l)
    PROVE  /\ pc = "commands"
           /\ [listener |-> l, wasAdded |-> FALSE] \in ToSet(Tail(inputListeners))
<1>1. /\ l \in Listener /\ l \notin asked /\ todo \in Seq(Listener)
      /\ told \in [Listener -> Seq(Info)]
  BY DEF Listening, TypeOK, Silenced
<1>2. ~(todo # <<>> /\ l = Head(todo))
  <2> SUFFICES ASSUME todo # <<>>, l = Head(todo) PROVE FALSE
    OBVIOUS
  <2>1. l \in ToSet(todo)
    BY <1>1 DEF ToSet
  <2>2. pc \in {"notify", "dead"} /\ ToSet(todo) \subseteq ToSet(listeners)
    BY DEF Listening, Silenced
  <2> QED
    BY <2>1, <2>2 DEF Listening, Silenced
<1>3. told'[l] # told[l] /\ told'[l] # <<>>
  BY <1>2 DEF Called
<1>4. CASE Notify
  BY <1>1, <1>2, <1>3, <1>4 DEF Notify, Tell
<1>5. CASE ApplyRemove
  BY <1>1, <1>3, <1>5 DEF ApplyRemove
<1>6. CASE ApplyAdd
  <2>1. /\ pc = "commands" /\ inputListeners # <<>> /\ l = Head(inputListeners).listener
        /\ Head(inputListeners).wasAdded
    BY <1>1, <1>3, <1>6 DEF ApplyAdd, Tell
  <2>2. inputListeners \in Seq(Commanding) /\ Leads(inputListeners, ToSet(listeners), asked)
    BY DEF Listening, TypeOK, Registered
  <2>3. Leads(Tail(inputListeners), ToSet(listeners) \cup {l}, asked)
    BY <2>1, <2>2, LeadsFrom
  <2> DEFINE cs == Tail(inputListeners)
             from == ToSet(listeners) \cup {l}
  <2>4. cs \in Seq(Commanding) /\ l \in from /\ Leads(cs, from, asked)
    BY <2>1, <2>2, <2>3
  <2> HIDE DEF cs, from
  <2>5. [listener |-> l, wasAdded |-> FALSE] \in ToSet(cs)
    BY <1>1, <2>4, LeadsAway
  <2> QED
    BY <2>1, <2>5 DEF cs
<1> QED
  BY <1>3, <1>4, <1>5, <1>6

(* A listener whose removal had returned when the batch came to its end is   *)
(* not called in it any more, nor later, except that one which was added as  *)
(* well since the batch before may be told the info as it is added.          *)
THEOREM RemovalIsFinal == Spec => RemovedIsQuiet
<1>1. ASSUME IInv, [Next]_vars, NEW l \in quiet, Called(l)
      PROVE  /\ pc = "commands"
             /\ [listener |-> l, wasAdded |-> FALSE] \in ToSet(Tail(inputListeners))
  BY <1>1, OnlyNotify, QuietIsNotCalled DEF IInv
<1>2. IInv /\ [Next]_vars =>
        [\A l \in quiet : Called(l) =>
            /\ pc = "commands"
            /\ [listener |-> l, wasAdded |-> FALSE] \in ToSet(Tail(inputListeners))]_vars
  BY <1>1
<1> QED
  BY <1>2, Invariance, PTL DEF Spec, RemovedIsQuiet

(* Whoever is called next was told of the present info or is told now, of    *)
(* what became of the last one it knew.                                      *)
LEMMA CallsAreTold ==
    ASSUME Listening, Notify, NEW l, l = Head(todo)
    PROVE  /\ l \in Listener /\ told'[l] = <<info>>
           /\ signalChange => told[l] \in {<<>>, <<oldInfo>>}
<1>1. /\ pc = "notify" /\ todo # <<>>
      /\ told' = IF signalChange THEN [told EXCEPT ![l] = <<info>>] ELSE told
  BY DEF Notify, Tell
<1>2. l \in Listener /\ l \in ToSet(todo) /\ l \in ToSet(listeners)
  BY <1>1, HeadAndTail DEF Listening, TypeOK, Silenced
<1>3. told[l] \in IF signalChange THEN {<<>>, <<oldInfo>>} ELSE {<<info>>}
  BY <1>1, <1>2 DEF Listening, Informed, Untold
<1>4. told \in [Listener -> Seq(Info)]
  BY DEF Listening, TypeOK
<1> QED
  BY <1>1, <1>2, <1>3, <1>4

(* What a listener hears has been told to it, and follows what it heard.     *)
LEMMA Hearing ==
    ASSUME IInv, [Next]_vars, NEW l \in Listener, heard'[l] # heard[l], heard'[l] # 0
    PROVE  /\ told'[l] = <<info>> /\ channels = info.channels
           /\ heard[l] \in {0, audioInput[1][1] - 1}
<1>1. heard \in [Listener -> Nat] /\ told \in [Listener -> Seq(Info)]
  BY DEF IInv, Listening, TypeOK
<1>2. Notify
  <2>1. CASE ApplyAdd
    BY <1>1, <2>1 DEF ApplyAdd
  <2> QED
    BY <2>1, OnlyNotify
<1>3. /\ pc = "notify" /\ todo # <<>>
      /\ IF signalChange THEN told' = [told EXCEPT ![Head(todo)] = <<info>>] ELSE told' = told
      /\ contained > 0 /\ heard' = [heard EXCEPT ![Head(todo)] = Last(audioInput[1])]
  BY <1>2 DEF Notify, Tell
<1>4. l = Head(todo)
  BY <1>1, <1>3
<1>5. l \in ToSet(todo) /\ l \in ToSet(listeners)
  BY <1>3, <1>4, HeadAndTail DEF IInv, Listening, TypeOK, Silenced
<1>6. told'[l] = <<info>>
  BY <1>2, <1>4, CallsAreTold DEF IInv
<1>7. channels = info.channels
  BY <1>3 DEF IInv, Announced
<1>8. heard[l] \in {0, audioInput[1][1] - 1}
  <2>1. heard[l] \in {0, sent.samples - contained}
    BY <1>3, <1>5 DEF IInv, InOrder, Unheard
  <2>2. audioInput[1][1] = sent.samples - contained + 1
    <3>1. 1 \in 1 .. contained
      BY <1>3, LastOfBatch DEF IInv
    <3> QED
      BY <3>1 DEF IInv, InOrder
  <2>3. sent.samples - contained \in Int
    BY LastOfBatch DEF IInv
  <2>4. \A x \in Int : x + 1 - 1 = x
    OBVIOUS
  <2> QED
    BY <2>1, <2>2, <2>3, <2>4
<1> QED
  BY <1>6, <1>7, <1>8

(* A listener gets audio only when it has been told the info that is in      *)
(* force, with as many channels as that says.                                *)
THEOREM AudioComesAsTold == Spec => AudioAsTold
<1>1. IInv /\ [Next]_vars =>
        [\A l \in Listener : heard'[l] # heard[l] /\ heard'[l] # 0 =>
           /\ told'[l] = <<info>>
           /\ channels = info.channels]_vars
  BY Hearing
<1> QED
  BY <1>1, Invariance, PTL DEF Spec, AudioAsTold

(* As long as a listener is not removed it hears each sample once, in order. *)
THEOREM AudioComesInOrder == Spec => HearsEverySample
<1>1. IInv /\ [Next]_vars =>
        [\A l \in Listener : heard'[l] # heard[l] /\ heard'[l] # 0 =>
           heard[l] \in {0, audioInput[1][1] - 1}]_vars
  BY Hearing
<1> QED
  BY <1>1, Invariance, PTL DEF Spec, HearsEverySample

(* The info a listener is given as the one before is the one it was told     *)
(* last.                                                                     *)
THEOREM ChangesAreAsTold == Spec => BeforeIsLastTold
<1>1. ASSUME IInv, [Next]_vars, pc = "notify", signalChange, todo' # todo
      PROVE  told[Head(todo)] \in {<<>>, <<oldInfo>>}
  BY <1>1, OnlyNotify, CallsAreTold DEF IInv
<1>2. IInv /\ [Next]_vars =>
        [(pc = "notify" /\ signalChange /\ todo' # todo) =>
            told[Head(todo)] \in {<<>>, <<oldInfo>>}]_vars
  BY <1>1
<1> QED
  BY <1>2, Invariance, PTL DEF Spec, BeforeIsLastTold

-----------------------------------------------------------------------------
(***************************************************************************)
(* The circular buffer that the history of a channel is.                   *)
(***************************************************************************)
(* The samples that a stream's memory holds.                                 *)
Memories == UNION {[0 .. cap - 1 -> Nat] : cap \in Nat}

Streams == {s \in [memory : Memories, size : Nat, cursor : Nat] :
               /\ 0 .. s.size - 1 \subseteq DOMAIN s.memory
               /\ s.cursor < s.size \/ s.cursor = 0}

(* An index goes round at most once.                                         *)
LEMMA Wraps ==
    ASSUME NEW n \in Nat \ {0}, NEW x \in Nat, x < n + n
    PROVE  x % n = IF x < n THEN x ELSE x - n
<1>1. CASE x < n
  BY <1>1
<1>2. CASE ~(x < n)
  <2>1. n <= x
    BY <1>2
  <2> QED
    BY <1>2, <2>1
<1> QED
  BY <1>1, <1>2

(* What a stream is made of.                                                 *)
LEMMA OfStream ==
    ASSUME NEW s \in Streams
    PROVE  /\ s.size \in Nat /\ s.cursor \in Nat /\ (s.cursor < s.size \/ s.cursor = 0)
           /\ s.size > 0 => s.cursor < s.size
           /\ \E cap \in Nat : s.memory \in [0 .. cap - 1 -> Nat]
           /\ \A k \in Nat : k < s.size => k \in DOMAIN s.memory /\ s.memory[k] \in Nat
           /\ s = [memory |-> s.memory, size |-> s.size, cursor |-> s.cursor]
<1>1. /\ s \in [memory : Memories, size : Nat, cursor : Nat]
      /\ 0 .. s.size - 1 \subseteq DOMAIN s.memory
      /\ s.cursor < s.size \/ s.cursor = 0
  BY DEF Streams
<1>2. PICK cap \in Nat : s.memory \in [0 .. cap - 1 -> Nat]
  BY <1>1 DEF Memories
<1>3. \A k \in Nat : k < s.size => k \in 0 .. s.size - 1
  BY <1>1
<1>4. \A k \in Nat : k < s.size => k \in DOMAIN s.memory /\ s.memory[k] \in Nat
  BY <1>1, <1>2, <1>3
<1> QED
  BY <1>1, <1>2, <1>4

(* A stream is made of these.                                                *)
LEMMA ToStream ==
    ASSUME NEW cap \in Nat, NEW m \in [0 .. cap - 1 -> Nat], NEW n \in 0 .. cap, NEW c \in Nat,
           c < n \/ c = 0
    PROVE  [memory |-> m, size |-> n, cursor |-> c] \in Streams
<1> DEFINE s == [memory |-> m, size |-> n, cursor |-> c]
<1>1. m \in Memories /\ DOMAIN m = 0 .. cap - 1 /\ n \in Nat
  BY DEF Memories
<1>2. 0 .. n - 1 \subseteq 0 .. cap - 1
  OBVIOUS
<1>3. s \in [memory : Memories, size : Nat, cursor : Nat]
  BY <1>1
<1>4. s.size = n /\ s.cursor = c /\ s.memory = m
  OBVIOUS
<1> HIDE DEF s
<1>5. s \in Streams
  BY <1>1, <1>2, <1>3, <1>4 DEF Streams
<1> QED
  BY <1>5 DEF s

(* The i-th oldest sample.                                                   *)
LEMMA InWindow ==
    ASSUME NEW s \in Streams, NEW i \in 1 .. s.size
    PROVE  Window(s)[i] = s.memory[IF s.cursor + i <= s.size THEN s.cursor + i - 1
                                                             ELSE s.cursor + i - 1 - s.size]
<1>1. s.size \in Nat \ {0} /\ s.cursor \in Nat /\ s.cursor < s.size
  BY OfStream
<1>2. Window(s)[i] = s.memory[(s.cursor + i - 1) % s.size]
  BY DEF Window
<1>3. s.cursor + i - 1 \in Nat /\ s.cursor + i - 1 < s.size + s.size
  BY <1>1
<1>4. CASE s.cursor + i <= s.size
  <2>1. s.cursor + i - 1 < s.size
    BY <1>1, <1>4
  <2>2. (s.cursor + i - 1) % s.size = s.cursor + i - 1
    BY <1>1, <1>3, <2>1, Wraps
  <2> QED
    BY <1>2, <1>4, <2>2
<1>5. CASE ~(s.cursor + i <= s.size)
  <2>1. ~(s.cursor + i - 1 < s.size)
    BY <1>1, <1>5
  <2>2. (s.cursor + i - 1) % s.size = s.cursor + i - 1 - s.size
    BY <1>1, <1>3, <2>1, Wraps
  <2> QED
    BY <1>2, <1>5, <2>2
<1> QED
  BY <1>4, <1>5

(* A block has been written: the oldest samples made place for it.           *)
Slid(t, s, block) ==
    /\ t \in Streams /\ t.size = s.size
    /\ \A i \in 1 .. s.size :
          Window(t)[i] = IF i + Len(block) <= s.size THEN Window(s)[i + Len(block)]
                                                     ELSE block[i + Len(block) - s.size]

(* A block slides the window on, whatever its length and wherever the cursor *)
(* is: of a block larger than the stream the last samples remain.            *)
THEOREM WritingSlides ==
    ASSUME NEW s \in Streams, NEW block \in Seq(Nat)
    PROVE  Slid(CopyIntoHead(s, block), s, block)
<1> DEFINE z == s.size
           c == s.cursor
           m == s.memory
           k == Len(block)
           n == Least(k, z)
           part == Least(z - c, n)
           a == Moved(m, c, block, k - n + 1, part)
           b == Moved(a, 0, block, k - n + part + 1, n - part)
           t == CopyIntoHead(s, block)
<1>1. z \in Nat /\ c \in Nat /\ k \in Nat /\ (z > 0 => c < z)
  BY OfStream
<1>2. PICK cap \in Nat : m \in [0 .. cap - 1 -> Nat]
  BY OfStream
<1>3. \A i \in Nat : i < z => i \in DOMAIN m /\ m[i] \in Nat
  BY OfStream
<1>4. \A i \in 1 .. k : block[i] \in Nat
  OBVIOUS
<1> HIDE DEF z, c, m, k
<1>5. CASE z = 0
  <2>1. t = s
    BY <1>5 DEF CopyIntoHead, z
  <2> QED
    BY <1>5, <2>1 DEF Slid, z
<1>6. CASE z # 0
  <2>1. t = [memory |-> b, size |-> z, cursor |-> (c + n) % z]
    <3>1. t = [s EXCEPT !.memory = b, !.cursor = (c + n) % z]
      BY <1>6 DEF CopyIntoHead, z, c, m, k
    <3>2. s = [memory |-> m, size |-> z, cursor |-> c]
      BY OfStream DEF z, c, m
    <3> HIDE DEF t, b, n
    <3> QED
      BY <3>1, <3>2
  <2>2. /\ n \in Nat /\ part \in Nat /\ n <= k /\ n <= z /\ part <= n /\ part <= z - c
        /\ n = k \/ n = z
        /\ part = n \/ part = z - c
    BY <1>1, <1>6 DEF Least
  <2>3. DOMAIN a = DOMAIN m /\ DOMAIN b = DOMAIN m
    BY DEF Moved
  <2>4. \A i \in DOMAIN m :
          a[i] = IF c <= i /\ i < c + part THEN block[k - n + 1 + i - c] ELSE m[i]
    BY DEF Moved
  <2>5. \A i \in DOMAIN m :
          b[i] = IF 0 <= i /\ i < 0 + (n - part) THEN block[k - n + part + 1 + i - 0] ELSE a[i]
    BY <2>3 DEF Moved
  <2>6. b = [i \in DOMAIN m |-> b[i]]
    BY <2>3 DEF Moved
  <2> HIDE DEF a, b, t, n, part
  <2>7. \A i \in DOMAIN m : i \in Nat /\ m[i] \in Nat
    BY <1>2
  <2>8. \A i \in Nat : i < z =>
          b[i] = IF i < n - part THEN block[k - n + part + 1 + i]
                 ELSE IF c <= i /\ i < c + part THEN block[k - n + 1 + i - c] ELSE m[i]
    BY SMTT(30), <1>1, <1>3, <2>2, <2>4, <2>5
  <2>9. b \in [0 .. cap - 1 -> Nat]
    <3>1. ASSUME NEW i \in DOMAIN m PROVE b[i] \in Nat
      <4>1. i \in Nat
        BY <2>7
      <4>2. CASE i < n - part
        <5>1. k - n + part + 1 + i \in 1 .. k
          BY <1>1, <2>2, <4>1, <4>2
        <5>2. 0 <= i /\ i < 0 + (n - part) /\ k - n + part + 1 + i - 0 = k - n + part + 1 + i
          BY <1>1, <2>2, <4>1, <4>2
        <5>3. b[i] = block[k - n + part + 1 + i]
          BY <2>5, <5>2
        <5> QED
          BY <1>4, <5>1, <5>3
      <4>3. CASE ~(i < n - part) /\ c <= i /\ i < c + part
        <5>1. k - n + 1 + i - c \in 1 .. k /\ b[i] = block[k - n + 1 + i - c]
          BY <1>1, <2>2, <2>4, <2>5, <4>1, <4>3
        <5> QED
          BY <1>4, <5>1
      <4>4. CASE ~(i < n - part) /\ ~(c <= i /\ i < c + part)
        BY <1>1, <2>2, <2>4, <2>5, <2>7, <4>1, <4>4
      <4> QED
        BY <4>2, <4>3, <4>4
    <3> QED
      BY <1>2, <2>6, <3>1
  <2> DEFINE d == IF c + n < z THEN c + n ELSE c + n - z
  <2>10. (c + n) % z = d /\ d \in Nat /\ d < z
    <3> DEFINE x == c + n
    <3>1. x \in Nat /\ x < z + z /\ z \in Nat \ {0} /\ d = IF x < z THEN x ELSE x - z
      BY <1>1, <1>6, <2>2
    <3> HIDE DEF x, d
    <3>2. x % z = d
      BY <3>1, Wraps
    <3> QED
      BY <1>1, <1>6, <3>1, <3>2 DEF x
  <2>11. t \in Streams
    <3>1. z \in 0 .. cap
      <4>1. z - 1 \in DOMAIN m
        BY <1>1, <1>3, <1>6
      <4> QED
        BY <1>1, <1>2, <4>1
    <3> QED
      BY <2>1, <2>9, <2>10, <3>1, ToStream
  <2>12. t.size = z /\ t.cursor = d /\ t.memory = b
    BY <2>1, <2>10
  <2> HIDE DEF d
  <2>13. ASSUME NEW i \in 1 .. z
         PROVE  Window(t)[i] = IF i + k <= z THEN Window(s)[i + k] ELSE block[i + k - z]
    <3> DEFINE j == IF d + i <= z THEN d + i - 1 ELSE d + i - 1 - z
    <3>1. Window(t)[i] = b[j]
      BY <2>11, <2>12, InWindow
    <3>2. j \in Nat /\ j < z
      BY <1>1, <2>10
    <3>3. CASE i + k <= z
      <4>1. n = k /\ k < z
        BY <1>1, <2>2, <3>3
      <4>2. i + k \in 1 .. z
        BY <1>1, <3>3
      <4> DEFINE h == IF c + (i + k) <= z THEN c + (i + k) - 1 ELSE c + (i + k) - 1 - z
      <4>3. Window(s)[i + k] = m[h]
        BY <4>2, InWindow DEF z, c, m
      <4>4. j = h
        BY <1>1, <2>2, <3>3, <4>1 DEF d
      <4>5. ~(j < n - part) /\ ~(c <= j /\ j < c + part)
        BY <1>1, <2>2, <3>3, <4>1 DEF d
      <4> HIDE DEF j, h
      <4>6. b[j] = m[j]
        BY <2>8, <3>2, <4>5
      <4> QED
        BY <3>1, <3>3, <4>3, <4>4, <4>6
    <3>4. CASE ~(i + k <= z)
      <4>1. CASE j < n - part
        <5>1. k - n + part + 1 + j = i + k - z
          BY <1>1, <2>2, <3>4, <4>1 DEF d
        <5> HIDE DEF j
        <5>2. b[j] = block[k - n + part + 1 + j]
          BY <2>8, <3>2, <4>1
        <5> QED
          BY <3>1, <3>4, <5>1, <5>2
      <4>2. CASE ~(j < n - part)
        <5>1. c <= j /\ j < c + part /\ k - n + 1 + j - c = i + k - z
          BY <1>1, <2>2, <3>4, <4>2 DEF d
        <5> HIDE DEF j
        <5>2. b[j] = block[k - n + 1 + j - c]
          BY <2>8, <3>2, <4>2, <5>1
        <5> QED
          BY <3>1, <3>4, <5>1, <5>2
      <4> QED
        BY <4>1, <4>2
    <3> QED
      BY <3>3, <3>4
  <2> QED
    BY <2>11, <2>12, <2>13 DEF Slid, z, k, t
<1> QED
  BY <1>5, <1>6

(* The same samples, in a memory that may be another.                        *)
Same(t, s) ==
    /\ t \in Streams /\ t.size = s.size /\ t.cursor = s.cursor
    /\ \A k \in Nat : k < s.size => t.memory[k] = s.memory[k]

(* Such a stream reads the same.                                             *)
LEMMA SameWindow ==
    ASSUME NEW s \in Streams, NEW t, Same(t, s), NEW i \in 1 .. s.size
    PROVE  Window(t)[i] = Window(s)[i]
<1> DEFINE j == IF s.cursor + i <= s.size THEN s.cursor + i - 1 ELSE s.cursor + i - 1 - s.size
<1>1. s.size \in Nat \ {0} /\ s.cursor \in Nat /\ s.cursor < s.size
  BY OfStream
<1>2. j \in Nat /\ j < s.size
  BY <1>1
<1>3. t \in Streams /\ t.size = s.size /\ t.cursor = s.cursor
      /\ \A k \in Nat : k < s.size => t.memory[k] = s.memory[k]
  BY DEF Same
<1>4. Window(s)[i] = s.memory[j]
  BY InWindow
<1>5. Window(t)[i] = t.memory[j]
  BY <1>3, InWindow
<1> HIDE DEF j
<1> QED
  BY <1>2, <1>3, <1>4, <1>5

(* More memory, or less that is not in use.                                  *)
LEMMA Reallocated ==
    ASSUME NEW s \in Streams, NEW cap \in Nat, s.size <= cap, Garbage \in Nat
    PROVE  Same(Reallocate(s, cap), s) /\ Reallocate(s, cap).memory \in [0 .. cap - 1 -> Nat]
<1> DEFINE m == [i \in 0 .. cap - 1 |-> IF i \in DOMAIN s.memory THEN s.memory[i] ELSE Garbage]
           t == Reallocate(s, cap)
<1>1. /\ s.size \in Nat /\ s.cursor \in Nat /\ (s.cursor < s.size \/ s.cursor = 0)
      /\ \A k \in Nat : k < s.size => k \in DOMAIN s.memory /\ s.memory[k] \in Nat
  BY OfStream
<1>2. \A i \in DOMAIN s.memory : s.memory[i] \in Nat
  BY OfStream
<1>3. m \in [0 .. cap - 1 -> Nat]
  BY <1>2
<1>4. t = [memory |-> m, size |-> s.size, cursor |-> s.cursor]
  <2>1. t = [s EXCEPT !.memory = m]
    BY DEF Reallocate
  <2>2. s = [memory |-> s.memory, size |-> s.size, cursor |-> s.cursor]
    BY OfStream
  <2> HIDE DEF m, t
  <2> QED
    BY <2>1, <2>2
<1>5. \A k \in Nat : k < s.size => m[k] = s.memory[k]
  <2>1. \A k \in Nat : k < s.size => k \in 0 .. cap - 1
    BY <1>1
  <2> QED
    BY <1>1, <2>1
<1> HIDE DEF m, t
<1>6. t \in Streams
  <2>1. s.size \in 0 .. cap
    BY <1>1
  <2> QED
    BY <1>1, <1>3, <1>4, <2>1, ToStream
<1>7. t.memory = m /\ t.size = s.size /\ t.cursor = s.cursor
  BY <1>4
<1> QED
  BY <1>3, <1>5, <1>6, <1>7 DEF Same, t

(* The size has changed: the newest samples are kept, after fillers if there *)
(* are not as many.                                                          *)
Resized(t, s, n) ==
    /\ t \in Streams /\ t.size = n
    /\ s.size <= n => t.cursor = s.cursor
    /\ \A i \in 1 .. n : Window(t)[i] = IF i + s.size > n THEN Window(s)[i + s.size - n] ELSE Filler

(* The samples from the cursor on move back, fillers go in between.          *)
LEMMA GrowingKeeps ==
    ASSUME NEW s \in Streams, NEW cap \in Nat, s.memory \in [0 .. cap - 1 -> Nat],
           NEW n \in 0 .. cap, s.size < n
    PROVE  /\ Resized(ConfigureNewSize(s, n, TRUE, Filler), s, n)
           /\ ConfigureNewSize(s, n, TRUE, Filler).memory \in [0 .. cap - 1 -> Nat]
<1> DEFINE z == s.size
           c == s.cursor
           m == s.memory
           t == ConfigureNewSize(s, n, TRUE, Filler)
<1>1. /\ z \in Nat /\ c \in Nat /\ (c < z \/ c = 0) /\ n \in Nat /\ z < n /\ n <= cap
      /\ (z > 0 => c < z)
  BY OfStream
<1>2. /\ DOMAIN m = 0 .. cap - 1 /\ m \in [0 .. cap - 1 -> Nat]
      /\ \A i \in Nat : i < n => i \in 0 .. cap - 1
  BY <1>1
<1>3. Filler \in Nat
  BY DEF Filler
<1> DEFINE b == NewMemory(s, n, TRUE, Filler)
<1> HIDE DEF z, c, m, b
<1>4. t = [memory |-> b, size |-> n, cursor |-> c]
  <2>1. NewCursor(s, n, TRUE) = c % n
    BY <1>1 DEF NewCursor, z, c
  <2>2. c % n = c
    <3>1. c < n /\ c < n + n /\ n \in Nat \ {0}
      BY <1>1
    <3> QED
      BY <1>1, <3>1, Wraps
  <2> QED
    BY <2>1, <2>2 DEF ConfigureNewSize, b
<1>5. /\ b \in [0 .. cap - 1 -> Nat]
      /\ \A i \in Nat : i < n =>
            b[i] = IF c <= i /\ i < c + (n - z) THEN Filler
                   ELSE IF i < c THEN m[i] ELSE m[i - (n - z)]
  <2>1. CASE z = 0
    <3>1. b = [i \in 0 .. cap - 1 |-> Filler]
      BY <1>1, <1>2, <2>1 DEF b, NewMemory, z, m
    <3>2. \A i \in Nat : i < n => c <= i /\ i < c + (n - z)
      BY <1>1, <2>1
    <3> QED
      BY <1>2, <1>3, <3>1, <3>2
  <2>2. CASE z > 0
    <3> DEFINE a == Moved(m, c + (n - z), m, c, z - c)
    <3>1. b = Filled(a, c, n - z, Filler)
      BY <1>1, <2>2 DEF b, NewMemory, Grown, z, c, m
    <3>2. DOMAIN a = 0 .. cap - 1
      BY <1>2 DEF Moved
    <3>3. \A i \in 0 .. cap - 1 :
            a[i] = IF c + (n - z) <= i /\ i < c + (n - z) + (z - c)
                   THEN m[c + i - (c + (n - z))] ELSE m[i]
      BY <1>2 DEF Moved
    <3> HIDE DEF a
    <3>4. /\ b = [i \in 0 .. cap - 1 |-> b[i]]
          /\ \A i \in 0 .. cap - 1 :
                b[i] = IF c <= i /\ i < c + (n - z) THEN Filler ELSE a[i]
      BY <3>1, <3>2 DEF Filled
    <3>5. \A i \in 0 .. cap - 1 : c + (n - z) <= i /\ i < c + (n - z) + (z - c) =>
            /\ c + i - (c + (n - z)) = i - (n - z)
            /\ c + i - (c + (n - z)) \in 0 .. cap - 1
      BY <1>1
    <3>6. \A i \in 0 .. cap - 1 : a[i] \in Nat
      BY <1>2, <3>3, <3>5
    <3>7. \A i \in 0 .. cap - 1 : b[i] \in Nat
      BY <1>3, <3>4, <3>6
    <3>8. ASSUME NEW i \in Nat, i < n
          PROVE  b[i] = IF c <= i /\ i < c + (n - z) THEN Filler
                        ELSE IF i < c THEN m[i] ELSE m[i - (n - z)]
      <4>1. i \in 0 .. cap - 1
        BY <1>2, <3>8
      <4>2. CASE c <= i /\ i < c + (n - z)
        BY <3>4, <4>1, <4>2
      <4>3. CASE i < c
        <5>1. ~(c + (n - z) <= i) /\ ~(c <= i)
          BY <1>1, <4>3
        <5> QED
          BY <3>3, <3>4, <4>1, <4>3, <5>1
      <4>4. CASE c + (n - z) <= i
        <5>1. i < c + (n - z) + (z - c) /\ ~(i < c) /\ ~(i < c + (n - z))
          BY <1>1, <3>8, <4>4
        <5> QED
          BY <3>3, <3>4, <3>5, <4>1, <4>4, <5>1
      <4> QED
        BY <1>1, <4>2, <4>3, <4>4
    <3> QED
      BY <3>4, <3>7, <3>8
  <2> QED
    BY <1>1, <2>1, <2>2
<1> HIDE DEF t
<1>6. t \in Streams /\ t.size = n /\ t.cursor = c /\ t.memory = b
  <2>1. c < n \/ c = 0
    BY <1>1
  <2> QED
    BY <1>1, <1>4, <1>5, <2>1, ToStream
<1>7. ASSUME NEW i \in 1 .. n
      PROVE  Window(t)[i] = IF i + z > n THEN Window(s)[i + z - n] ELSE Filler
  <2> DEFINE j == IF c + i <= n THEN c + i - 1 ELSE c + i - 1 - n
  <2>1. Window(t)[i] = b[j]
    BY <1>6, InWindow
  <2>2. j \in Nat /\ j < n
    BY <1>1
  <2>3. CASE i + z > n
    <3>1. i + z - n \in 1 .. z
      BY <1>1, <2>3
    <3> DEFINE h == IF c + (i + z - n) <= z THEN c + (i + z - n) - 1
                                            ELSE c + (i + z - n) - 1 - z
    <3>2. Window(s)[i + z - n] = m[h]
      BY <3>1, InWindow DEF z, c, m
    <3>3. /\ ~(c <= j /\ j < c + (n - z))
          /\ h = IF j < c THEN j ELSE j - (n - z)
      BY <1>1, <2>3
    <3> HIDE DEF j, h
    <3> QED
      BY <1>5, <2>1, <2>2, <2>3, <3>2, <3>3
  <2>4. CASE ~(i + z > n)
    <3>1. c <= j /\ j < c + (n - z)
      BY <1>1, <2>4
    <3> HIDE DEF j
    <3> QED
      BY <1>5, <2>1, <2>2, <2>4, <3>1
  <2> QED
    BY <2>3, <2>4
<1> QED
  BY <1>5, <1>6, <1>7 DEF Resized, t, z, c

(* The newest samples move to where they are read from: the front when the   *)
(* cursor is behind the new end, the cursor otherwise.                       *)
LEMMA ShrinkingKeeps ==
    ASSUME NEW s \in Streams, NEW cap \in Nat, s.memory \in [0 .. cap - 1 -> Nat],
           NEW n \in Nat, n < s.size
    PROVE  /\ Resized(ConfigureNewSize(s, n, TRUE, Filler), s, n)
           /\ ConfigureNewSize(s, n, TRUE, Filler).memory \in [0 .. cap - 1 -> Nat]
<1> DEFINE z == s.size
           c == s.cursor
           m == s.memory
           t == ConfigureNewSize(s, n, TRUE, Filler)
           b == Shrunk(s, n)
           d == IF c > n \/ n = 0 \/ c = n THEN 0 ELSE c
<1>1. z \in Nat /\ c \in Nat /\ c < z /\ n < z /\ z <= cap
  <2>1. z \in Nat /\ c \in Nat /\ c < z
    BY OfStream
  <2>2. z - 1 \in DOMAIN m
    BY <2>1, OfStream
  <2> QED
    BY <2>1, <2>2
<1>2. /\ DOMAIN m = 0 .. cap - 1 /\ m \in [0 .. cap - 1 -> Nat]
      /\ \A i \in Nat : i < z => i \in 0 .. cap - 1
  BY <1>1
<1> HIDE DEF z, c, m, b, d
<1>3. t = [memory |-> b, size |-> n, cursor |-> d]
  <2>1. NewMemory(s, n, TRUE, Filler) = b
    BY <1>1 DEF NewMemory, b, z
  <2>2. NewCursor(s, n, TRUE) = d
    <3>1. NewCursor(s, n, TRUE) = IF n = 0 \/ c > n THEN 0 ELSE c % n
      BY <1>1 DEF NewCursor, z, c
    <3>2. ASSUME n # 0, c < n PROVE c % n = c
      <4>1. c < n + n /\ n \in Nat \ {0}
        BY <1>1, <3>2
      <4> QED
        BY <1>1, <3>2, <4>1, Wraps
    <3>3. ASSUME n # 0, c = n PROVE c % n = 0
      <4>1. c < n + n /\ n \in Nat \ {0} /\ ~(c < n) /\ c - n = 0
        BY <1>1, <3>3
      <4> QED
        BY <1>1, <4>1, Wraps
    <3>4. CASE n = 0 \/ c > n
      BY <3>1, <3>4 DEF d
    <3>5. CASE n # 0 /\ c = n
      <4>1. ~(n = 0 \/ c > n)
        BY <1>1, <3>5
      <4> QED
        BY <3>1, <3>3, <3>5, <4>1 DEF d
    <3>6. CASE n # 0 /\ c < n
      <4>1. ~(n = 0 \/ c > n) /\ c # n
        BY <1>1, <3>6
      <4> QED
        BY <3>1, <3>2, <3>6, <4>1 DEF d
    <3>7. (n = 0 \/ c > n) \/ (n # 0 /\ c = n) \/ (n # 0 /\ c < n)
      BY <1>1
    <3> QED
      BY <3>4, <3>5, <3>6, <3>7, Zenon
  <2> QED
    BY <2>1, <2>2 DEF ConfigureNewSize
<1>4. ASSUME c > n
      PROVE  /\ b = [i \in 0 .. cap - 1 |-> b[i]]
             /\ \A i \in 0 .. cap - 1 :
                   b[i] = IF i < z THEN m[IF i + (c - n) < z THEN i + (c - n) ELSE (i + (c - n)) - z]
                                   ELSE m[i]
  <2> DEFINE middle == (z - (n - c)) % z
  <2>1. middle = c - n
    <3> DEFINE x == z - (n - c)
    <3>1. x \in Nat /\ x < z + z /\ ~(x < z) /\ z \in Nat \ {0} /\ x - z = c - n
      BY <1>1, <1>4
    <3> HIDE DEF x
    <3>2. x % z = x - z
      BY <3>1, Wraps
    <3> QED
      BY <3>1, <3>2 DEF x
  <2>2. b = Rotated(m, middle, z)
    BY <1>4 DEF b, Shrunk, z, c, m
  <2> HIDE DEF middle
  <2>3. b = [i \in 0 .. cap - 1 |-> IF i < z THEN m[(i + (c - n)) % z] ELSE m[i]]
    BY <1>2, <2>1, <2>2 DEF Rotated
  <2>4. ASSUME NEW i \in 0 .. cap - 1, i < z
        PROVE  b[i] = m[IF i + (c - n) < z THEN i + (c - n) ELSE (i + (c - n)) - z]
    <3> DEFINE x == i + (c - n)
    <3>1. x \in Nat /\ x < z + z /\ z \in Nat \ {0}
      BY <1>1, <1>4, <2>4
    <3>2. b[i] = m[x % z]
      BY <2>3, <2>4
    <3> HIDE DEF x
    <3>3. x % z = IF x < z THEN x ELSE x - z
      BY <3>1, Wraps
    <3>4. b[i] = m[IF x < z THEN x ELSE x - z]
      BY <3>2, <3>3
    <3> QED
      BY <3>4 DEF x
  <2>5. ASSUME NEW i \in 0 .. cap - 1, ~(i < z) PROVE b[i] = m[i]
    BY <2>3, <2>5
  <2> QED
    BY <2>3, <2>4, <2>5
<1>5. ASSUME ~(c > n)
      PROVE  /\ b = [i \in 0 .. cap - 1 |-> b[i]]
             /\ \A i \in 0 .. cap - 1 : b[i] = IF c <= i /\ i < n THEN m[i + (z - n)] ELSE m[i]
  <2>1. b = Moved(m, c, m, c + (z - n), n - c)
    BY <1>5 DEF b, Shrunk, z, c, m
  <2>2. b = [i \in 0 .. cap - 1 |-> IF c <= i /\ i < c + (n - c) THEN m[c + (z - n) + i - c] ELSE m[i]]
    BY <1>2, <2>1 DEF Moved
  <2>3. \A i \in 0 .. cap - 1 : /\ (i < c + (n - c) <=> i < n)
                                /\ c + (z - n) + i - c = i + (z - n)
    BY <1>1
  <2> QED
    BY <2>2, <2>3
<1>6. b \in [0 .. cap - 1 -> Nat]
  <2>1. CASE c > n
    <3>1. ASSUME NEW i \in 0 .. cap - 1 PROVE b[i] \in Nat
      <4>1. i < z => (IF i + (c - n) < z THEN i + (c - n) ELSE (i + (c - n)) - z) \in 0 .. cap - 1
        BY <1>1, <2>1
      <4> QED
        BY <1>2, <1>4, <2>1, <4>1
    <3> QED
      BY <1>4, <2>1, <3>1
  <2>2. CASE ~(c > n)
    <3>1. ASSUME NEW i \in 0 .. cap - 1 PROVE b[i] \in Nat
      <4>1. i < n => i + (z - n) \in 0 .. cap - 1
        BY <1>1
      <4> QED
        BY <1>2, <1>5, <2>2, <4>1
    <3> QED
      BY <1>5, <2>2, <3>1
  <2> QED
    BY <2>1, <2>2
<1> HIDE DEF t
<1>7. t \in Streams /\ t.size = n /\ t.cursor = d /\ t.memory = b
  <2>1. (d < n \/ d = 0) /\ d \in Nat /\ n \in 0 .. cap
    BY <1>1 DEF d
  <2> QED
    BY <1>1, <1>3, <1>6, <2>1, ToStream
<1>8. ASSUME NEW i \in 1 .. n PROVE Window(t)[i] = Window(s)[i + z - n]
  <2> DEFINE j == IF d + i <= n THEN d + i - 1 ELSE d + i - 1 - n
             h == IF c + (i + z - n) <= z THEN c + (i + z - n) - 1
                                          ELSE c + (i + z - n) - 1 - z
  <2>1. Window(t)[i] = b[j]
    BY <1>7, InWindow
  <2>2. j \in Nat /\ j < n
    BY <1>1 DEF d
  <2>3. i + z - n \in 1 .. z
    BY <1>1
  <2>4. Window(s)[i + z - n] = m[h]
    BY <2>3, InWindow DEF z, c, m
  <2>5. j \in 0 .. cap - 1 /\ j < z
    BY <1>1, <2>2
  <2>6. CASE c > n
    <3>1. h = IF j + (c - n) < z THEN j + (c - n) ELSE (j + (c - n)) - z
      BY <1>1, <2>6 DEF d
    <3> HIDE DEF j, h
    <3> QED
      BY <1>4, <2>1, <2>4, <2>5, <2>6, <3>1
  <2>7. CASE ~(c > n)
    <3>1. h = IF c <= j /\ j < n THEN j + (z - n) ELSE j
      BY <1>1, <2>7 DEF d
    <3> HIDE DEF j, h
    <3> QED
      BY <1>5, <2>1, <2>4, <2>5, <2>7, <3>1
  <2> QED
    BY <2>6, <2>7
<1>9. /\ \A i \in 1 .. n : i + z > n
      /\ ~(z <= n)
  BY <1>1
<1> QED
  BY <1>6, <1>7, <1>8, <1>9 DEF Resized, t, z

(* A change of size and capacity keeps the newest samples, in order and      *)
(* after fillers for those there never were, wherever the cursor is and      *)
(* whether the memory is moved before or after.                              *)
THEOREM ResizingKeepsTheNewest ==
    ASSUME NEW s \in Streams, NEW cap \in Nat, NEW n \in 0 .. cap, Garbage \in Nat
    PROVE  Resized(SetStorageRequirements(s, n, cap, TRUE, Filler), s, n)
<1> DEFINE t == SetStorageRequirements(s, n, cap, TRUE, Filler)
           r == Reallocate(s, cap)
           k == ConfigureNewSize(s, n, TRUE, Filler)
<1>1. s.size \in Nat /\ n \in Nat /\ n <= cap
  BY OfStream
<1>2. PICK old \in Nat : s.memory \in [0 .. old - 1 -> Nat]
  BY OfStream
<1>3. CASE cap < s.size
  <2>1. n < s.size
    BY <1>1, <1>3
  <2>2. Resized(k, s, n)
    BY <1>1, <1>2, <2>1, ShrinkingKeeps
  <2>3. t = Reallocate(k, cap)
    <3>1. n # s.size
      BY <1>1, <2>1
    <3> QED
      BY <1>3, <3>1, Zenon DEF SetStorageRequirements
  <2>4. k \in Streams /\ k.size = n
    BY <2>2 DEF Resized
  <2> HIDE DEF k, t
  <2>5. Same(t, k)
    BY <1>1, <2>3, <2>4, Reallocated
  <2>6. ASSUME NEW i \in 1 .. n PROVE Window(t)[i] = Window(k)[i]
    BY <2>4, <2>5, SameWindow
  <2>7. t \in Streams /\ t.size = n /\ ~(s.size <= n)
    BY <1>1, <2>1, <2>4, <2>5 DEF Same
  <2> QED
    BY <2>2, <2>6, <2>7 DEF Resized, t
<1>4. CASE ~(cap < s.size)
  <2>1. s.size <= cap
    BY <1>1, <1>4
  <2>2. Same(r, s) /\ r.memory \in [0 .. cap - 1 -> Nat]
    BY <2>1, Reallocated
  <2>3. r \in Streams /\ r.size = s.size /\ r.cursor = s.cursor
    BY <2>2 DEF Same
  <2>4. \A i \in 1 .. s.size : Window(r)[i] = Window(s)[i]
    BY <2>2, SameWindow
  <2>5. CASE n = s.size
    <3>1. t = r
      BY <1>4, <2>5 DEF SetStorageRequirements
    <3>2. \A i \in 1 .. n : i + s.size > n /\ i + s.size - n = i
      BY <1>1, <2>5
    <3> HIDE DEF t, r
    <3> QED
      BY <2>3, <2>4, <2>5, <3>1, <3>2 DEF Resized, t
  <2>6. CASE n # s.size
    <3>1. t = ConfigureNewSize(r, n, TRUE, Filler)
      BY <1>4, <2>6 DEF SetStorageRequirements
    <3> HIDE DEF t, r
    <3>2. Resized(t, r, n)
      <4>1. CASE r.size < n
        BY <2>2, <2>3, <3>1, <4>1, GrowingKeeps
      <4>2. CASE n < r.size
        BY <1>1, <2>2, <2>3, <3>1, <4>2, ShrinkingKeeps
      <4> QED
        BY <1>1, <2>3, <2>6, <4>1, <4>2
    <3>3. \A i \in 1 .. n : i + s.size > n => i + s.size - n \in 1 .. s.size
      BY <1>1
    <3>4. ASSUME NEW i \in 1 .. n
          PROVE  Window(t)[i] = IF i + s.size > n THEN Window(s)[i + s.size - n] ELSE Filler
      <4>1. Window(t)[i] = IF i + s.size > n THEN Window(r)[i + s.size - n] ELSE Filler
        BY <2>3, <3>2 DEF Resized
      <4>2. i + s.size > n => Window(r)[i + s.size - n] = Window(s)[i + s.size - n]
        BY <2>4, <3>3
      <4> QED
        BY <4>1, <4>2
    <3>5. t \in Streams /\ t.size = n /\ (s.size <= n => t.cursor = s.cursor)
      BY <2>3, <3>2 DEF Resized
    <3> QED
      BY <3>4, <3>5 DEF Resized, t
  <2> QED
    BY <2>5, <2>6
<1> QED
  BY <1>3, <1>4

-----------------------------------------------------------------------------
(***************************************************************************)
(* The history, as long as the producer announces one number of channels,  *)
(* and the consumer asks for a history that never gets shorter.            *)
(***************************************************************************)
Steady ==
    /\ \A m, n \in ChannelCounts : m = n
    /\ \A consumer \in Consumers :
          consumer.store /\ 0 < consumer.size /\ consumer.size <= consumer.capacity
    /\ ~Shrinks

Counts == {0} \cup ChannelCounts

Alike(s) == \A c \in DOMAIN s : s[c] = s[1]

InPlaceAt(s, at) == \A i \in 1 .. s.size : Window(s)[i] \in {Filler, at - (s.size - i)}
Blank(s) == \A i \in 1 .. s.size : Window(s)[i] = Filler

(* What the batch adds to the clock before it is published.                  *)
Elapsed == IF pc = "publish" THEN contained ELSE 0

HistoryOK ==
    /\ deferredAudioInput \in Seq(Seq(Nat)) /\ numDeferred \in Nat
    /\ bufferClock \in Int /\ deferredClock \in Int
    /\ bufferInfo \in Info /\ deferredInfo \in Info
    /\ history \in Seq(Streams) /\ Len(history) \in Counts

(* Channels only come into being, and all at once.                           *)
Counted ==
    /\ {channels, info.channels, sent.channels, Len(deferredAudioInput)} \subseteq Counts
    /\ held # <<>> /\ held[1].type = "info" => held[1].channels \in Counts
    /\ channels = 0 => deferredAudioInput = <<>> /\ Len(history) = 0
    /\ Alike(audioInput) /\ Alike(deferredAudioInput) /\ Alike(history)

(* The history is there when the audio comes, and never has to shrink.       *)
Kept ==
    /\ info.store => info.size > 0
    /\ consumerInfoChange => inputInfo.store /\ inputInfo.size > 0
    /\ info.store => inputInfo.store
    /\ Len(history) > 0 => info.store
    /\ info.size <= info.capacity /\ inputInfo.size <= inputInfo.capacity
    /\ info.size <= inputInfo.size
    /\ \A c \in DOMAIN history : history[c].size <= info.size
    /\ pc \in {"commands", "resize"} /\ HistoryMissing(info) => signalChange
    /\ pc \in {"notify", "publish"} =>
          /\ Len(deferredAudioInput) = channels
          /\ info.store => Len(history) = channels

Played ==
    clock = IF pc \in {"open", "end", "lock", "commands", "resize", "notify"}
            THEN sent.samples - contained ELSE sent.samples

(* What is deferred went by last, with the time of the last batch before.    *)
Deferred ==
    /\ \A c \in DOMAIN deferredAudioInput : Len(deferredAudioInput[c]) = numDeferred
    /\ bufferInfo.store => deferredInfo.store
    /\ deferredInfo.store => info.store /\ channels > 0 /\ deferredClock = clock - Elapsed
    /\ numDeferred > 0 =>
          /\ deferredAudioInput # <<>> /\ deferredInfo.store
          /\ \A i \in 1 .. numDeferred :
                deferredAudioInput[1][i] = deferredClock - numDeferred + i

Published ==
    /\ bufferInfo.store =>
          info.store /\ channels > 0 /\ clock = bufferClock + numDeferred + Elapsed
    /\ \A c \in DOMAIN history :
          IF bufferInfo.store THEN InPlaceAt(history[c], bufferClock) ELSE Blank(history[c])

HInv == HistoryOK /\ Counted /\ Kept /\ Played /\ Deferred /\ Published

(* What the invariant is about.                                              *)
kept == <<pc, info, inputInfo, consumerInfoChange, signalChange, audioInput, sent, held, data,
          clock, bufferClock, deferredClock, bufferInfo, deferredInfo>>

(* Who listens does not matter.                                              *)
LEMMA UntouchedStays == ASSUME HInv, UNCHANGED kept PROVE HInv'
<1>1. HistoryOK'
  BY DEF kept, data, HInv, HistoryOK
<1>2. Counted'
  BY DEF kept, data, HInv, Counted, channels
<1>3. Kept'
  BY DEF kept, data, HInv, Kept, HistoryMissing, channels
<1>4. Played'
  BY DEF kept, HInv, Played, contained, channels
<1>5. Deferred'
  BY DEF kept, data, HInv, Deferred, Elapsed, contained, channels
<1>6. Published'
  BY DEF kept, data, HInv, Published, Elapsed, contained, channels
<1> QED
  BY <1>1, <1>2, <1>3, <1>4, <1>5, <1>6 DEF HInv

(* A block that follows what a stream ends with is in place.                 *)
LEMMA SlidInPlace ==
    ASSUME NEW s \in Streams, NEW at \in Int, InPlaceAt(s, at), NEW block \in Seq(Nat),
           \A i \in 1 .. Len(block) : block[i] = at + i, NEW t, Slid(t, s, block)
    PROVE  InPlaceAt(t, at + Len(block))
<1> DEFINE n == Len(block)
           z == s.size
<1>1. n \in Nat /\ z \in Nat /\ t.size = z
  BY OfStream DEF Slid
<1>2. SUFFICES ASSUME NEW i \in 1 .. z PROVE Window(t)[i] \in {Filler, (at + n) - (z - i)}
  BY <1>1 DEF InPlaceAt
<1>3. Window(t)[i] = IF i + n <= z THEN Window(s)[i + n] ELSE block[i + n - z]
  BY DEF Slid
<1>4. \A j \in 1 .. z : Window(s)[j] \in {Filler, at - (z - j)}
  BY DEF InPlaceAt
<1>5. \A j \in 1 .. n : block[j] = at + j
  OBVIOUS
<1> HIDE DEF n, z
<1>6. CASE i + n <= z
  <2>1. i + n \in 1 .. z /\ at - (z - (i + n)) = (at + n) - (z - i)
    BY <1>1, <1>6
  <2> QED
    BY <1>3, <1>4, <1>6, <2>1
<1>7. CASE ~(i + n <= z)
  <2>1. i + n - z \in 1 .. n /\ at + (i + n - z) = (at + n) - (z - i)
    BY <1>1, <1>7
  <2> QED
    BY <1>3, <1>5, <1>7, <2>1
<1> QED
  BY <1>6, <1>7

(* What a change of size keeps stays in place.                               *)
LEMMA ResizedInPlace ==
    ASSUME NEW s \in Streams, NEW n \in Nat, NEW t, Resized(t, s, n)
    PROVE  /\ \A at \in Int : InPlaceAt(s, at) => InPlaceAt(t, at)
           /\ Blank(s) => Blank(t)
<1> DEFINE z == s.size
<1>1. z \in Nat /\ t.size = n
  BY OfStream DEF Resized
<1>2. \A i \in 1 .. n : Window(t)[i] = IF i + z > n THEN Window(s)[i + z - n] ELSE Filler
  BY DEF Resized
<1>3. ASSUME NEW i \in 1 .. n, i + z > n PROVE i + z - n \in 1 .. z
  BY <1>1, <1>3
<1>4. ASSUME NEW at \in Int, InPlaceAt(s, at), NEW i \in 1 .. n
      PROVE  Window(t)[i] \in {Filler, at - (n - i)}
  <2>1. CASE i + z > n
    <3>1. Window(s)[i + z - n] \in {Filler, at - (z - (i + z - n))}
      BY <1>3, <1>4, <2>1 DEF InPlaceAt
    <3>2. at - (z - (i + z - n)) = at - (n - i)
      BY <1>1
    <3> QED
      BY <1>2, <2>1, <3>1, <3>2
  <2>2. CASE ~(i + z > n)
    BY <1>2, <2>2
  <2> QED
    BY <2>1, <2>2
<1>5. ASSUME Blank(s), NEW i \in 1 .. n PROVE Window(t)[i] = Filler
  BY <1>2, <1>3, <1>5 DEF Blank
<1> QED
  BY <1>1, <1>4, <1>5 DEF InPlaceAt, Blank

(* Deferred audio and a block are written one after the other.               *)
LEMMA MergedInPlace ==
    ASSUME NEW s \in Streams, NEW at \in Int, InPlaceAt(s, at), NEW k \in Nat,
           NEW deferred \in Seq(Nat),
           k > 0 => Len(deferred) = k /\ \A i \in 1 .. k : deferred[i] = at + i,
           NEW block \in Seq(Nat), \A i \in 1 .. Len(block) : block[i] = at + k + i,
           NEW t, t = CopyIntoHead(IF k > 0 THEN CopyIntoHead(s, deferred) ELSE s, block)
    PROVE  t \in Streams /\ t.size = s.size /\ InPlaceAt(t, at + k + Len(block))
<1> DEFINE u == IF k > 0 THEN CopyIntoHead(s, deferred) ELSE s
<1>1. u \in Streams /\ u.size = s.size /\ InPlaceAt(u, at + k)
  <2>1. CASE k > 0
    <3>1. Slid(u, s, deferred)
      BY <2>1, WritingSlides
    <3> HIDE DEF u
    <3>2. InPlaceAt(u, at + Len(deferred))
      BY <2>1, <3>1, SlidInPlace
    <3> QED
      BY <2>1, <3>1, <3>2 DEF Slid
  <2>2. CASE ~(k > 0)
    <3>1. u = s /\ at + k = at
      BY <2>2
    <3> QED
      BY <3>1
  <2> QED
    BY <2>1, <2>2
<1>2. Slid(t, u, block)
  <2>1. t = CopyIntoHead(u, block)
    OBVIOUS
  <2> HIDE DEF u
  <2> QED
    BY <1>1, <2>1, WritingSlides
<1> HIDE DEF u
<1>3. at + k \in Int
  OBVIOUS
<1>4. InPlaceAt(t, at + k + Len(block))
  BY <1>1, <1>2, <1>3, SlidInPlace
<1>5. t \in Streams /\ t.size = s.size
  BY <1>1, <1>2 DEF Slid
<1> QED
  BY <1>4, <1>5

(* What is blank has nothing out of place.                                   *)
LEMMA BlankInPlace == ASSUME NEW s, Blank(s), NEW at PROVE InPlaceAt(s, at)
BY DEF Blank, InPlaceAt

(* There is one number of channels, for those that have any.                 *)
LEMMA OneCount ==
    ASSUME OutputAssumption, Steady, IInv, HInv
    PROVE  /\ channels \in Nat /\ contained \in Nat
           /\ Len(history) \in {0, channels} /\ DOMAIN history = 1 .. Len(history)
           /\ Len(deferredAudioInput) \in {0, channels}
           /\ DOMAIN deferredAudioInput = 1 .. Len(deferredAudioInput)
           /\ DOMAIN audioInput = 1 .. channels
           /\ channels > 0 => contained = Len(audioInput[1])
           /\ \A c \in 1 .. channels : audioInput[c] \in Seq(Nat) /\ Len(audioInput[c]) = contained
<1>1. audioInput \in Seq(Seq(Nat)) /\ deferredAudioInput \in Seq(Seq(Nat)) /\ history \in Seq(Streams)
  BY DEF IInv, Listening, TypeOK, HInv, HistoryOK
<1>2. /\ channels \in Nat /\ DOMAIN audioInput = 1 .. channels
      /\ DOMAIN history = 1 .. Len(history) /\ Len(history) \in Nat
      /\ DOMAIN deferredAudioInput = 1 .. Len(deferredAudioInput)
      /\ Len(deferredAudioInput) \in Nat
  BY <1>1 DEF channels
<1>3. /\ channels \in Counts /\ Len(history) \in Counts /\ Len(deferredAudioInput) \in Counts
      /\ channels = 0 => Len(deferredAudioInput) = 0 /\ Len(history) = 0
  BY DEF HInv, Counted, HistoryOK
<1>4. \A m, n \in ChannelCounts : m = n
  BY DEF Steady
<1>5. Len(history) \in {0, channels} /\ Len(deferredAudioInput) \in {0, channels}
  BY <1>3, <1>4 DEF Counts
<1>6. \A c \in 1 .. channels : audioInput[c] \in Seq(Nat) /\ audioInput[c] = audioInput[1]
  <2>1. \A c \in 1 .. Len(audioInput) : audioInput[c] \in Seq(Nat)
    BY <1>1
  <2>2. \A c \in DOMAIN audioInput : audioInput[c] = audioInput[1]
    BY DEF HInv, Counted, Alike
  <2> QED
    BY <1>2, <2>1, <2>2 DEF channels
<1>7. contained \in Nat /\ (channels > 0 => contained = Len(audioInput[1]))
  BY <1>2, <1>6, LastOfBatch DEF IInv, contained
<1>8. \A c \in 1 .. channels : Len(audioInput[c]) = contained
  <2>1. \A c \in 1 .. channels : channels > 0
    BY <1>2
  <2> QED
    BY <1>6, <1>7, <2>1
<1> QED
  BY <1>2, <1>5, <1>6, <1>7, <1>8

(* Where only the processor's place changes.                                 *)
LEMMA PlaceStays ==
    ASSUME HInv, EndBatch \/ UnlockCommands \/ Destroy PROVE HInv'
<1>1. /\ UNCHANGED <<info, inputInfo, consumerInfoChange, signalChange, audioInput, sent, held,
                     deferredAudioInput, numDeferred, history, clock, bufferClock,
                     deferredClock, bufferInfo, deferredInfo>>
      /\ \/ pc = "open" /\ pc' = "end"
         \/ pc = "commands" /\ pc' = "resize"
         \/ pc = "idle" /\ pc' = "dead"
  <2>1. CASE EndBatch
    BY <2>1 DEF EndBatch, data, playheads, infos, requests
  <2>2. CASE UnlockCommands
    BY <2>2 DEF UnlockCommands, data, playheads, infos
  <2>3. CASE Destroy
    BY <2>3 DEF Destroy, data, playheads, infos, requests
  <2> QED
    BY <2>1, <2>2, <2>3
<1>2. HistoryOK'
  BY <1>1 DEF HInv, HistoryOK
<1>3. Counted'
  BY <1>1 DEF HInv, Counted, channels
<1>4. Kept'
  BY <1>1 DEF HInv, Kept, HistoryMissing, channels
<1>5. contained' = contained /\ Elapsed' = 0 /\ Elapsed = 0 /\ channels' = channels
  BY <1>1 DEF Elapsed, contained, channels
<1>6. Played'
  BY <1>1, <1>5 DEF HInv, Played
<1>7. Deferred'
  BY <1>1, <1>5 DEF HInv, Deferred
<1>8. Published'
  BY <1>1, <1>5 DEF HInv, Published
<1> QED
  BY <1>2, <1>3, <1>4, <1>6, <1>7, <1>8 DEF HInv

(* What is asked for is a longer history.                                    *)
LEMMA ModifyStays ==
    ASSUME OutputAssumption, Steady, IInv, HInv, NEW consumer \in Consumers,
           consumer.size >= inputInfo.size, ModifyConsumerInfo(consumer)
    PROVE  HInv'
<1>1. /\ inputInfo' = [consumer EXCEPT !.size = Least(consumer.size, consumer.capacity)]
      /\ consumerInfoChange' = TRUE
      /\ UNCHANGED <<pc, info, signalChange, audioInput, sent, held, deferredAudioInput,
                     numDeferred, history, clock, bufferClock, deferredClock, bufferInfo,
                     deferredInfo>>
  BY DEF ModifyConsumerInfo, data, playheads, infos, processor
<1>2. /\ consumer \in [store : BOOLEAN, size : Nat, capacity : Nat, block : BOOLEAN]
      /\ consumer.store /\ 0 < consumer.size /\ consumer.size <= consumer.capacity
  BY DEF OutputAssumption, Steady
<1>3. Least(consumer.size, consumer.capacity) = consumer.size
  BY <1>2 DEF Least
<1>4. inputInfo' = consumer
  BY <1>1, <1>2, <1>3
<1>5. HistoryOK'
  BY <1>1 DEF HInv, HistoryOK
<1>6. Counted'
  BY <1>1 DEF HInv, Counted, channels
<1>7. Kept'
  <2>1. info.size \in Nat /\ inputInfo.size \in Nat /\ info.size <= inputInfo.size
    BY DEF IInv, Listening, TypeOK, Info, HInv, Kept
  <2>2. info.size <= inputInfo'.size
    BY <1>2, <1>4, <2>1
  <2>3. inputInfo'.store /\ inputInfo'.size > 0 /\ inputInfo'.size <= inputInfo'.capacity
    BY <1>2, <1>4
  <2> QED
    BY <1>1, <2>2, <2>3 DEF HInv, Kept, HistoryMissing, channels
<1>8. Played'
  BY <1>1 DEF HInv, Played, contained, channels
<1>9. Deferred'
  BY <1>1 DEF HInv, Deferred, Elapsed, contained, channels
<1>10. Published'
  BY <1>1 DEF HInv, Published, Elapsed, contained, channels
<1> QED
  BY <1>5, <1>6, <1>7, <1>8, <1>9, <1>10 DEF HInv

(* All the audio that was handed over went by.                               *)
LEMMA BeginStays == ASSUME OutputAssumption, Steady, IInv, HInv, BeginBatch PROVE HInv'
<1>1. /\ pc = "idle" /\ pc' = "open" /\ audioInput' = [c \in 1 .. channels |-> <<>>]
      /\ UNCHANGED <<info, inputInfo, consumerInfoChange, signalChange, sent, held,
                     deferredAudioInput, numDeferred, history, clock, bufferClock,
                     deferredClock, bufferInfo, deferredInfo>>
  BY DEF BeginBatch, Begin, playheads, requests
<1>2. channels' = channels /\ contained' = 0
  BY <1>1, OneCount, Emptied
<1>3. HistoryOK'
  BY <1>1 DEF HInv, HistoryOK
<1>4. Counted'
  <2>1. Alike(audioInput')
    <3>1. channels \in Nat
      BY OneCount
    <3>2. ASSUME NEW c \in 1 .. channels PROVE audioInput'[c] = <<>> /\ audioInput'[1] = <<>>
      BY <1>1, <3>1
    <3>3. DOMAIN audioInput' = 1 .. channels
      BY <1>1
    <3> QED
      BY <3>2, <3>3 DEF Alike
  <2> QED
    BY <1>1, <1>2, <2>1 DEF HInv, Counted
<1>5. Kept'
  BY <1>1 DEF HInv, Kept
<1>6. Elapsed' = 0 /\ Elapsed = 0
  BY <1>1 DEF Elapsed
<1>7. Played'
  <2>1. sent.samples - 0 = sent.samples
    BY DEF IInv, Listening, TypeOK
  <2> QED
    BY <1>1, <1>2, <2>1 DEF HInv, Played
<1>8. Deferred'
  BY <1>1, <1>2, <1>6 DEF HInv, Deferred
<1>9. Published'
  BY <1>1, <1>2, <1>6 DEF HInv, Published
<1> QED
  BY <1>3, <1>4, <1>5, <1>7, <1>8, <1>9 DEF HInv

(* The channels get the same samples.                                        *)
LEMMA AudioStays == ASSUME OutputAssumption, Steady, IInv, HInv, GiveAudio PROVE HInv'
<1>1. PICK n \in Nat :
        /\ pc = "open"
        /\ audioInput' = Extend(audioInput, contained, sent.channels,
                                [i \in 1 .. n |-> sent.samples + i])
        /\ contained \in Nat /\ sent.channels \in Nat \ {0}
        /\ channels' = sent.channels /\ contained' = contained + n
        /\ sent'.samples = sent.samples + n /\ sent'.channels = sent.channels
        /\ UNCHANGED <<pc, info, inputInfo, consumerInfoChange, signalChange, held>>
  BY AudioGiven
<1>2. UNCHANGED <<deferredAudioInput, numDeferred, history, clock, bufferClock, deferredClock,
                  bufferInfo, deferredInfo>>
  BY DEF GiveAudio, HandleFrame, HandleAudio, playheads
<1>3. HistoryOK'
  BY <1>2 DEF HInv, HistoryOK
<1>4. Alike(audioInput')
  <2> DEFINE more == [i \in 1 .. n |-> sent.samples + i]
             zeros == [i \in 1 .. contained |-> 0]
  <2>1. audioInput' = [c \in 1 .. sent.channels |->
                         (IF c <= Len(audioInput) THEN audioInput[c] ELSE zeros) \o more]
    BY <1>1 DEF Extend
  <2>2. Len(audioInput) = 0 \/ Len(audioInput) = sent.channels
    <3>1. channels \in Counts /\ sent.channels \in Counts
      BY DEF HInv, Counted
    <3> QED
      BY <1>1, <3>1 DEF Counts, Steady, channels
  <2>3. 1 \in 1 .. sent.channels /\ \A c \in 1 .. sent.channels : c <= sent.channels /\ ~(c <= 0)
    BY <1>1
  <2> HIDE DEF more, zeros
  <2>4. CASE Len(audioInput) = 0
    <3>1. audioInput' = [c \in 1 .. sent.channels |-> zeros \o more]
      BY <2>1, <2>3, <2>4
    <3> QED
      BY <2>3, <3>1 DEF Alike
  <2>5. CASE Len(audioInput) = sent.channels
    <3>1. \A c \in 1 .. sent.channels : audioInput[c] = audioInput[1]
      BY <2>5, OneCount DEF HInv, Counted, Alike, channels
    <3>2. audioInput' = [c \in 1 .. sent.channels |-> audioInput[1] \o more]
      BY <2>1, <2>3, <2>5, <3>1
    <3> QED
      BY <2>3, <3>2 DEF Alike
  <2> QED
    BY <2>2, <2>4, <2>5
<1>5. Counted'
  BY <1>1, <1>2, <1>4 DEF HInv, Counted
<1>6. Kept'
  BY <1>1, <1>2 DEF HInv, Kept
<1>7. Elapsed' = 0 /\ Elapsed = 0
  BY <1>1 DEF Elapsed
<1>8. Played'
  <2>1. clock = sent.samples - contained
    BY <1>1 DEF HInv, Played
  <2>2. n \in Nat /\ sent.samples \in Nat /\ contained \in Nat
    BY <1>1 DEF IInv, Listening, TypeOK
  <2>3. sent'.samples - contained' = sent.samples - contained
    BY <1>1, <2>2
  <2> QED
    BY <1>1, <1>2, <2>1, <2>3 DEF Played
<1>9. Deferred'
  <2>1. Deferred
    BY DEF HInv
  <2>2. /\ UNCHANGED <<deferredAudioInput, numDeferred, clock, bufferInfo, deferredClock,
                       deferredInfo, info>>
        /\ channels' > 0
    BY <1>1, <1>2
  <2> QED
    BY <1>7, <2>1, <2>2 DEF Deferred
<1>10. Published'
  <2>1. channels' > 0
    BY <1>1
  <2> QED
    BY <1>1, <1>2, <1>7, <2>1 DEF HInv, Published
<1> QED
  BY <1>3, <1>5, <1>6, <1>8, <1>9, <1>10 DEF HInv

(* The info may have another number of channels.                             *)
LEMMA HandleChangeStays ==
    ASSUME OutputAssumption, Steady, IInv, HInv, pc = "open", NEW frame \in Change,
           HandleChange(frame), sent'.samples = sent.samples, sent'.channels \in Counts,
           frame.type = "info" => frame.channels \in Counts
    PROVE  HInv'
<1>1. /\ UNCHANGED <<inputInfo, consumerInfoChange, signalChange, audioInput,
                     deferredAudioInput, numDeferred, history, clock, bufferClock,
                     deferredClock, bufferInfo, deferredInfo>>
      /\ \/ pc' = "end" /\ held' = <<frame>> /\ info' = info
         \/ UNCHANGED <<pc, held>> /\ ApplyChange(frame)
  BY DEF HandleChange, data, requests
<1>2. /\ info \in Info /\ info' \in Info /\ info'.channels \in Counts
      /\ info'.store = info.store /\ info'.size = info.size /\ info'.capacity = info.capacity
  <2>1. info \in Info /\ info.channels \in Counts
    BY DEF IInv, Listening, TypeOK, HInv, Counted
  <2>2. CASE info' = info
    BY <2>1, <2>2
  <2>3. CASE ApplyChange(frame) /\ frame.type = "info"
    <3>1. info' = [info EXCEPT !.channels = frame.channels] /\ frame.channels \in Nat
      BY <2>3 DEF ApplyChange, Change
    <3> QED
      BY <2>1, <2>3, <3>1 DEF Info
  <2>4. CASE ApplyChange(frame) /\ frame.type # "info"
    BY <2>1, <2>4 DEF ApplyChange
  <2> QED
    BY <1>1, <2>2, <2>3, <2>4
<1>3. pc' \in {"open", "end"}
  BY <1>1
<1>4. contained' = contained /\ channels' = channels /\ Elapsed' = 0 /\ Elapsed = 0
  BY <1>1, <1>3 DEF Elapsed, contained, channels
<1>5. HistoryOK'
  BY <1>1 DEF HInv, HistoryOK
<1>6. Counted'
  <2>1. held' # <<>> /\ held'[1].type = "info" => held'[1].channels \in Counts
    <3>1. held' = <<frame>> => held'[1] = frame
      OBVIOUS
    <3> QED
      BY <1>1, <3>1 DEF HInv, Counted
  <2> QED
    BY <1>1, <1>2, <1>4, <2>1 DEF HInv, Counted
<1>7. Kept'
  BY <1>1, <1>2, <1>3 DEF HInv, Kept
<1>8. Played'
  <2>1. clock = sent.samples - contained
    BY DEF HInv, Played
  <2> QED
    BY <1>1, <1>3, <1>4, <2>1 DEF Played
<1>9. Deferred'
  BY <1>1, <1>2, <1>4 DEF HInv, Deferred
<1>10. Published'
  BY <1>1, <1>2, <1>4 DEF HInv, Published
<1> QED
  BY <1>5, <1>6, <1>7, <1>8, <1>9, <1>10 DEF HInv

(* The producer announces the number of channels there is.                   *)
LEMMA ChangeStays ==
    ASSUME OutputAssumption, Steady, IInv, HInv, GiveInfo \/ GiveTransport PROVE HInv'
<1>1. sent \in [samples : Nat, channels : Nat, infos : Nat] /\ sent.channels \in Counts
  BY DEF IInv, Listening, TypeOK, HInv, Counted
<1>2. CASE GiveInfo
  <2>1. PICK c \in ChannelCounts :
          /\ HandleFrame([type |-> "info", channels |-> c])
          /\ sent' = [sent EXCEPT !.channels = c, !.infos = @ + 1]
    BY <1>2 DEF GiveInfo
  <2> DEFINE frame == [type |-> "info", channels |-> c]
  <2>2. c \in Nat /\ c \in Counts
    BY <2>1 DEF OutputAssumption, Counts
  <2>3. frame \in Change /\ frame.type = "info" /\ frame.channels = c
    BY <2>2 DEF Change
  <2>4. pc = "open" /\ HandleChange(frame)
    BY <2>1, <2>3 DEF HandleFrame
  <2>5. sent'.samples = sent.samples /\ sent'.channels \in Counts
    <3>1. sent' = [sent EXCEPT !.channels = c, !.infos = sent.infos + 1]
      BY <2>1
    <3> QED
      BY <1>1, <2>2, <3>1
  <2> HIDE DEF frame
  <2> QED
    BY <2>2, <2>3, <2>4, <2>5, HandleChangeStays
<1>3. CASE GiveTransport
  <2>1. PICK t \in HostTransports :
          HandleFrame([type |-> "transport", transport |-> t]) /\ sent' = sent
    BY <1>3 DEF GiveTransport
  <2> DEFINE frame == [type |-> "transport", transport |-> t]
  <2>2. frame \in Change /\ frame.type = "transport"
    BY DEF OutputAssumption, Change
  <2>3. pc = "open" /\ HandleChange(frame)
    BY <2>1, <2>2 DEF HandleFrame
  <2> HIDE DEF frame
  <2> QED
    BY <1>1, <2>1, <2>2, <2>3, HandleChangeStays
<1> QED
  BY <1>2, <1>3

(* A history that is missing is a change.                                    *)
LEMMA ReadFlagsStays == ASSUME IInv, HInv, ReadFlags PROVE HInv'
<1>1. /\ pc = "end" /\ pc' \in {"lock", "resize"}
      /\ pc' = "resize" /\ HistoryMissing(info) => signalChange'
      /\ UNCHANGED <<info, inputInfo, consumerInfoChange, audioInput, sent, held,
                     deferredAudioInput, numDeferred, history, clock, bufferClock,
                     deferredClock, bufferInfo, deferredInfo>>
  <2>1. inputChanges \in BOOLEAN
    BY DEF IInv, Listening, TypeOK
  <2> QED
    BY <2>1 DEF ReadFlags, data, playheads, requests
<1>2. contained' = contained /\ channels' = channels /\ Elapsed' = 0 /\ Elapsed = 0
  BY <1>1 DEF Elapsed, contained, channels
<1>3. HistoryOK'
  BY <1>1 DEF HInv, HistoryOK
<1>4. Counted'
  BY <1>1, <1>2 DEF HInv, Counted
<1>5. Kept'
  BY <1>1, <1>2 DEF HInv, Kept, HistoryMissing
<1>6. Played'
  BY <1>1, <1>2 DEF HInv, Played
<1>7. Deferred'
  BY <1>1, <1>2 DEF HInv, Deferred
<1>8. Published'
  BY <1>1, <1>2 DEF HInv, Published
<1> QED
  BY <1>3, <1>4, <1>5, <1>6, <1>7, <1>8 DEF HInv

(* What the consumer asked for is a longer history.                          *)
LEMMA LockStays == ASSUME IInv, HInv, LockCommands PROVE HInv'
<1>1. /\ pc = "lock" /\ pc' = "commands"
      /\ info' = IF consumerInfoChange
                 THEN [channels |-> info.channels, store |-> inputInfo.store,
                       size |-> inputInfo.size, capacity |-> inputInfo.capacity,
                       block |-> inputInfo.block]
                 ELSE info
      /\ HistoryMissing(info') => signalChange'
      /\ consumerInfoChange' = FALSE
      /\ UNCHANGED <<inputInfo, audioInput, sent, held, deferredAudioInput, numDeferred,
                     history, clock, bufferClock, deferredClock, bufferInfo, deferredInfo>>
  BY DEF LockCommands, data, playheads, callers
<1>2. /\ info'.channels = info.channels
      /\ \/ info'.store = info.store /\ info'.size = info.size /\ info'.capacity = info.capacity
         \/ /\ info'.store /\ inputInfo.store /\ info'.size > 0
            /\ info'.size = inputInfo.size /\ info'.capacity = inputInfo.capacity
  BY <1>1 DEF HInv, Kept
<1>3. contained' = contained /\ channels' = channels /\ Elapsed' = 0 /\ Elapsed = 0
  BY <1>1 DEF Elapsed, contained, channels
<1>4. HistoryOK'
  BY <1>1 DEF HInv, HistoryOK
<1>5. Counted'
  BY <1>1, <1>2, <1>3 DEF HInv, Counted
<1>6. Kept'
  <2>1. /\ info.size \in Nat /\ inputInfo.size \in Nat /\ info.size <= inputInfo.size
        /\ inputInfo.size <= inputInfo.capacity /\ info.size <= info.capacity
        /\ \A c \in DOMAIN history : history[c].size <= info.size
    BY DEF IInv, Listening, TypeOK, Info, HInv, Kept
  <2>2. info.size <= info'.size /\ info'.size <= inputInfo.size /\ info'.size \in Nat
    BY <1>2, <2>1
  <2>3. info'.size <= info'.capacity
    BY <1>2, <2>1
  <2>4. ASSUME NEW c \in DOMAIN history PROVE history[c].size <= info'.size
    <3>1. history[c].size \in Nat /\ history[c].size <= info.size
      <4>1. history \in Seq(Streams)
        BY DEF HInv, HistoryOK
      <4> QED
        BY <2>1, <4>1 DEF Streams
    <3> QED
      BY <2>1, <2>2, <3>1
  <2>5. (info'.store => info'.size > 0) /\ (info'.store => inputInfo.store)
    BY <1>2 DEF HInv, Kept
  <2>6. info'.store /\ Len(history') # channels' => signalChange'
    BY <1>1, <1>3 DEF HistoryMissing
  <2>7. pc' \notin {"notify", "publish"}
    BY <1>1
  <2>8. Len(history') > 0 => info'.store
    BY <1>1, <1>2 DEF HInv, Kept
  <2> QED
    BY <1>1, <2>1, <2>2, <2>3, <2>4, <2>5, <2>6, <2>7, <2>8 DEF Kept, HistoryMissing
<1>7. info.store => info'.store
  BY <1>2
<1>8. Played'
  BY <1>1, <1>3 DEF HInv, Played
<1>9. Deferred'
  BY <1>1, <1>3, <1>7 DEF HInv, Deferred
<1>10. Published'
  BY <1>1, <1>3, <1>7 DEF HInv, Published
<1> QED
  BY <1>4, <1>5, <1>6, <1>8, <1>9, <1>10 DEF HInv

(* The clock goes on by what the batch contains.                             *)
LEMMA AdvanceStays == ASSUME OutputAssumption, Steady, IInv, HInv, Advance PROVE HInv'
<1>1. /\ pc = "notify" /\ pc' = "publish" /\ clock' = clock + contained
      /\ UNCHANGED <<info, inputInfo, consumerInfoChange, signalChange, audioInput, sent, held,
                     deferredAudioInput, numDeferred, history, bufferClock, deferredClock,
                     bufferInfo, deferredInfo>>
  BY DEF Advance, data, infos, requests
<1>2. contained' = contained /\ channels' = channels /\ Elapsed' = contained /\ Elapsed = 0
  BY <1>1 DEF Elapsed, contained, channels
<1>3. /\ contained \in Nat /\ sent.samples \in Nat /\ clock = sent.samples - contained
      /\ numDeferred \in Nat /\ bufferClock \in Int
  BY <1>1, LastOfBatch DEF IInv, HInv, Played, HistoryOK
<1>4. HistoryOK'
  BY <1>1 DEF HInv, HistoryOK
<1>5. Counted'
  BY <1>1, <1>2 DEF HInv, Counted
<1>6. Kept'
  BY <1>1, <1>2 DEF HInv, Kept
<1>7. Played'
  <2>1. clock' = sent.samples
    BY <1>1, <1>3
  <2> QED
    BY <1>1, <2>1 DEF Played
<1>8. Deferred'
  <2>1. clock' - Elapsed' = clock - Elapsed
    BY <1>1, <1>2, <1>3
  <2> QED
    BY <1>1, <1>2, <2>1 DEF HInv, Deferred
<1>9. Published'
  <2>1. clock = bufferClock + numDeferred + Elapsed
        => clock' = bufferClock + numDeferred + Elapsed'
    BY <1>1, <1>2, <1>3
  <2> QED
    BY <1>1, <1>2, <2>1 DEF HInv, Published
<1> QED
  BY <1>4, <1>5, <1>6, <1>7, <1>8, <1>9 DEF HInv

(* Nothing on each channel.                                                  *)
LEMMA Empties ==
    ASSUME NEW n \in Nat, NEW s, s = [c \in 1 .. n |-> <<>>]
    PROVE  /\ s \in Seq(Seq(Nat)) /\ Len(s) = n /\ DOMAIN s = 1 .. n /\ Alike(s)
           /\ \A c \in DOMAIN s : s[c] = <<>> /\ Len(s[c]) = 0
<1>1. <<>> \in Seq(Nat) /\ Len(<<>>) = 0
  OBVIOUS
<1>2. s \in Seq(Seq(Nat)) /\ Len(s) = n /\ DOMAIN s = 1 .. n
  BY <1>1
<1>3. ASSUME NEW c \in 1 .. n PROVE s[c] = <<>> /\ s[1] = <<>>
  OBVIOUS
<1> QED
  BY <1>1, <1>2, <1>3 DEF Alike

(* A stream that was never used.                                             *)
LEMMA NewIsStream == NewStream \in Streams /\ NewStream.size = 0 /\ Blank(NewStream)
<1> DEFINE m == [i \in {} |-> Garbage]
<1>1. m \in [0 .. 0 - 1 -> Nat] /\ 0 \in 0 .. 0 /\ 0 \in Nat
  OBVIOUS
<1>2. NewStream = [memory |-> m, size |-> 0, cursor |-> 0]
  BY DEF NewStream
<1> HIDE DEF m
<1>3. NewStream \in Streams
  BY <1>1, <1>2, ToStream
<1> QED
  BY <1>2, <1>3 DEF Blank

(* The channels are resized alike, and keep their cursor.                    *)
LEMMA Ensured ==
    ASSUME OutputAssumption, Steady, IInv, HInv, info.store
    PROVE  \E o, t : /\ o \in Streams /\ Resized(t, o, info.size)
                     /\ IF Len(history) = 0 THEN o = NewStream
                        ELSE o = history[1] /\ 1 \in DOMAIN history
                     /\ EnsureAudioHistoryStorage = [c \in 1 .. channels |-> t]
<1> DEFINE old(c) == IF c <= Len(history) THEN history[c] ELSE NewStream
           o == IF Len(history) = 0 THEN NewStream ELSE history[1]
           n == info.size
           cap == info.capacity
           t == SetStorageRequirements(o, n, cap, TRUE, Filler)
<1>1. /\ history \in Seq(Streams) /\ DOMAIN history = 1 .. Len(history) /\ Len(history) \in Nat
      /\ Len(history) \in {0, channels} /\ channels \in Nat
      /\ \A c \in DOMAIN history : history[c] = history[1] /\ history[c].size <= n
  BY OneCount DEF HInv, HistoryOK, Kept, Counted, Alike
<1>2. n \in Nat /\ cap \in Nat /\ n <= cap /\ n > 0 /\ Garbage \in Nat
  <2>1. n \in Nat /\ cap \in Nat
    BY DEF IInv, Listening, TypeOK, Info
  <2>2. n <= cap /\ n > 0
    BY DEF HInv, Kept
  <2>3. Garbage \in Nat
    BY DEF OutputAssumption
  <2> QED
    BY <2>1, <2>2, <2>3
<1> HIDE DEF n, cap
<1>3. ASSUME Len(history) # 0 PROVE 1 \in DOMAIN history
  <2>1. Len(history) \in Nat /\ DOMAIN history = 1 .. Len(history)
    BY <1>1
  <2> QED
    BY <1>3, <2>1
<1>4. o \in Streams /\ o.size <= n
  <2>1. CASE Len(history) = 0
    <3>1. o = NewStream
      BY <2>1
    <3> HIDE DEF o
    <3> QED
      BY <1>2, <3>1, NewIsStream
  <2>2. CASE Len(history) # 0
    <3>1. o = history[1] /\ 1 \in DOMAIN history
      BY <1>3, <2>2
    <3>2. history[1].size <= n
      BY <1>1, <3>1
    <3>3. history[1] \in Streams
      <4>1. history \in Seq(Streams)
        BY <1>1
      <4> QED
        BY <3>1, <4>1
    <3> HIDE DEF o
    <3> QED
      BY <3>1, <3>2, <3>3
  <2> QED
    BY <2>1, <2>2
<1>5. ASSUME NEW c \in 1 .. channels PROVE old(c) = o /\ old(1) = o
  <2>1. CASE Len(history) = 0
    <3>1. ~(c <= Len(history)) /\ ~(1 <= Len(history))
      BY <1>1, <2>1
    <3> QED
      BY <2>1, <3>1
  <2>2. CASE Len(history) # 0
    <3>1. Len(history) = channels
      BY <1>1, <2>2
    <3>2. c <= Len(history) /\ 1 <= Len(history) /\ c \in DOMAIN history
      BY <1>1, <3>1
    <3> QED
      BY <1>1, <2>2, <3>2
  <2> QED
    BY <2>1, <2>2
<1>6. Resized(t, o, n)
  <2>1. n \in 0 .. cap
    BY <1>2
  <2> HIDE DEF o, n, cap
  <2> QED
    BY <1>2, <1>4, <2>1, ResizingKeepsTheNewest
<1>7. EnsureAudioHistoryStorage =
        [c \in 1 .. channels |->
            SetCursor(SetStorageRequirements(old(c), n, cap, TRUE, Filler), old(1).cursor)]
  BY DEF EnsureAudioHistoryStorage, n, cap
<1> HIDE DEF old, o
<1>8. ASSUME NEW c \in 1 .. channels
      PROVE  SetCursor(SetStorageRequirements(old(c), n, cap, TRUE, Filler), old(1).cursor) = t
  <2>1. SetStorageRequirements(old(c), n, cap, TRUE, Filler) = t /\ old(1).cursor = o.cursor
    BY <1>5
  <2> HIDE DEF t
  <2>2. t \in Streams /\ t.size = n /\ t.cursor = o.cursor
    BY <1>4, <1>6 DEF Resized
  <2>3. /\ t.cursor \in Nat /\ t.cursor < n
        /\ t = [memory |-> t.memory, size |-> t.size, cursor |-> t.cursor]
    BY <1>2, <2>2, OfStream
  <2>4. t.cursor % n = t.cursor
    BY <1>2, <2>3
  <2>5. SetCursor(t, o.cursor) = [t EXCEPT !.cursor = t.cursor]
    BY <1>2, <2>2, <2>4 DEF SetCursor
  <2>6. [t EXCEPT !.cursor = t.cursor] = t
    BY <2>3
  <2> QED
    BY <2>1, <2>5, <2>6
<1> HIDE DEF t
<1>9. EnsureAudioHistoryStorage = [c \in 1 .. channels |-> t]
  BY <1>7, <1>8
<1>10. IF Len(history) = 0 THEN o = NewStream ELSE o = history[1] /\ 1 \in DOMAIN history
  BY <1>3 DEF o
<1> QED
  BY <1>4, <1>6, <1>9, <1>10 DEF n

(* What a change of size does to the history as a whole.                     *)
LEMMA HistoryEnsured ==
    ASSUME OutputAssumption, Steady, IInv, HInv, info.store,
           history' = EnsureAudioHistoryStorage
    PROVE  /\ history' \in Seq(Streams) /\ Len(history') = channels
           /\ Alike(history')
           /\ \A c \in DOMAIN history' :
                 /\ history'[c].size = info.size
                 /\ IF bufferInfo.store THEN InPlaceAt(history'[c], bufferClock)
                                        ELSE Blank(history'[c])
<1>1. PICK o, t : /\ o \in Streams /\ Resized(t, o, info.size)
                  /\ IF Len(history) = 0 THEN o = NewStream
                     ELSE o = history[1] /\ 1 \in DOMAIN history
                  /\ EnsureAudioHistoryStorage = [c \in 1 .. channels |-> t]
  BY Ensured
<1>2. t \in Streams /\ t.size = info.size /\ channels \in Nat /\ info.size \in Nat /\ bufferClock \in Int
  BY <1>1, OneCount DEF Resized, IInv, Listening, TypeOK, Info, HInv, HistoryOK
<1>3. IF bufferInfo.store THEN InPlaceAt(t, bufferClock) ELSE Blank(t)
  <2>1. IF bufferInfo.store THEN InPlaceAt(o, bufferClock) ELSE Blank(o)
    <3>1. CASE Len(history) = 0
      <4>1. Blank(o)
        BY <1>1, <3>1, NewIsStream
      <4> QED
        BY <4>1, BlankInPlace
    <3>2. CASE Len(history) # 0
      BY <1>1, <3>2 DEF HInv, Published
    <3> QED
      BY <3>1, <3>2
  <2> QED
    BY <1>1, <1>2, <2>1, ResizedInPlace
<1>4. history' = [c \in 1 .. channels |-> t]
  BY <1>1
<1>5. history' \in Seq(Streams) /\ Len(history') = channels /\ DOMAIN history' = 1 .. channels
  BY <1>2, <1>4
<1>6. ASSUME NEW c \in 1 .. channels PROVE history'[c] = t /\ history'[1] = t
  BY <1>2, <1>4
<1>7. Alike(history')
  BY <1>5, <1>6 DEF Alike
<1> QED
  BY <1>2, <1>3, <1>5, <1>6, <1>7

(* The history is there from now on, and so is a place for deferred audio.   *)
LEMMA ResizeStays == ASSUME OutputAssumption, Steady, IInv, HInv, ResizeHistory PROVE HInv'
<1>1. /\ pc = "resize" /\ pc' = "notify"
      /\ \/ info.store /\ history' = EnsureAudioHistoryStorage
         \/ history' = history /\ (~signalChange \/ ~info.store \/ ~HistoryDifferent)
      /\ deferredAudioInput' = [c \in 1 .. channels |->
            IF c <= Len(deferredAudioInput) THEN deferredAudioInput[c] ELSE <<>>]
      /\ UNCHANGED <<info, inputInfo, consumerInfoChange, signalChange, audioInput, sent, held,
                     numDeferred, clock, bufferClock, deferredClock, bufferInfo, deferredInfo>>
  BY DEF ResizeHistory, playheads, infos, requests
<1>2. contained' = contained /\ channels' = channels /\ Elapsed' = 0 /\ Elapsed = 0
  BY <1>1 DEF Elapsed, contained, channels
<1>3. /\ channels \in Nat /\ channels \in Counts /\ Len(deferredAudioInput) \in {0, channels}
      /\ deferredAudioInput \in Seq(Seq(Nat)) /\ numDeferred \in Nat
      /\ DOMAIN deferredAudioInput = 1 .. Len(deferredAudioInput)
  BY OneCount DEF HInv, HistoryOK, Counted
<1>4. /\ history' \in Seq(Streams) /\ Alike(history') /\ Len(history') \in {0, channels}
      /\ info.store => Len(history') = channels
      /\ Len(history') > 0 => info.store
      /\ \A c \in DOMAIN history' :
            /\ history'[c].size <= info.size
            /\ IF bufferInfo.store THEN InPlaceAt(history'[c], bufferClock)
                                   ELSE Blank(history'[c])
  <2>1. CASE info.store /\ history' = EnsureAudioHistoryStorage
    <3>1. info.size <= info.size
      BY DEF IInv, Listening, TypeOK, Info
    <3> QED
      BY <2>1, <3>1, HistoryEnsured
  <2>2. CASE history' = history /\ (~signalChange \/ ~info.store \/ ~HistoryDifferent)
    <3>1. info.store => Len(history) = channels
      BY <1>1, <2>2 DEF HInv, Kept, HistoryMissing, HistoryDifferent
    <3>2. Len(history) \in {0, channels}
      BY OneCount
    <3> QED
      BY <2>2, <3>1, <3>2 DEF HInv, HistoryOK, Counted, Kept, Published
  <2> QED
    BY <1>1, <2>1, <2>2
<1>5. /\ deferredAudioInput' \in Seq(Seq(Nat)) /\ Len(deferredAudioInput') = channels
      /\ Alike(deferredAudioInput')
      /\ \A c \in DOMAIN deferredAudioInput' : Len(deferredAudioInput'[c]) = numDeferred
      /\ numDeferred > 0 => deferredAudioInput' = deferredAudioInput
  <2>1. CASE Len(deferredAudioInput) = channels
    <3>1. deferredAudioInput' = [c \in 1 .. channels |-> deferredAudioInput[c]]
      BY <1>1, <1>3, <2>1
    <3>2. deferredAudioInput' = deferredAudioInput
      BY <1>3, <2>1, <3>1
    <3> QED
      BY <1>3, <2>1, <3>2 DEF HInv, Counted, Deferred
  <2>2. CASE Len(deferredAudioInput) = 0
    <3>1. deferredAudioInput = <<>>
      BY <1>3, <2>2
    <3>2. ~(numDeferred > 0) /\ numDeferred = 0
      BY <1>3, <3>1 DEF HInv, Deferred
    <3>3. \A c \in 1 .. channels : ~(c <= Len(deferredAudioInput))
      BY <1>3, <2>2
    <3>4. deferredAudioInput' = [c \in 1 .. channels |-> <<>>]
      BY <1>1, <3>3
    <3> QED
      BY <1>3, <3>2, <3>4, Empties
  <2> QED
    BY <1>3, <2>1, <2>2
<1>6. HistoryOK'
  BY <1>1, <1>3, <1>4, <1>5 DEF HInv, HistoryOK, Counts
<1>7. Counted'
  <2>1. channels = 0 => Len(history') = 0 /\ deferredAudioInput' = <<>>
    BY <1>4, <1>5
  <2> QED
    BY <1>1, <1>2, <1>3, <1>4, <1>5, <2>1 DEF HInv, Counted
<1>8. Kept'
  BY <1>1, <1>2, <1>4, <1>5 DEF HInv, Kept
<1>9. Played'
  BY <1>1, <1>2 DEF HInv, Played
<1>10. Deferred'
  BY <1>1, <1>2, <1>5 DEF HInv, Deferred
<1>11. Published'
  BY <1>1, <1>2, <1>4 DEF HInv, Published
<1> QED
  BY <1>6, <1>7, <1>8, <1>9, <1>10, <1>11 DEF HInv

(* Each channel has an input, of n samples after the one at that place.      *)
Following(inputs, at, n) ==
    \A c \in DOMAIN history :
        /\ inputs[c] \in Seq(Nat) /\ Len(inputs[c]) = n /\ inputs[c] = inputs[1]
        /\ \A i \in 1 .. n : inputs[c][i] = at + i

(* The deferred audio and what comes after it go to the history together.    *)
LEMMA Merged ==
    ASSUME OutputAssumption, Steady, IInv, HInv, pc \in {"notify", "publish"}, info.store,
           NEW inputs, NEW n \in Nat, NEW at \in Int, at = clock - Elapsed,
           Following(inputs, at, n), NEW playhead, NEW i, Merge(inputs, playhead, i)
    PROVE  /\ history' \in Seq(Streams) /\ Len(history') = Len(history) /\ Alike(history')
           /\ DOMAIN history' = DOMAIN history
           /\ \A c \in DOMAIN history' :
                 history'[c].size = history[c].size /\ InPlaceAt(history'[c], at + n)
           /\ deferredAudioInput' \in Seq(Seq(Nat)) /\ Alike(deferredAudioInput')
           /\ Len(deferredAudioInput') = Len(deferredAudioInput) /\ numDeferred' = 0
           /\ \A c \in DOMAIN deferredAudioInput' : Len(deferredAudioInput'[c]) = 0
<1> DEFINE k == numDeferred
           mixed(c) == CopyIntoHead(IF k > 0 THEN CopyIntoHead(history[c], deferredAudioInput[c])
                                             ELSE history[c], inputs[c])
<1>1. /\ history \in Seq(Streams) /\ DOMAIN history = 1 .. Len(history) /\ Len(history) \in Nat
      /\ Len(history) = channels /\ Len(deferredAudioInput) = channels
      /\ DOMAIN deferredAudioInput = 1 .. channels
      /\ deferredAudioInput \in Seq(Seq(Nat))
      /\ k \in Nat /\ bufferClock \in Int /\ clock \in Int /\ Elapsed \in Nat
  <2>1. Len(history) = channels /\ Len(deferredAudioInput) = channels
    BY DEF HInv, Kept
  <2>2. sent.samples \in Nat /\ contained \in Nat
    BY LastOfBatch DEF IInv
  <2>3. clock \in Int /\ Elapsed \in Nat
    BY <2>2 DEF HInv, Played, Elapsed
  <2> QED
    BY <2>1, <2>3, OneCount DEF HInv, HistoryOK
<1>2. ASSUME NEW c \in DOMAIN history PROVE history[c] \in Streams /\ InPlaceAt(history[c], at - k)
  <2>1. history[c] \in Streams
    BY <1>1
  <2>2. CASE bufferInfo.store
    <3>1. clock = bufferClock + k + Elapsed /\ InPlaceAt(history[c], bufferClock)
      BY <2>2 DEF HInv, Published
    <3>2. at - k = bufferClock
      BY SMTT(30), <1>1, <3>1
    <3> QED
      BY <2>1, <3>1, <3>2
  <2>3. CASE ~bufferInfo.store
    BY <2>1, <2>3, BlankInPlace DEF HInv, Published
  <2> QED
    BY <2>2, <2>3
<1>3. ASSUME NEW c \in DOMAIN history
      PROVE  /\ deferredAudioInput[c] \in Seq(Nat) /\ deferredAudioInput[c] = deferredAudioInput[1]
             /\ k > 0 => /\ Len(deferredAudioInput[c]) = k
                         /\ \A j \in 1 .. k : deferredAudioInput[c][j] = (at - k) + j
  <2>1. c \in DOMAIN deferredAudioInput
    BY <1>1
  <2>2. deferredAudioInput[c] \in Seq(Nat)
    BY <1>1, <2>1
  <2>3. deferredAudioInput[c] = deferredAudioInput[1] /\ Len(deferredAudioInput[c]) = k
    BY <2>1 DEF HInv, Counted, Alike, Deferred
  <2>4. ASSUME k > 0, NEW j \in 1 .. k PROVE deferredAudioInput[1][j] = (at - k) + j
    <3>1. /\ deferredClock = at
          /\ deferredAudioInput[1][j] = deferredClock - k + j
      BY <2>4 DEF HInv, Deferred
    <3> QED
      BY <3>1
  <2> QED
    BY <2>2, <2>3, <2>4
<1>4. /\ history' = [c \in DOMAIN history |-> mixed(c)]
      /\ deferredAudioInput' = [c \in DOMAIN deferredAudioInput |-> <<>>] /\ numDeferred' = 0
  BY DEF Merge
<1> HIDE DEF k
<1>5. ASSUME NEW c \in DOMAIN history
      PROVE  mixed(c) \in Streams /\ mixed(c).size = history[c].size /\ InPlaceAt(mixed(c), at + n)
  <2> DEFINE s == history[c]
             d == deferredAudioInput[c]
             b == inputs[c]
             from == at - k
  <2>1. /\ s \in Streams /\ InPlaceAt(s, from) /\ d \in Seq(Nat) /\ b \in Seq(Nat)
        /\ from \in Int /\ k \in Nat /\ Len(b) = n
        /\ k > 0 => Len(d) = k /\ \A j \in 1 .. k : d[j] = from + j
    BY <1>1, <1>2, <1>3 DEF Following
  <2>2. \A j \in 1 .. Len(b) : b[j] = from + k + j
    <3>1. from + k = at
      BY <1>1
    <3> HIDE DEF from, b
    <3>2. \A j \in 1 .. n : b[j] = at + j
      BY DEF b, Following
    <3> QED
      BY <2>1, <3>1, <3>2
  <2>3. mixed(c) = CopyIntoHead(IF k > 0 THEN CopyIntoHead(s, d) ELSE s, b)
    OBVIOUS
  <2>4. from + k + Len(b) = at + n
    BY <1>1, <2>1
  <2> HIDE DEF s, d, b, from, mixed
  <2>5. mixed(c) \in Streams /\ mixed(c).size = s.size /\ InPlaceAt(mixed(c), from + k + Len(b))
    BY <2>1, <2>2, <2>3, MergedInPlace
  <2> QED
    BY <2>4, <2>5 DEF s
<1>6. ASSUME NEW c \in DOMAIN history PROVE mixed(c) = mixed(1)
  <2>1. 1 \in DOMAIN history /\ history[c] = history[1]
    BY <1>1 DEF HInv, Counted, Alike
  <2>2. deferredAudioInput[c] = deferredAudioInput[1] /\ inputs[c] = inputs[1]
    BY <1>3 DEF Following
  <2> QED
    BY <2>1, <2>2
<1> HIDE DEF mixed
<1>7. history' \in Seq(Streams) /\ Len(history') = Len(history) /\ DOMAIN history' = DOMAIN history
  BY <1>1, <1>4, <1>5
<1>8. Alike(history')
  <2>1. ASSUME NEW c \in DOMAIN history PROVE history'[c] = history'[1]
    <3>1. 1 \in DOMAIN history
      BY <1>1
    <3> QED
      BY <1>4, <1>6, <3>1
  <2> QED
    BY <1>7, <2>1 DEF Alike
<1>9. deferredAudioInput' = [c \in 1 .. channels |-> <<>>] /\ channels \in Nat
  BY <1>1, <1>4
<1>10. /\ deferredAudioInput' \in Seq(Seq(Nat)) /\ Alike(deferredAudioInput')
       /\ Len(deferredAudioInput') = Len(deferredAudioInput)
       /\ \A c \in DOMAIN deferredAudioInput' : Len(deferredAudioInput'[c]) = 0
  BY <1>1, <1>9, Empties
<1> QED
  BY <1>4, <1>5, <1>7, <1>8, <1>10

(* An empty block leaves a blank stream blank.                               *)
LEMMA NothingWritten ==
    ASSUME NEW s \in Streams, Blank(s) PROVE Blank(CopyIntoHead(s, <<>>))
<1> DEFINE t == CopyIntoHead(s, <<>>)
<1>1. <<>> \in Seq(Nat) /\ Len(<<>>) = 0
  OBVIOUS
<1>2. Slid(t, s, <<>>)
  BY <1>1, WritingSlides
<1>3. s.size \in Nat
  BY OfStream
<1> HIDE DEF t
<1>4. t.size = s.size /\ \A i \in 1 .. s.size : Window(t)[i] = Window(s)[i]
  BY <1>1, <1>2, <1>3 DEF Slid
<1>5. Blank(t)
  BY <1>4 DEF Blank
<1> QED
  BY <1>5 DEF t

(* A listener spools what was deferred.                                      *)
LEMMA SpoolStays == ASSUME OutputAssumption, Steady, IInv, HInv, Spool PROVE HInv'
<1> DEFINE none == [c \in DOMAIN history |-> <<>>]
<1>1. /\ pc = "notify" /\ Len(deferredAudioInput) = Len(history)
      /\ Merge(none, deferredClock, deferredInfo)
      /\ UNCHANGED <<pc, info, inputInfo, consumerInfoChange, signalChange, audioInput, sent,
                     held, clock>>
  BY DEF Spool, infos, requests, processor
<1>2. /\ deferredClock' = deferredClock /\ bufferClock' = deferredClock
      /\ deferredInfo' = deferredInfo /\ bufferInfo' = deferredInfo
  BY <1>1 DEF Merge
<1>3. contained' = contained /\ channels' = channels /\ Elapsed' = 0 /\ Elapsed = 0
  BY <1>1 DEF Elapsed, contained, channels
<1>4. /\ clock \in Int /\ deferredClock \in Int /\ numDeferred \in Nat /\ channels \in Nat
      /\ Len(deferredAudioInput) = channels /\ Len(history) = channels
      /\ DOMAIN history = 1 .. channels /\ DOMAIN deferredAudioInput = 1 .. channels
  <2>1. sent.samples \in Nat /\ contained \in Nat
    BY LastOfBatch DEF IInv
  <2>2. clock \in Int
    BY <1>1, <2>1 DEF HInv, Played
  <2>3. Len(deferredAudioInput) = channels /\ Len(history) = channels
    BY <1>1 DEF HInv, Kept
  <2> QED
    BY <2>2, <2>3, OneCount DEF HInv, HistoryOK
<1>5. /\ deferredInfo.store => info.store /\ channels > 0 /\ deferredClock = clock
      /\ ~deferredInfo.store => ~bufferInfo.store /\ numDeferred = 0
      /\ channels > 0 => info.store
  BY <1>1, <1>3, <1>4 DEF HInv, Deferred, Kept
<1>6. ASSUME NEW c \in DOMAIN history
      PROVE  /\ none[c] \in Seq(Nat) /\ Len(none[c]) = 0 /\ none[c] = none[1]
             /\ none[c] = <<>> /\ \A i \in 1 .. 0 : none[c][i] = clock + i
  <2>1. 1 \in DOMAIN history
    BY <1>4
  <2>2. none[c] = <<>> /\ none[1] = <<>>
    BY <2>1
  <2>3. <<>> \in Seq(Nat) /\ Len(<<>>) = 0
    OBVIOUS
  <2> HIDE DEF none
  <2> QED
    BY <2>2, <2>3
<1> HIDE DEF none
<1>7. /\ history' \in Seq(Streams) /\ Len(history') = Len(history) /\ Alike(history')
      /\ DOMAIN history' = DOMAIN history
      /\ \A c \in DOMAIN history' :
            history'[c].size = history[c].size /\ InPlaceAt(history'[c], clock)
      /\ deferredAudioInput' \in Seq(Seq(Nat)) /\ Alike(deferredAudioInput')
      /\ Len(deferredAudioInput') = Len(deferredAudioInput) /\ numDeferred' = 0
      /\ \A c \in DOMAIN deferredAudioInput' : Len(deferredAudioInput'[c]) = 0
  <2>1. CASE info.store
    <3>1. Following(none, clock, 0)
      BY <1>6 DEF Following
    <3>2. clock = clock - Elapsed /\ 0 \in Nat /\ clock \in Int
      BY <1>3, <1>4
    <3>3. clock + 0 = clock
      BY <1>4
    <3>4. pc \in {"notify", "publish"} /\ Merge(none, deferredClock, deferredInfo)
      BY <1>1
    <3>5. /\ history' \in Seq(Streams) /\ Len(history') = Len(history) /\ Alike(history')
          /\ DOMAIN history' = DOMAIN history
          /\ \A c \in DOMAIN history' :
                history'[c].size = history[c].size /\ InPlaceAt(history'[c], clock + 0)
          /\ deferredAudioInput' \in Seq(Seq(Nat)) /\ Alike(deferredAudioInput')
          /\ Len(deferredAudioInput') = Len(deferredAudioInput) /\ numDeferred' = 0
          /\ \A c \in DOMAIN deferredAudioInput' : Len(deferredAudioInput'[c]) = 0
      BY <2>1, <3>1, <3>2, <3>4, Merged
    <3> QED
      BY <3>3, <3>5
  <2>2. CASE ~info.store
    <3>1. DOMAIN history = 1 .. 0 /\ DOMAIN deferredAudioInput = 1 .. 0 /\ channels = 0
      BY <1>4, <1>5, <2>2
    <3>2. \A c \in 1 .. 0 : FALSE
      OBVIOUS
    <3>3. PICK F : history' = [c \in 1 .. 0 |-> F[c]]
      <4>1. history' = [c \in DOMAIN history |-> history'[c]]
        BY <1>1 DEF Merge
      <4> QED
        BY <3>1, <4>1
    <3>4. history' \in Seq(Streams) /\ Len(history') = 0 /\ DOMAIN history' = 1 .. 0
      BY <3>2, <3>3
    <3>5. deferredAudioInput' = [c \in 1 .. 0 |-> <<>>] /\ numDeferred' = 0
      BY <1>1, <3>1 DEF Merge
    <3>6. /\ deferredAudioInput' \in Seq(Seq(Nat)) /\ Alike(deferredAudioInput')
          /\ Len(deferredAudioInput') = 0 /\ DOMAIN deferredAudioInput' = 1 .. 0
      BY <3>5, Empties
    <3> QED
      BY <1>4, <3>1, <3>2, <3>4, <3>5, <3>6 DEF Alike
  <2> QED
    BY <2>1, <2>2
<1>8. ASSUME ~deferredInfo.store, NEW c \in DOMAIN history' PROVE Blank(history'[c])
  <2>1. c \in DOMAIN history /\ history[c] \in Streams /\ Blank(history[c])
    BY <1>5, <1>7, <1>8 DEF HInv, HistoryOK, Published
  <2>2. history'[c] = CopyIntoHead(history[c], <<>>)
    BY <1>1, <1>5, <1>6, <1>8, <2>1 DEF Merge
  <2> QED
    BY <2>1, <2>2, NothingWritten
<1>9. HistoryOK'
  BY <1>2, <1>4, <1>7 DEF HInv, HistoryOK
<1>10. Counted'
  <2>1. channels = 0 => deferredAudioInput' = <<>>
    BY <1>4, <1>7
  <2> QED
    BY <1>1, <1>3, <1>4, <1>7, <2>1 DEF HInv, Counted
<1>11. Kept'
  BY <1>1, <1>3, <1>7 DEF HInv, Kept
<1>12. Played'
  BY <1>1, <1>3 DEF HInv, Played
<1>13. Deferred'
  <2>1. clock - 0 = clock
    BY <1>4
  <2> QED
    BY <1>1, <1>2, <1>3, <1>5, <1>7, <2>1 DEF Deferred
<1>14. Published'
  <2>1. clock = clock + 0 + 0
    BY <1>4
  <2> QED
    BY <1>1, <1>2, <1>3, <1>5, <1>7, <1>8, <2>1 DEF Published
<1> QED
  BY <1>9, <1>10, <1>11, <1>12, <1>13, <1>14 DEF HInv

(* One sequence after another.                                               *)
LEMMA Joined ==
    ASSUME NEW s \in Seq(Nat), NEW t \in Seq(Nat)
    PROVE  /\ s \o t \in Seq(Nat) /\ Len(s \o t) = Len(s) + Len(t)
           /\ \A i \in 1 .. Len(s) + Len(t) :
                  (s \o t)[i] = IF i <= Len(s) THEN s[i] ELSE t[i - Len(s)]
BY ConcatProperties

(* The audio of the batch follows what was deferred.                         *)
LEMMA DeferredOn ==
    ASSUME OutputAssumption, Steady, IInv, HInv, pc = "publish", Publishes, Defer
    PROVE  /\ deferredAudioInput' \in Seq(Seq(Nat)) /\ Len(deferredAudioInput') = channels
           /\ Alike(deferredAudioInput') /\ numDeferred' = numDeferred + contained
           /\ \A c \in DOMAIN deferredAudioInput' : Len(deferredAudioInput'[c]) = numDeferred'
           /\ \A i \in 1 .. numDeferred' : deferredAudioInput'[1][i] = clock - numDeferred' + i
<1> DEFINE k == numDeferred
           n == contained
           def == deferredAudioInput
           in == audioInput
<1>1. /\ channels \in Nat /\ channels > 0 /\ k \in Nat /\ n \in Nat
      /\ DOMAIN def = 1 .. channels /\ def \in Seq(Seq(Nat))
      /\ \A c \in 1 .. channels : in[c] \in Seq(Nat) /\ Len(in[c]) = n
  <2>1. Len(def) = channels
    BY DEF HInv, Kept
  <2> QED
    BY <2>1, OneCount DEF HInv, HistoryOK, Publishes
<1>2. ASSUME NEW c \in 1 .. channels
      PROVE  def[c] \in Seq(Nat) /\ Len(def[c]) = k /\ def[c] = def[1] /\ in[c] = in[1]
  <2>1. c \in DOMAIN def /\ c \in DOMAIN in
    BY <1>1, OneCount
  <2>2. def[c] \in Seq(Nat)
    BY <1>1, <2>1
  <2>3. Len(def[c]) = k
    BY <2>1 DEF HInv, Deferred
  <2>4. def[c] = def[1] /\ in[c] = in[1]
    BY <2>1 DEF HInv, Counted, Alike
  <2> QED
    BY <2>2, <2>3, <2>4
<1>3. /\ def' = [c \in 1 .. channels |-> def[c] \o in[c]] /\ numDeferred' = Len(def'[1])
  BY DEF Defer
<1>4. \A i \in 1 .. k : def[1][i] = (clock - n) - k + i
  <2>1. k > 0 => deferredClock = clock - n /\ \A i \in 1 .. k : def[1][i] = deferredClock - k + i
    BY DEF HInv, Deferred, Elapsed
  <2>2. \A i \in 1 .. k : k > 0
    BY <1>1
  <2> QED
    BY <2>1, <2>2
<1>5. /\ clock \in Int
      /\ \A i \in 1 .. n : in[1][i] = clock - n + i
  <2>1. clock = sent.samples /\ sent.samples \in Nat
    BY LastOfBatch DEF IInv, HInv, Played
  <2> QED
    BY <2>1 DEF IInv, InOrder
<1> HIDE DEF k, n, def, in
<1>6. ASSUME NEW c \in 1 .. channels
      PROVE  /\ def[c] \o in[c] \in Seq(Nat) /\ Len(def[c] \o in[c]) = k + n
             /\ def[c] \o in[c] = def[1] \o in[1]
  <2>1. def[c] \in Seq(Nat) /\ in[c] \in Seq(Nat) /\ Len(def[c]) = k /\ Len(in[c]) = n
    BY <1>1, <1>2
  <2>2. def[c] \o in[c] \in Seq(Nat) /\ Len(def[c] \o in[c]) = Len(def[c]) + Len(in[c])
    BY <2>1, Joined
  <2>3. def[c] = def[1] /\ in[c] = in[1]
    BY <1>2
  <2> QED
    BY <2>1, <2>2, <2>3
<1>7. 1 \in 1 .. channels
  BY <1>1
<1> DEFINE all == deferredAudioInput'
<1>8. all = [c \in 1 .. channels |-> def[c] \o in[c]] /\ numDeferred' = Len(all[1])
  BY <1>3 DEF def
<1> HIDE DEF all
<1>9. all \in Seq(Seq(Nat)) /\ Len(all) = channels /\ DOMAIN all = 1 .. channels
  BY <1>1, <1>6, <1>8
<1>10. \A c \in 1 .. channels : all[c] = def[1] \o in[1] /\ Len(all[c]) = k + n
  BY <1>6, <1>8
<1>11. numDeferred' = k + n
  BY <1>7, <1>8, <1>10
<1>12. Alike(all)
  BY <1>7, <1>9, <1>10 DEF Alike
<1>13. ASSUME NEW i \in 1 .. k + n PROVE all[1][i] = clock - (k + n) + i
  <2>1. all[1][i] = IF i <= k THEN def[1][i] ELSE in[1][i - k]
    <3>1. def[1] \in Seq(Nat) /\ in[1] \in Seq(Nat) /\ Len(def[1]) = k /\ Len(in[1]) = n
      BY <1>1, <1>2, <1>7
    <3>2. i \in 1 .. Len(def[1]) + Len(in[1])
      BY <3>1
    <3>3. (def[1] \o in[1])[i] = IF i <= k THEN def[1][i] ELSE in[1][i - k]
      BY <3>1, <3>2, Joined
    <3> QED
      BY <1>7, <1>10, <3>3
  <2>2. CASE i <= k
    <3>1. i \in 1 .. k /\ (clock - n) - k + i = clock - (k + n) + i
      BY <1>1, <1>5, <2>2
    <3> QED
      BY <1>4, <2>1, <2>2, <3>1
  <2>3. CASE ~(i <= k)
    <3>1. k \in Nat /\ n \in Nat /\ clock \in Int
      BY <1>1, <1>5
    <3>2. i - k \in 1 .. n /\ clock - n + (i - k) = clock - (k + n) + i
      BY ONLY <2>3, <3>1, i \in 1 .. k + n
    <3> QED
      BY <1>5, <2>1, <2>3, <3>2
  <2> QED
    BY <2>2, <2>3
<1>14. \A i \in 1 .. numDeferred' : all[1][i] = clock - numDeferred' + i
  BY <1>11, <1>13
<1> QED
  BY <1>9, <1>10, <1>11, <1>12, <1>14 DEF all, k, n

(* The audio of the batch is in the history or deferred.                     *)
LEMMA HistoryPublished ==
    ASSUME OutputAssumption, Steady, IInv, HInv, Publish
    PROVE  /\ HistoryOK' /\ Len(history') = Len(history) /\ Alike(history')
           /\ Alike(deferredAudioInput') /\ Len(deferredAudioInput') = Len(deferredAudioInput)
           /\ \A c \in DOMAIN history' : history'[c].size <= info.size
           /\ \A c \in DOMAIN deferredAudioInput' : Len(deferredAudioInput'[c]) = numDeferred'
           /\ bufferInfo'.store => deferredInfo'.store
           /\ deferredInfo'.store => info.store /\ channels > 0 /\ deferredClock' = clock
           /\ numDeferred' > 0 =>
                 /\ deferredAudioInput' # <<>> /\ deferredInfo'.store
                 /\ \A i \in 1 .. numDeferred' :
                       deferredAudioInput'[1][i] = deferredClock' - numDeferred' + i
           /\ bufferInfo'.store =>
                 info.store /\ channels > 0 /\ clock = bufferClock' + numDeferred'
           /\ \A c \in DOMAIN history' :
                 IF bufferInfo'.store THEN InPlaceAt(history'[c], bufferClock')
                                      ELSE Blank(history'[c])
<1>1. /\ pc = "publish"
      /\ \/ /\ ~Publishes
            /\ UNCHANGED <<deferredAudioInput, numDeferred, history, bufferClock,
                           deferredClock, bufferInfo, deferredInfo>>
         \/ Publishes /\ Merge(audioInput, clock, info)
         \/ Publishes /\ Defer
  BY DEF Publish
<1>2. /\ channels \in Nat /\ contained \in Nat /\ Elapsed = contained
      /\ info \in Info /\ sent.samples \in Nat /\ clock = sent.samples
      /\ numDeferred \in Nat /\ bufferClock \in Int /\ clock \in Int
      /\ info.store => info.size > 0
  <2>1. channels \in Nat /\ contained \in Nat /\ Elapsed = contained
    BY <1>1, OneCount DEF Elapsed
  <2>2. info \in Info /\ sent.samples \in Nat
    BY DEF IInv, Listening, TypeOK
  <2>3. clock = sent.samples
    BY <1>1 DEF HInv, Played
  <2>4. numDeferred \in Nat /\ bufferClock \in Int
    BY DEF HInv, HistoryOK
  <2>5. info.store => info.size > 0
    BY DEF HInv, Kept
  <2> QED
    BY <2>1, <2>2, <2>3, <2>4, <2>5
<1>3. CASE /\ ~Publishes
           /\ UNCHANGED <<deferredAudioInput, numDeferred, history, bufferClock,
                          deferredClock, bufferInfo, deferredInfo>>
  <2>1. ~info.store \/ channels = 0
    BY <1>2, <1>3 DEF Publishes
  <2>2. ~(numDeferred > 0) /\ ~bufferInfo.store /\ ~deferredInfo.store
    BY <1>2, <2>1 DEF HInv, Deferred
  <2>3. HistoryOK'
    BY <1>3 DEF HInv, HistoryOK
  <2>4. /\ ~(numDeferred' > 0) /\ ~bufferInfo'.store /\ ~deferredInfo'.store
        /\ Len(history') = Len(history) /\ Alike(history')
        /\ Alike(deferredAudioInput') /\ Len(deferredAudioInput') = Len(deferredAudioInput)
        /\ \A c \in DOMAIN history' : history'[c].size <= info.size
        /\ \A c \in DOMAIN deferredAudioInput' : Len(deferredAudioInput'[c]) = numDeferred'
        /\ \A c \in DOMAIN history' : Blank(history'[c])
    BY <1>3, <2>2 DEF HInv, Counted, Kept, Deferred, Published
  <2> QED
    BY <2>3, <2>4
<1>4. CASE Publishes /\ Merge(audioInput, clock, info)
  <2> DEFINE at == clock - Elapsed
  <2>1. /\ bufferClock' = clock /\ deferredClock' = clock
        /\ bufferInfo' = info /\ deferredInfo' = info /\ info.store /\ channels > 0
    BY <1>4 DEF Merge, Publishes
  <2>2. at \in Int /\ at + contained = clock /\ at = sent.samples - contained
    BY <1>2
  <2>3. ASSUME NEW c \in DOMAIN history
        PROVE  /\ audioInput[c] \in Seq(Nat) /\ Len(audioInput[c]) = contained
               /\ audioInput[c] = audioInput[1]
               /\ \A i \in 1 .. contained : audioInput[c][i] = at + i
    <3>1. c \in 1 .. channels
      <4>1. DOMAIN history = 1 .. Len(history) /\ Len(history) = channels
        BY <1>1, <2>1, OneCount DEF HInv, Kept
      <4> QED
        BY <4>1
    <3>2. audioInput[c] \in Seq(Nat) /\ Len(audioInput[c]) = contained
      BY <3>1, OneCount
    <3>3. audioInput[c] = audioInput[1]
      BY <3>1, OneCount DEF HInv, Counted, Alike
    <3>4. \A i \in 1 .. contained : audioInput[1][i] = sent.samples - contained + i
      BY DEF IInv, InOrder
    <3> HIDE DEF at
    <3> QED
      BY <2>2, <3>2, <3>3, <3>4
  <2>4. at = clock - Elapsed
    OBVIOUS
  <2> HIDE DEF at
  <2>5. /\ history' \in Seq(Streams) /\ Len(history') = Len(history) /\ Alike(history')
        /\ DOMAIN history' = DOMAIN history
        /\ \A c \in DOMAIN history' :
              history'[c].size = history[c].size /\ InPlaceAt(history'[c], at + contained)
        /\ deferredAudioInput' \in Seq(Seq(Nat)) /\ Alike(deferredAudioInput')
        /\ Len(deferredAudioInput') = Len(deferredAudioInput) /\ numDeferred' = 0
        /\ \A c \in DOMAIN deferredAudioInput' : Len(deferredAudioInput'[c]) = 0
    <3>1. pc \in {"notify", "publish"} /\ info.store /\ contained \in Nat /\ at \in Int
      BY <1>1, <1>2, <2>1, <2>2
    <3>2. Merge(audioInput, clock, info)
      BY <1>4
    <3>3. Following(audioInput, at, contained)
      BY <2>3 DEF Following
    <3> QED
      BY <2>4, <3>1, <3>2, <3>3, Merged
  <2>6. HistoryOK'
    BY <1>2, <2>1, <2>5 DEF HInv, HistoryOK
  <2>7. \A c \in DOMAIN history' : history'[c].size <= info.size
    BY <2>5 DEF HInv, Kept
  <2>8. \A c \in DOMAIN history' : InPlaceAt(history'[c], bufferClock')
    BY <2>1, <2>2, <2>5
  <2>9. clock = bufferClock' + numDeferred' /\ ~(numDeferred' > 0)
    BY <1>2, <2>1, <2>5
  <2> QED
    BY <2>1, <2>5, <2>6, <2>7, <2>8, <2>9
<1>5. CASE Publishes /\ Defer
  <2>1. /\ deferredClock' = clock /\ deferredInfo' = info /\ info.store /\ channels > 0
        /\ UNCHANGED <<history, bufferClock, bufferInfo>>
    BY <1>5 DEF Defer, Publishes
  <2>2. /\ deferredAudioInput' \in Seq(Seq(Nat)) /\ Len(deferredAudioInput') = channels
        /\ Alike(deferredAudioInput') /\ numDeferred' = numDeferred + contained
        /\ \A c \in DOMAIN deferredAudioInput' : Len(deferredAudioInput'[c]) = numDeferred'
        /\ \A i \in 1 .. numDeferred' : deferredAudioInput'[1][i] = clock - numDeferred' + i
    BY <1>1, <1>5, DeferredOn
  <2>3. deferredAudioInput' # <<>> /\ Len(deferredAudioInput') = Len(deferredAudioInput)
    BY <1>1, <2>1, <2>2 DEF HInv, Kept
  <2>4. HistoryOK'
    BY <1>2, <2>1, <2>2 DEF HInv, HistoryOK
  <2>5. bufferInfo'.store => clock = bufferClock' + numDeferred'
    <3>1. bufferInfo.store => clock = bufferClock + numDeferred + contained
      BY <1>2 DEF HInv, Published
    <3>2. bufferClock + numDeferred + contained = bufferClock + (numDeferred + contained)
      BY <1>2
    <3> QED
      BY <2>1, <2>2, <3>1, <3>2
  <2>6. /\ Alike(history') /\ Len(history') = Len(history)
        /\ \A c \in DOMAIN history' : history'[c].size <= info.size
        /\ \A c \in DOMAIN history' :
              IF bufferInfo'.store THEN InPlaceAt(history'[c], bufferClock')
                                   ELSE Blank(history'[c])
    BY <2>1 DEF HInv, Counted, Kept, Published
  <2> QED
    BY <2>1, <2>2, <2>3, <2>4, <2>5, <2>6
<1> QED
  BY <1>1, <1>3, <1>4, <1>5

(* The next batch starts with the frame that was held.                       *)
LEMMA PublishStays == ASSUME OutputAssumption, Steady, IInv, HInv, Publish PROVE HInv'
<1>1. /\ HistoryOK' /\ Len(history') = Len(history) /\ Alike(history')
      /\ Alike(deferredAudioInput') /\ Len(deferredAudioInput') = Len(deferredAudioInput)
      /\ \A c \in DOMAIN history' : history'[c].size <= info.size
      /\ \A c \in DOMAIN deferredAudioInput' : Len(deferredAudioInput'[c]) = numDeferred'
      /\ bufferInfo'.store => deferredInfo'.store
      /\ deferredInfo'.store => info.store /\ channels > 0 /\ deferredClock' = clock
      /\ numDeferred' > 0 =>
            /\ deferredAudioInput' # <<>> /\ deferredInfo'.store
            /\ \A i \in 1 .. numDeferred' :
                  deferredAudioInput'[1][i] = deferredClock' - numDeferred' + i
      /\ bufferInfo'.store => info.store /\ channels > 0 /\ clock = bufferClock' + numDeferred'
      /\ \A c \in DOMAIN history' :
            IF bufferInfo'.store THEN InPlaceAt(history'[c], bufferClock')
                                 ELSE Blank(history'[c])
  BY HistoryPublished
<1>2. /\ pc = "publish" /\ held' = <<>> /\ pc' \in {"idle", "open"}
      /\ UNCHANGED <<clock, inputInfo, consumerInfoChange, signalChange, sent>>
  BY DEF Publish, requests
<1>3. /\ clock = sent.samples /\ sent.samples \in Nat /\ channels \in Nat
      /\ info \in Info /\ info.channels \in Counts
  BY <1>2, OneCount, LastOfBatch DEF IInv, Listening, TypeOK, HInv, Played, Counted
<1>4. /\ info' \in Info /\ info'.channels \in Counts
      /\ info'.store = info.store /\ info'.size = info.size /\ info'.capacity = info.capacity
      /\ channels' = channels /\ Alike(audioInput')
      /\ pc' = "open" => contained' = 0
  <2>1. CASE held = <<>>
    <3>1. pc' = "idle" /\ info' = info /\ audioInput' = audioInput
      BY <2>1 DEF Publish
    <3> QED
      BY <1>3, <3>1 DEF HInv, Counted, channels
  <2>2. CASE held # <<>>
    <3> DEFINE frame == held[1]
    <3>1. ApplyChange(frame) /\ audioInput' = [c \in 1 .. channels |-> <<>>]
      BY <2>2 DEF Publish, Begin
    <3>2. frame \in Change /\ (frame.type = "info" => frame.channels \in Counts)
      BY <2>2 DEF IInv, Listening, TypeOK, HInv, Counted
    <3> HIDE DEF frame
    <3>3. channels' = channels /\ Alike(audioInput') /\ contained' = 0
      BY <1>3, <3>1, Empties, Emptied
    <3>4. CASE frame.type = "info"
      <4>1. info' = [info EXCEPT !.channels = frame.channels] /\ frame.channels \in Nat
        BY <3>1, <3>2, <3>4 DEF ApplyChange, Change
      <4> QED
        BY <1>3, <3>2, <3>3, <3>4, <4>1 DEF Info
    <3>5. CASE frame.type # "info"
      <4>1. info' = info
        BY <3>1, <3>5 DEF ApplyChange
      <4> QED
        BY <1>3, <3>3, <4>1
    <3> QED
      BY <3>4, <3>5
  <2> QED
    BY <2>1, <2>2
<1>5. Elapsed' = 0 /\ clock' - 0 = clock
  BY <1>2, <1>3 DEF Elapsed
<1>6. Counted'
  <2>1. channels = 0 => Len(history') = 0 /\ deferredAudioInput' = <<>>
    <3>1. channels = 0 => Len(history) = 0 /\ Len(deferredAudioInput) = 0
      BY DEF HInv, Counted
    <3>2. deferredAudioInput' \in Seq(Seq(Nat))
      BY <1>1 DEF HistoryOK
    <3>3. channels = 0 => Len(history') = 0 /\ Len(deferredAudioInput') = 0
      BY <1>1, <3>1
    <3>4. Len(deferredAudioInput') = 0 => deferredAudioInput' = <<>>
      BY <3>2
    <3> QED
      BY <3>3, <3>4
  <2> QED
    BY <1>1, <1>2, <1>4, <2>1 DEF HInv, Counted
<1>7. Kept'
  BY <1>1, <1>2, <1>4 DEF HInv, Kept
<1>8. Played'
  <2>1. sent.samples - 0 = sent.samples
    BY <1>3
  <2> QED
    BY <1>2, <1>3, <1>4, <2>1 DEF Played
<1>9. Deferred'
  BY <1>1, <1>2, <1>4, <1>5 DEF Deferred
<1>10. Published'
  <2>1. bufferInfo'.store => clock' = bufferClock' + numDeferred' + Elapsed'
    <3>1. bufferClock' + numDeferred' + 0 = bufferClock' + numDeferred'
      BY <1>1 DEF HistoryOK
    <3> QED
      BY <1>1, <1>2, <1>5, <3>1
  <2> QED
    BY <1>1, <1>4, <2>1 DEF Published
<1> QED
  BY <1>1, <1>6, <1>7, <1>8, <1>9, <1>10 DEF HInv

(* Nothing was announced yet.                                                *)
LEMMA InitStays == ASSUME Init PROVE HInv
<1>1. /\ pc = "idle" /\ info = NoInfo /\ bufferInfo = NoInfo /\ deferredInfo = NoInfo
      /\ inputInfo = ConsumerPart(NoInfo) /\ audioInput = <<>> /\ deferredAudioInput = <<>>
      /\ numDeferred = 0 /\ history = <<>> /\ clock = 0 /\ bufferClock = 0 /\ deferredClock = 0
      /\ consumerInfoChange = FALSE /\ held = <<>>
      /\ sent = [samples |-> 0, channels |-> 0, infos |-> 0]
  BY DEF Init
<1>2. /\ info.channels = 0 /\ ~info.store /\ info.size = 0 /\ info.capacity = 0
      /\ ~bufferInfo.store /\ bufferInfo \in Info /\ deferredInfo \in Info
      /\ inputInfo.size = 0 /\ inputInfo.capacity = 0
      /\ sent.samples = 0 /\ sent.channels = 0
  BY <1>1 DEF NoInfo, ConsumerPart, Info
<1>3. channels = 0 /\ Len(deferredAudioInput) = 0 /\ Len(history) = 0
  BY <1>1 DEF channels
<1>4. HistoryOK
  BY <1>1, <1>2, <1>3 DEF HistoryOK, Counts
<1>5. Counted
  BY <1>1, <1>2, <1>3 DEF Counted, Counts, Alike
<1>6. Kept
  BY <1>1, <1>2 DEF Kept
<1>7. Played
  BY <1>1, <1>2 DEF Played
<1>8. Deferred
  <2>1. ~deferredInfo.store /\ \A c \in DOMAIN deferredAudioInput : FALSE
    BY <1>1 DEF NoInfo
  <2> QED
    BY <1>1, <1>2, <2>1 DEF Deferred
<1>9. Published
  BY <1>1, <1>2 DEF Published
<1> QED
  BY <1>4, <1>5, <1>6, <1>7, <1>8, <1>9 DEF HInv

(* No step leaves a sample out of its place.                                 *)
LEMMA NextStays ==
    ASSUME OutputAssumption, Steady, IInv, HInv, [Next]_vars PROVE HInv'
<1>1. CASE BeginBatch
  BY <1>1, BeginStays
<1>2. CASE GiveAudio
  BY <1>2, AudioStays
<1>3. CASE GiveInfo \/ GiveTransport
  BY <1>3, ChangeStays
<1>4. CASE EndBatch \/ UnlockCommands \/ Destroy
  BY <1>4, PlaceStays
<1>5. CASE ReadFlags
  BY <1>5, ReadFlagsStays
<1>6. CASE LockCommands
  BY <1>6, LockStays
<1>7. CASE ApplyAdd \/ ApplyRemove
  <2>1. UNCHANGED kept
    BY <1>7 DEF ApplyAdd, ApplyRemove, kept, data, playheads, infos, processor
  <2> QED
    BY <2>1, UntouchedStays
<1>8. CASE ResizeHistory
  BY <1>8, ResizeStays
<1>9. CASE Notify \/ StreamDied
  <2>1. UNCHANGED kept
    BY <1>9 DEF Notify, StreamDied, kept, data, playheads, infos, requests
  <2> QED
    BY <2>1, UntouchedStays
<1>10. CASE Advance
  BY <1>10, AdvanceStays
<1>11. CASE Publish
  BY <1>11, PublishStays
<1>12. CASE Spool
  BY <1>12, SpoolStays
<1>13. CASE TakeViews \/ ReleaseViews \/ Stopped \/ UNCHANGED vars
  <2>1. UNCHANGED kept
    <3>1. CASE TakeViews \/ ReleaseViews
      BY <3>1 DEF TakeViews, ReleaseViews, kept, data, playheads, infos, requests, processor
    <3>2. CASE Stopped \/ UNCHANGED vars
      BY <3>2 DEF Stopped, vars, kept, data, playheads, infos, requests, processor
    <3> QED
      BY <1>13, <3>1, <3>2
  <2> QED
    BY <2>1, UntouchedStays
<1>14. CASE Commands
  <2>1. CASE \E l \in Listener : AddListener(l) \/ RemoveListener(l)
    <3>1. UNCHANGED kept
      BY <2>1 DEF AddListener, RemoveListener, kept, data, playheads, infos, processor
    <3> QED
      BY <3>1, UntouchedStays
  <2>2. CASE \E consumer \in Consumers :
                (Shrinks \/ consumer.size >= inputInfo.size) /\ ModifyConsumerInfo(consumer)
    <3>1. PICK consumer \in Consumers :
             consumer.size >= inputInfo.size /\ ModifyConsumerInfo(consumer)
      BY <2>2 DEF Steady
    <3> QED
      BY <3>1, ModifyStays
  <2> QED
    BY <1>14, <2>1, <2>2 DEF Commands
<1> QED
  BY <1>1, <1>2, <1>3, <1>4, <1>5, <1>6, <1>7, <1>8, <1>9, <1>10, <1>11, <1>12, <1>13, <1>14
  DEF Next, Batch, Finish

(* The invariant of the history is one of the specification, for any sizes,  *)
(* packets and listeners, as long as the history does not get shorter.       *)
THEOREM HistoryInvariance == ASSUME Steady PROVE Spec => []HInv
<1>1. Init => HInv
  BY InitStays
<1>2. IInv /\ HInv /\ [Next]_vars => HInv'
  BY OutputAssumption, Steady, NextStays
<1> QED
  BY <1>1, <1>2, Invariance, PTL DEF Spec

(* Each sample in the history is where the playhead says, on every channel.  *)
THEOREM SamplesAreInPlace == ASSUME Steady PROVE Spec => []HistoryInPlace
<1>1. HInv => HistoryInPlace
  <2> SUFFICES ASSUME HInv, NEW c \in DOMAIN history PROVE InPlace(c)
    BY DEF HistoryInPlace
  <2>1. InPlaceAt(history[c], bufferClock)
    <3>1. IF bufferInfo.store THEN InPlaceAt(history[c], bufferClock) ELSE Blank(history[c])
      BY DEF HInv, Published
    <3> QED
      BY <3>1, BlankInPlace
  <2>2. history[c].size \in Nat
    <3>1. history \in Seq(Streams)
      BY DEF HInv, HistoryOK
    <3>2. history[c] \in Streams
      BY <3>1
    <3> QED
      BY <3>2, OfStream
  <2>3. /\ DOMAIN Window(history[c]) = 1 .. history[c].size
        /\ Len(Window(history[c])) = history[c].size
    BY <2>2 DEF Window
  <2> QED
    BY <2>1, <2>3 DEF InPlace, InPlaceAt
<1> QED
  BY <1>1, HistoryInvariance, PTL

(* Audio that went by since the history was first published is in it or      *)
(* deferred.                                                                 *)
THEOREM AudioIsKept == ASSUME Steady PROVE Spec => []NothingForgotten
<1>1. HInv => NothingForgotten
  <2> SUFFICES ASSUME HInv, pc \in {"idle", "open", "end"}
               PROVE  /\ bufferInfo.store => clock = bufferClock + numDeferred
                      /\ \A c \in DOMAIN deferredAudioInput :
                            Len(deferredAudioInput[c]) = numDeferred
    BY DEF NothingForgotten
  <2>1. bufferInfo.store => clock = bufferClock + numDeferred + 0
    BY DEF HInv, Published, Elapsed
  <2>2. bufferClock + numDeferred + 0 = bufferClock + numDeferred
    BY DEF HInv, HistoryOK
  <2> QED
    BY <2>1, <2>2 DEF HInv, Deferred
<1> QED
  BY <1>1, HistoryInvariance, PTL

-----------------------------------------------------------------------------
(***************************************************************************)
(* The stream: commands while it runs, and what the Input sends.           *)
(***************************************************************************)
Audio == [type : {"audio"}, channels : Nat \ {0}, samples : Seq(Nat) \ {<<>>},
          at : TransportData, sure : BOOLEAN]
Frame == Audio \cup Change

FramesOK ==
    /\ audioInput \in Seq(Seq(Nat)) /\ transport \in TransportData
    /\ inputTransport \in TransportData /\ hostTransport \in TransportData
    /\ handed \in Nat /\ internalInfo.channels \in Nat
    /\ fifo \in Seq(Frame) /\ pending \in Seq(Frame) /\ callLost \in BOOLEAN
    /\ held = <<>> \/ (held = <<held[1]>> /\ held[1] \in Change)
    /\ held # <<>> => pc \notin {"idle", "open"}

(* After the Input is gone nothing comes, so that the final batch is not     *)
(* followed by another, and no command is left in its second half.           *)
Ending ==
    /\ released => pending = <<>>
    /\ thread \in {"final", "done"} => released /\ fifo = <<>> /\ held = <<>>
    /\ thread = "final" /\ pc \in {"resize", "notify", "publish", "idle"} => inputListeners = <<>>
    /\ thread = "done" => inputListeners = <<>> /\ pc = "idle"

(* What the transport is after a frame.                                      *)
After(f, t) ==
    IF f.type = "audio" THEN Advanced(t, Len(f.samples))
    ELSE IF f.type = "transport" THEN f.transport ELSE t

(* A frame leads from one transport to another, and its audio, all of it or  *)
(* what is sure, is where it should be.                                      *)
Step(f, from, to, all) ==
    /\ to = After(f, from)
    /\ f.type = "audio" /\ (all \/ f.sure) => f.at = from

(* The frames fs do so one after the other.                                  *)
Plays(fs, from, to, all) ==
    \E r \in [0 .. Len(fs) -> TransportData] :
        /\ r[0] = from /\ r[Len(fs)] = to
        /\ \A i \in 1 .. Len(fs) : Step(fs[i], r[i - 1], r[i], all)

(* The Output's transport when it has done with what it was given.           *)
Place ==
    IF held # <<>> /\ held[1].type = "transport" THEN held[1].transport
    ELSE IF pc \in {"idle", "publish"} THEN transport ELSE Advanced(transport, contained)

(* The frames in the queue lead the Output to where the call in progress     *)
(* goes on, unless that lost a frame, which the next one will make good.     *)
OnTrack ==
    /\ \E to \in TransportData :
          /\ Plays(fifo, Place, to, FALSE)
          /\ ~callLost => Plays(pending, to, inputTransport, TRUE)
    /\ callLost => framesWereDropped \/ problemsPushingPlayHead

SInv == Listening /\ FramesOK /\ Ending /\ OnTrack

(* A transport advances by one number of samples and then another as by both *)
(* together.                                                                 *)
LEMMA AdvancesOn ==
    ASSUME NEW t \in TransportData
    PROVE  /\ Advanced(t, 0) = t
           /\ \A m \in Nat : Advanced(t, m) \in TransportData
           /\ \A m, n \in Nat : Advanced(Advanced(t, m), n) = Advanced(t, m + n)
<1>1. Advanced(t, 0) = t
  BY DEF Advanced, TransportData
<1>2. ASSUME NEW m \in Nat PROVE Advanced(t, m) \in TransportData
  BY DEF Advanced, TransportData
<1>3. ASSUME NEW m \in Nat, NEW n \in Nat
      PROVE  Advanced(Advanced(t, m), n) = Advanced(t, m + n)
  <2>1. CASE t.playing
    <3> DEFINE at(p) == [position |-> p, playing |-> TRUE, flags |-> t.flags]
    <3>1. t = at(t.position) /\ t.position \in Nat
      BY <2>1 DEF TransportData
    <3>2. ASSUME NEW p \in Nat, NEW k \in Nat PROVE Advanced(at(p), k) = at(p + k)
      BY DEF Advanced
    <3> HIDE DEF at
    <3>3. /\ Advanced(t, m) = at(t.position + m) /\ t.position + m \in Nat
          /\ Advanced(t, m + n) = at(t.position + (m + n))
      BY <3>1, <3>2
    <3>4. Advanced(at(t.position + m), n) = at((t.position + m) + n)
      BY <3>2, <3>3
    <3>5. (t.position + m) + n = t.position + (m + n)
      BY <3>1
    <3> QED
      BY <3>3, <3>4, <3>5
  <2>2. CASE ~t.playing
    BY <2>2 DEF Advanced
  <2> QED
    BY <2>1, <2>2
<1> QED
  BY <1>1, <1>2, <1>3

(* Where a frame leads is a transport.                                       *)
LEMMA Places ==
    ASSUME NEW f \in Frame, NEW t \in TransportData PROVE After(f, t) \in TransportData
<1>1. CASE f \in Audio
  <2>1. Len(f.samples) \in Nat /\ f.type = "audio"
    BY <1>1 DEF Audio
  <2> QED
    BY <2>1, AdvancesOn DEF After
<1>2. CASE f \in Change
  <2>1. f.type # "audio" /\ (f.type = "transport" => f.transport \in TransportData)
    BY <1>2 DEF Change
  <2> QED
    BY <2>1 DEF After
<1> QED
  BY <1>1, <1>2 DEF Frame

(* No frames lead nowhere.                                                   *)
LEMMA PlaysNothing ==
    /\ \A from, to, all : Plays(<<>>, from, to, all) => from = to
    /\ \A at \in TransportData : \A all : Plays(<<>>, at, at, all)
<1>1. \A from, to, all : Plays(<<>>, from, to, all) => from = to
  BY DEF Plays
<1>2. ASSUME NEW at \in TransportData, NEW all PROVE Plays(<<>>, at, at, all)
  <2>1. [i \in 0 .. 0 |-> at] \in [0 .. 0 -> TransportData] /\ [i \in 0 .. 0 |-> at][0] = at
    OBVIOUS
  <2>2. Len(<<>>) = 0
    OBVIOUS
  <2>3. \E r \in [0 .. Len(<<>>) -> TransportData] :
           /\ r[0] = at /\ r[Len(<<>>)] = at
           /\ \A i \in 1 .. Len(<<>>) : Step(<<>>[i], r[i - 1], r[i], all)
    <3>1. \A i \in 1 .. 0 : FALSE
      OBVIOUS
    <3> QED
      BY <2>1, <2>2, <3>1
  <2> QED
    BY <2>3 DEF Plays
<1> QED
  BY <1>1, <1>2

(* A frame joins those that are queued.                                      *)
LEMMA PlaysOn ==
    ASSUME NEW fs \in Seq(Frame), NEW f \in Frame, NEW from, NEW to \in TransportData,
           Plays(fs, from, to, FALSE), f.type = "audio" /\ f.sure => f.at = to
    PROVE  Plays(Append(fs, f), from, After(f, to), FALSE)
<1> DEFINE n == Len(fs)
           gs == Append(fs, f)
           goal == After(f, to)
<1>1. n \in Nat
  OBVIOUS
<1>2. Len(gs) = n + 1 /\ gs[n + 1] = f /\ \A i \in 1 .. n : gs[i] = fs[i]
  BY AppendProperties
<1>3. PICK r \in [0 .. n -> TransportData] :
        /\ r[0] = from /\ r[n] = to
        /\ \A i \in 1 .. n : Step(fs[i], r[i - 1], r[i], FALSE)
  BY DEF Plays
<1> DEFINE q == [i \in 0 .. n + 1 |-> IF i = n + 1 THEN goal ELSE r[i]]
<1>4. goal \in TransportData
  BY Places
<1> HIDE DEF n, gs, goal
<1>5. \A i \in 0 .. n : q[i] = r[i]
  BY <1>1
<1>6. q[n + 1] = goal /\ q \in [0 .. n + 1 -> TransportData]
  BY <1>1, <1>3, <1>4
<1> HIDE DEF q
<1>7. ASSUME NEW i \in 1 .. n + 1
      PROVE  Step(gs[i], q[i - 1], q[i], FALSE)
  <2>1. CASE i = n + 1
    <3>1. i - 1 = n /\ n \in 0 .. n
      BY <1>1, <2>1
    <3>2. q[i - 1] = to /\ gs[i] = f /\ q[i] = goal
      BY <1>2, <1>3, <1>5, <1>6, <2>1, <3>1
    <3> QED
      BY <3>2 DEF goal, Step
  <2>2. CASE i # n + 1
    <3>1. i \in 1 .. n /\ i \in 0 .. n /\ i - 1 \in 0 .. n
      BY <1>1, <2>2
    <3>2. q[i] = r[i] /\ q[i - 1] = r[i - 1] /\ gs[i] = fs[i]
      BY <1>2, <1>5, <3>1
    <3> QED
      BY <1>3, <3>1, <3>2
  <2> QED
    BY <2>1, <2>2
<1>8. q[0] = from
  BY <1>1, <1>3, <1>5
<1>9. Plays(gs, from, goal, FALSE)
  BY <1>2, <1>6, <1>7, <1>8 DEF Plays
<1> QED
  BY <1>9 DEF gs, goal

(* The first frame is taken, and the others lead on from where it led.       *)
LEMMA PlaysFrom ==
    ASSUME NEW fs \in Seq(Frame), fs # <<>>, NEW from, NEW to, NEW all \in BOOLEAN,
           Plays(fs, from, to, all), NEW f, f = Head(fs)
    PROVE  /\ f \in Frame
           /\ f.type = "audio" /\ (all \/ f.sure) => f.at = from
           /\ Plays(Tail(fs), After(f, from), to, all)
<1> DEFINE n == Len(fs)
           gs == Tail(fs)
           on == After(f, from)
<1>1. n \in Nat \ {0} /\ f = fs[1] /\ f \in Frame
  OBVIOUS
<1>2. Len(gs) = n - 1 /\ \A i \in 1 .. n - 1 : gs[i] = fs[i + 1]
  OBVIOUS
<1>3. PICK r \in [0 .. n -> TransportData] :
        /\ r[0] = from /\ r[n] = to
        /\ \A i \in 1 .. n : Step(fs[i], r[i - 1], r[i], all)
  BY DEF Plays
<1> DEFINE q == [i \in 0 .. n - 1 |-> r[i + 1]]
<1> HIDE DEF n, gs
<1>4. /\ f.type = "audio" /\ (all \/ f.sure) => f.at = from
      /\ r[1] = on
  <2>1. 1 \in 1 .. n /\ 1 - 1 = 0
    BY <1>1
  <2>2. Step(f, from, r[1], all)
    BY <1>1, <1>3, <2>1
  <2> QED
    BY <2>2 DEF Step
<1> HIDE DEF on
<1>5. /\ q \in [0 .. n - 1 -> TransportData] /\ q[0] = on /\ q[n - 1] = to
      /\ \A i \in 0 .. n - 1 : q[i] = r[i + 1]
  <2>1. \A i \in 0 .. n - 1 : i + 1 \in 0 .. n
    BY <1>1
  <2>2. 0 \in 0 .. n - 1 /\ n - 1 \in 0 .. n - 1 /\ 0 + 1 = 1 /\ (n - 1) + 1 = n
    BY <1>1
  <2> QED
    BY <1>3, <1>4, <2>1, <2>2
<1> HIDE DEF q
<1>6. ASSUME NEW i \in 1 .. n - 1
      PROVE  Step(gs[i], q[i - 1], q[i], all)
  <2>1. i + 1 \in 1 .. n /\ i \in 0 .. n - 1 /\ i - 1 \in 0 .. n - 1 /\ (i - 1) + 1 = i /\ (i + 1) - 1 = i
    BY <1>1
  <2>2. q[i] = r[i + 1] /\ q[i - 1] = r[i] /\ gs[i] = fs[i + 1]
    BY <1>2, <1>5, <2>1
  <2>3. Step(fs[i + 1], r[i], r[i + 1], all)
    BY <1>3, <2>1
  <2> QED
    BY <2>2, <2>3
<1>7. Plays(gs, on, to, all)
  BY <1>2, <1>5, <1>6 DEF Plays
<1> QED
  BY <1>1, <1>4, <1>7 DEF gs, on

(* A transport frame leads from anywhere to where the others go on.          *)
LEMMA PlaysAfterJump ==
    ASSUME NEW fs \in Seq(Frame), NEW at \in TransportData, NEW to, Plays(fs, at, to, TRUE),
           NEW from \in TransportData
    PROVE  /\ <<Transport(at)>> \o fs \in Seq(Frame)
           /\ Plays(<<Transport(at)>> \o fs, from, to, TRUE)
<1> DEFINE n == Len(fs)
           t == Transport(at)
           gs == <<t>> \o fs
<1>1. t \in Frame /\ t.type = "transport" /\ t.transport = at
  BY DEF Transport, Frame, Change
<1>2. Step(t, from, at, TRUE)
  BY <1>1 DEF Step, After
<1> HIDE DEF t
<1>3. n \in Nat /\ <<t>> \in Seq(Frame) /\ Len(<<t>>) = 1 /\ <<t>>[1] = t
  BY <1>1
<1>4. /\ gs \in Seq(Frame) /\ Len(gs) = 1 + n
      /\ \A i \in 1 .. 1 + n : gs[i] = IF i <= 1 THEN <<t>>[i] ELSE fs[i - 1]
  <2>1. /\ gs \in Seq(Frame) /\ Len(gs) = Len(<<t>>) + n
        /\ \A i \in 1 .. Len(<<t>>) + n :
              gs[i] = IF i <= Len(<<t>>) THEN <<t>>[i] ELSE fs[i - Len(<<t>>)]
    BY <1>3, ConcatProperties
  <2> QED
    BY <1>3, <2>1
<1> HIDE DEF n, gs
<1>5. gs[1] = t /\ \A i \in 1 .. n : gs[i + 1] = fs[i]
  <2>1. 1 \in 1 .. 1 + n /\ 1 <= 1
    BY <1>3
  <2>2. \A i \in 1 .. n : i + 1 \in 1 .. 1 + n /\ ~(i + 1 <= 1) /\ (i + 1) - 1 = i
    BY <1>3
  <2> QED
    BY <1>3, <1>4, <2>1, <2>2
<1>6. PICK r \in [0 .. n -> TransportData] :
        r[0] = at /\ r[n] = to /\ \A i \in 1 .. n : Step(fs[i], r[i - 1], r[i], TRUE)
  BY DEF Plays, n
<1> DEFINE q == [i \in 0 .. 1 + n |-> IF i = 0 THEN from ELSE r[i - 1]]
<1>7. /\ q \in [0 .. 1 + n -> TransportData] /\ q[0] = from
      /\ \A i \in 0 .. n : q[i + 1] = r[i]
  <2>1. \A i \in 0 .. 1 + n : i # 0 => i - 1 \in 0 .. n
    BY <1>3
  <2>2. \A i \in 0 .. n : i + 1 \in 0 .. 1 + n /\ i + 1 # 0 /\ (i + 1) - 1 = i
    BY <1>3
  <2>3. 0 \in 0 .. 1 + n
    BY <1>3
  <2> QED
    BY <1>6, <2>1, <2>2, <2>3
<1> HIDE DEF q
<1>8. q[1] = at /\ q[1 + n] = to
  <2>1. 0 \in 0 .. n /\ n \in 0 .. n /\ 0 + 1 = 1 /\ n + 1 = 1 + n
    BY <1>3
  <2> QED
    BY <1>6, <1>7, <2>1
<1>9. ASSUME NEW i \in 1 .. 1 + n PROVE Step(gs[i], q[i - 1], q[i], TRUE)
  <2>1. CASE i = 1
    <3>1. i - 1 = 0
      BY <2>1
    <3> QED
      BY <1>2, <1>5, <1>7, <1>8, <2>1, <3>1
  <2>2. CASE i # 1
    <3>1. PICK j \in 1 .. n : i = j + 1
      <4>1. i - 1 \in 1 .. n /\ i = (i - 1) + 1
        BY <1>3, <2>2
      <4> QED
        BY <4>1
    <3>2. j \in 0 .. n /\ j - 1 \in 0 .. n /\ i - 1 = (j - 1) + 1
      BY <1>3, <3>1
    <3>3. gs[i] = fs[j] /\ q[i] = r[j] /\ q[i - 1] = r[j - 1]
      BY <1>5, <1>7, <3>1, <3>2
    <3>4. Step(fs[j], r[j - 1], r[j], TRUE)
      BY <1>6
    <3> QED
      BY <3>3, <3>4
  <2> QED
    BY <2>1, <2>2
<1>10. Plays(gs, from, to, TRUE)
  BY <1>4, <1>7, <1>8, <1>9 DEF Plays
<1> QED
  BY <1>4, <1>10 DEF gs, t

(* Packets of size p, as many as n samples need: each begins before the end, *)
(* the last reaches it.                                                      *)
LEMMA Division ==
    ASSUME NEW n \in Nat \ {0}, NEW p \in Nat \ {0}, NEW m, m = (n + p - 1) \div p
    PROVE  /\ m \in Nat /\ n <= m * p
           /\ \A k \in 1 .. m : (k - 1) * p \in Nat /\ (k - 1) * p < n /\ k * p = (k - 1) * p + p
<1> DEFINE x == n + p - 1
           rem == x % p
<1>1. x \in Nat
  OBVIOUS
<1>2. m \in Nat /\ x = p * m + rem /\ rem \in 0 .. p - 1
  BY <1>1
<1> HIDE DEF rem
<1>3. m * p \in Nat /\ p * m = m * p
  BY <1>2
<1>4. n <= m * p /\ m * p <= n + p - 1
  <2> DEFINE y == m * p
  <2>1. y \in Nat /\ n + p - 1 = y + rem
    BY <1>2, <1>3
  <2> HIDE DEF y
  <2>2. n <= y /\ y <= n + p - 1
    BY <1>2, <2>1
  <2> QED
    BY <2>2 DEF y
<1> HIDE DEF x
<1>5. ASSUME NEW k \in 1 .. m
      PROVE  (k - 1) * p \in Nat /\ (k - 1) * p < n /\ k * p = (k - 1) * p + p
  <2>1. k \in Nat /\ k - 1 \in Nat /\ m - k \in Nat
    BY <1>2
  <2>2. (k - 1) * p \in Nat /\ (m - k) * p \in Nat
    BY <2>1
  <2>3. k * p = (k - 1) * p + p
    BY <2>1
  <2>4. m * p = (m - k) * p + k * p
    BY <1>2, <2>1
  <2> DEFINE a == (k - 1) * p
             b == (m - k) * p
             y == m * p
  <2>5. a \in Nat /\ b \in Nat /\ y = b + (a + p) /\ y <= n + p - 1
    BY <1>4, <2>2, <2>3, <2>4
  <2> HIDE DEF a, b, y
  <2>6. a < n
    BY <2>5
  <2> QED
    BY <2>2, <2>3, <2>6 DEF a
<1> QED
  BY <1>2, <1>4, <1>5

(* The packets of a call follow one another from where it starts.            *)
LEMMA PacketsPlay ==
    ASSUME StreamAssumption, internalInfo.channels \in Nat \ {0}, handed \in Nat,
           hostTransport \in TransportData, NEW n \in Nat \ {0}
    PROVE  /\ Packets(n) \in Seq(Frame)
           /\ Plays(Packets(n), hostTransport, Advanced(hostTransport, n), TRUE)
<1> DEFINE p == PacketCapacity
           m == (n + p - 1) \div p
           size(k) == Least(p, n - (k - 1) * p)
           packet(k) == [type |-> "audio", channels |-> internalInfo.channels,
                         samples |-> [i \in 1 .. size(k) |-> handed + (k - 1) * p + i],
                         at |-> Advanced(hostTransport, (k - 1) * p), sure |-> TRUE]
           fs == Packets(n)
           reach(k) == Advanced(hostTransport, Least(k * p, n))
           r == [k \in 0 .. m |-> reach(k)]
<1>1. p \in Nat \ {0}
  BY DEF StreamAssumption
<1>2. fs = [k \in 1 .. m |-> packet(k)]
  BY DEF Packets
<1>3. \A k : /\ size(k) = Least(p, n - (k - 1) * p) /\ reach(k) = Advanced(hostTransport, Least(k * p, n))
             /\ packet(k) = [type |-> "audio", channels |-> internalInfo.channels,
                             samples |-> [i \in 1 .. size(k) |-> handed + (k - 1) * p + i],
                             at |-> Advanced(hostTransport, (k - 1) * p), sure |-> TRUE]
  OBVIOUS
<1> HIDE DEF p
<1>4. /\ m \in Nat /\ n <= m * p
      /\ \A k \in 1 .. m : (k - 1) * p \in Nat /\ (k - 1) * p < n /\ k * p = (k - 1) * p + p
  BY <1>1, Division
<1> HIDE DEF m, size, packet, fs, reach
<1>5. ASSUME NEW k \in 1 .. m
      PROVE  /\ size(k) \in Nat \ {0}
             /\ reach(k - 1) = Advanced(hostTransport, (k - 1) * p)
             /\ reach(k) = Advanced(reach(k - 1), size(k))
             /\ reach(k) \in TransportData
  <2> DEFINE a == (k - 1) * p
  <2>1. a \in Nat /\ a < n /\ k * p = a + p
    BY <1>4
  <2>2. /\ size(k) = Least(p, n - a) /\ reach(k - 1) = Advanced(hostTransport, Least(a, n))
        /\ reach(k) = Advanced(hostTransport, Least(a + p, n))
    BY <1>3, <2>1
  <2> HIDE DEF a
  <2>3. size(k) \in Nat \ {0} /\ Least(a, n) = a /\ Least(a + p, n) = a + size(k)
    BY <1>1, <2>1, <2>2 DEF Least
  <2>4. a + size(k) \in Nat /\ reach(k) = Advanced(hostTransport, a + size(k))
    BY <2>1, <2>2, <2>3
  <2>5. Advanced(Advanced(hostTransport, a), size(k)) = Advanced(hostTransport, a + size(k))
    BY <2>1, <2>3, AdvancesOn
  <2>6. Advanced(hostTransport, a + size(k)) \in TransportData
    BY <2>4, AdvancesOn
  <2> QED
    BY <2>2, <2>3, <2>4, <2>5, <2>6 DEF a
<1>6. ASSUME NEW k \in 1 .. m
      PROVE  packet(k) \in Frame /\ Step(packet(k), reach(k - 1), reach(k), TRUE)
  <2> DEFINE s == [i \in 1 .. size(k) |-> handed + (k - 1) * p + i]
  <2>1. (k - 1) * p \in Nat /\ size(k) \in Nat \ {0}
    BY <1>4, <1>5
  <2>2. s \in Seq(Nat) /\ Len(s) = size(k) /\ s # <<>>
    <3> DEFINE a == (k - 1) * p
    <3>1. a \in Nat
      BY <2>1
    <3> HIDE DEF a
    <3> DEFINE z == [i \in 1 .. size(k) |-> handed + a + i]
    <3>2. z \in Seq(Nat) /\ Len(z) = size(k) /\ z # <<>>
      BY <2>1, <3>1
    <3> QED
      BY <3>2 DEF a
  <2>3. packet(k) = [type |-> "audio", channels |-> internalInfo.channels, samples |-> s,
                     at |-> Advanced(hostTransport, (k - 1) * p), sure |-> TRUE]
    BY <1>3
  <2> HIDE DEF s
  <2>4. packet(k) \in Audio
    <3>1. Advanced(hostTransport, (k - 1) * p) \in TransportData
      BY <2>1, AdvancesOn
    <3> QED
      BY <2>2, <2>3, <3>1 DEF Audio
  <2>5. /\ packet(k).type = "audio" /\ packet(k).samples = s
        /\ packet(k).at = Advanced(hostTransport, (k - 1) * p)
    BY <2>3
  <2>6. Step(packet(k), reach(k - 1), reach(k), TRUE)
    BY <1>5, <2>2, <2>5 DEF Step, After
  <2> QED
    BY <2>4, <2>6 DEF Frame
<1>7. fs \in Seq(Frame) /\ Len(fs) = m /\ \A k \in 1 .. m : fs[k] = packet(k)
  <2>1. m \in Nat /\ \A k \in 1 .. m : packet(k) \in Frame
    BY <1>4, <1>6
  <2> QED
    BY <1>2, <2>1
<1>8. reach(0) = hostTransport /\ reach(m) = Advanced(hostTransport, n)
  <2>1. 0 * p = 0 /\ Least(0, n) = 0 /\ m * p \in Nat
    BY <1>1, <1>4 DEF Least
  <2> DEFINE y == m * p
  <2>2. y \in Nat /\ n <= y
    BY <1>4, <2>1
  <2> HIDE DEF y
  <2>3. Least(y, n) = n
    BY <2>2 DEF Least
  <2>4. Advanced(hostTransport, 0) = hostTransport
    BY AdvancesOn
  <2> QED
    BY <1>3, <2>1, <2>3, <2>4 DEF y
<1>9. \A k \in 0 .. m : reach(k) \in TransportData
  BY <1>4, <1>5, <1>8
<1>10. /\ r \in [0 .. m -> TransportData]
       /\ r[0] = hostTransport /\ r[m] = Advanced(hostTransport, n)
       /\ \A k \in 1 .. m : Step(fs[k], r[k - 1], r[k], TRUE)
  <2>1. \A k \in 1 .. m : k \in 0 .. m /\ k - 1 \in 0 .. m
    BY <1>4
  <2>2. 0 \in 0 .. m /\ m \in 0 .. m
    BY <1>4
  <2> QED
    BY <1>6, <1>7, <1>8, <1>9, <2>1, <2>2
<1> HIDE DEF r
<1>11. Plays(fs, hostTransport, Advanced(hostTransport, n), TRUE)
  BY <1>7, <1>10 DEF Plays
<1> QED
  BY <1>7, <1>11 DEF fs

(* What a step of a batch does, so far as the stream is concerned.           *)
Finishes ==
    \/ /\ pc = "end" /\ pc' = IF inputChanges THEN "lock" ELSE "resize"
       /\ UNCHANGED <<inputListeners, audioInput, transport, held>>
    \/ /\ pc = "lock" /\ pc' = "commands"
       /\ UNCHANGED <<inputListeners, audioInput, transport, held>>
    \/ /\ pc = "commands" /\ pc' = "commands"
       /\ UNCHANGED <<audioInput, transport, held>>
    \/ /\ pc = "commands" /\ pc' = "resize" /\ inputListeners = <<>>
       /\ UNCHANGED <<inputListeners, audioInput, transport, held>>
    \/ /\ \/ pc = "resize" /\ pc' = "notify"
          \/ pc = "notify" /\ pc' = "notify"
       /\ UNCHANGED <<inputListeners, audioInput, transport, held>>
    \/ /\ pc = "notify" /\ pc' = "publish" /\ transport' = Advanced(transport, contained)
       /\ UNCHANGED <<inputListeners, audioInput, held>>
    \/ /\ pc = "publish" /\ pc' = "idle" /\ held = <<>>
       /\ UNCHANGED <<inputListeners, audioInput, transport, held>>
    \/ /\ pc = "publish" /\ pc' = "open" /\ held # <<>> /\ held' = <<>>
       /\ audioInput' = [c \in 1 .. channels |-> <<>>]
       /\ transport' = IF held[1].type = "transport" THEN held[1].transport ELSE transport
       /\ UNCHANGED inputListeners

LEMMA FinishMoves == ASSUME Finish PROVE Finishes
<1>1. ASSUME ReadFlags PROVE Finishes
  BY <1>1 DEF ReadFlags, Finishes, data, playheads, requests
<1>2. ASSUME LockCommands PROVE Finishes
  BY <1>2 DEF LockCommands, Finishes, data, playheads
<1>3. ASSUME ApplyAdd PROVE Finishes
  BY <1>3 DEF ApplyAdd, Finishes, data, playheads, processor
<1>4. ASSUME ApplyRemove PROVE Finishes
  BY <1>4 DEF ApplyRemove, Finishes, data, playheads, processor
<1>5. ASSUME UnlockCommands PROVE Finishes
  BY <1>5 DEF UnlockCommands, Finishes, data, playheads
<1>6. ASSUME ResizeHistory PROVE Finishes
  BY <1>6 DEF ResizeHistory, Finishes, playheads, requests
<1>7. ASSUME Notify PROVE Finishes
  BY <1>7 DEF Notify, Finishes, data, playheads, requests
<1>8. ASSUME Advance PROVE Finishes
  BY <1>8 DEF Advance, Finishes, data, requests
<1>9. ASSUME Publish PROVE Finishes
  <2>1. /\ pc = "publish" /\ held' = <<>> /\ UNCHANGED inputListeners
        /\ \/ held = <<>> /\ pc' = "idle" /\ UNCHANGED <<transport, audioInput>>
           \/ held # <<>> /\ pc' = "open" /\ Begin /\ ApplyChange(held[1])
    BY <1>9 DEF Publish, requests
  <2> QED
    BY <2>1 DEF Finishes, Begin, ApplyChange
<1> QED
  BY <1>1, <1>2, <1>3, <1>4, <1>5, <1>6, <1>7, <1>8, <1>9 DEF Finish

(* The listeners fare in the stream as with the Output by itself.            *)
LEMMA FinishListens == ASSUME Listening, Finish PROVE Listening'
<1>1. CASE ReadFlags
  BY <1>1, ReadFlagsKeeps
<1>2. CASE LockCommands
  BY <1>2, LockKeeps
<1>3. CASE ApplyAdd
  BY <1>3, AddKeeps
<1>4. CASE ApplyRemove
  BY <1>4, RemoveKeeps
<1>5. CASE UnlockCommands
  BY <1>5, UnlockKeeps
<1>6. CASE ResizeHistory
  BY <1>6, ResizeKeeps
<1>7. CASE Notify
  BY <1>7, NotifyKeeps
<1>8. CASE Advance
  BY <1>8, AdvanceKeeps
<1>9. CASE Publish
  BY <1>9, PublishKeeps
<1> QED
  BY <1>1, <1>2, <1>3, <1>4, <1>5, <1>6, <1>7, <1>8, <1>9 DEF Finish

LEMMA StillListens == ASSUME Listening, UNCHANGED vars PROVE Listening'
<1>1. UNCHANGED core
  BY DEF vars, core, data, infos, requests, mutexes, processor, callers, ghosts
<1> QED
  BY <1>1, UntouchedKeeps

(* The Output is at a place.                                                 *)
LEMMA SomePlace == ASSUME FramesOK PROVE contained \in Nat /\ Place \in TransportData
<1>1. audioInput \in Seq(Seq(Nat)) /\ transport \in TransportData
  BY DEF FramesOK
<1>2. Len(audioInput) \in Nat /\ (Len(audioInput) # 0 => audioInput[1] \in Seq(Nat))
  BY <1>1
<1>3. contained \in Nat
  BY <1>2 DEF contained, channels
<1>4. held # <<>> /\ held[1].type = "transport" => held[1].transport \in TransportData
  BY DEF FramesOK, Change
<1> QED
  BY <1>1, <1>3, <1>4, AdvancesOn DEF Place

LEMMA SamePlace == ASSUME UNCHANGED <<pc, audioInput, transport, held>> PROVE Place' = Place
BY DEF Place, contained, channels

(* A batch that takes its time changes nothing between the Input and itself. *)
LEMMA OutputKeepsTrack ==
    ASSUME OnTrack, Place' = Place,
           UNCHANGED <<fifo, pending, callLost, inputTransport, framesWereDropped,
                       problemsPushingPlayHead>>
    PROVE  OnTrack'
BY DEF OnTrack

(* Calls that send no audio.                                                 *)
LEMMA CallsKeepTrack ==
    ASSUME OutputAssumption, SInv,
           \/ \E c \in ChannelCounts, suspended \in BOOLEAN : InitializeInfo(c, suspended)
           \/ \E t \in HostTransports \cup {[hostTransport EXCEPT !.playing = ~@]} : HostMoves(t)
           \/ IsAnyoneListening \/ DestroyInput
    PROVE  FramesOK' /\ Ending' /\ OnTrack'
<1>1. ASSUME NEW c \in ChannelCounts, NEW suspended \in BOOLEAN, InitializeInfo(c, suspended)
      PROVE  FramesOK' /\ Ending' /\ OnTrack'
  <2> DEFINE f == [type |-> "info", channels |-> c]
  <2>1. /\ ~released /\ internalInfo'.channels = c /\ fifo' \in {fifo, Append(fifo, f)}
        /\ UNCHANGED <<vars, released, thread, inputTransport, hostTransport, handed, pending,
                       callLost, framesWereDropped, problemsPushingPlayHead>>
    BY <1>1 DEF InitializeInfo, MayCall, Put, Refuse, queueVars
  <2>2. UNCHANGED <<pc, audioInput, transport, held, inputListeners>>
    BY <2>1 DEF vars, data, playheads, requests, processor
  <2>3. c \in Nat /\ f \in Frame /\ f.type = "info"
    BY DEF OutputAssumption, Frame, Change
  <2>4. \A to : After(f, to) = to
    BY <2>3 DEF After
  <2> HIDE DEF f
  <2>5. fifo' \in Seq(Frame)
    <3>1. fifo \in Seq(Frame)
      BY DEF SInv, FramesOK
    <3>2. Append(fifo, f) \in Seq(Frame)
      BY <2>3, <3>1
    <3> QED
      BY <2>1, <3>1, <3>2
  <2>6. FramesOK'
    BY <2>1, <2>2, <2>3, <2>5 DEF SInv, FramesOK
  <2>7. Ending'
    BY <2>1, <2>2 DEF SInv, Ending
  <2>8. OnTrack'
    <3>1. PICK to \in TransportData :
            Plays(fifo, Place, to, FALSE) /\ (~callLost => Plays(pending, to, inputTransport, TRUE))
      BY DEF SInv, OnTrack
    <3>2. Plays(Append(fifo, f), Place, After(f, to), FALSE)
      BY <2>3, <3>1, PlaysOn DEF SInv, FramesOK
    <3>3. Plays(fifo', Place', to, FALSE)
      BY <2>1, <2>2, <2>4, <3>1, <3>2, SamePlace
    <3>4. \E t \in TransportData :
             /\ Plays(fifo', Place', t, FALSE)
             /\ ~callLost' => Plays(pending', t, inputTransport', TRUE)
      BY <2>1, <3>1, <3>3
    <3> QED
      BY <2>1, <3>4 DEF SInv, OnTrack
  <2> QED
    BY <2>6, <2>7, <2>8
<1>2. ASSUME \/ \E t \in HostTransports \cup {[hostTransport EXCEPT !.playing = ~@]} : HostMoves(t)
             \/ IsAnyoneListening \/ DestroyInput
      PROVE  FramesOK' /\ Ending' /\ OnTrack'
  <2>1. /\ released' => pending = <<>>
        /\ released => released'
        /\ UNCHANGED <<vars, fifo, thread, internalInfo, inputTransport, handed, pending,
                       callLost, framesWereDropped, problemsPushingPlayHead>>
        /\ hostTransport' \in TransportData
    <3>1. hostTransport \in TransportData
      BY DEF SInv, FramesOK
    <3>2. CASE \E t \in HostTransports \cup {[hostTransport EXCEPT !.playing = ~@]} : HostMoves(t)
      <4>1. [hostTransport EXCEPT !.playing = ~@] \in TransportData
        BY <3>1 DEF TransportData
      <4> QED
        BY <3>2, <4>1 DEF OutputAssumption, HostMoves, MayCall, queueVars
    <3>3. CASE IsAnyoneListening
      BY <3>1, <3>3 DEF IsAnyoneListening, MayCall, queueVars
    <3>4. CASE DestroyInput
      BY <3>1, <3>4 DEF DestroyInput, Release, inputVars
    <3> QED
      BY <1>2, <3>2, <3>3, <3>4
  <2>2. UNCHANGED <<pc, audioInput, transport, held, inputListeners>>
    BY <2>1 DEF vars, data, playheads, requests, processor
  <2>3. FramesOK'
    BY <2>1, <2>2 DEF SInv, FramesOK
  <2>4. Ending'
    BY <2>1, <2>2 DEF SInv, Ending
  <2>5. OnTrack'
    BY <2>1, <2>2, SamePlace, OutputKeepsTrack DEF SInv
  <2> QED
    BY <2>3, <2>4, <2>5
<1> QED
  BY <1>1, <1>2

(* Audio is announced by its place, unless the last call lost nothing and it *)
(* goes on from there.                                                       *)
LEMMA ProcessKeepsTrack ==
    ASSUME StreamAssumption, SInv, NEW n \in 1 .. MaxCallSize, ProcessIncomingRTAudio(n)
    PROVE  FramesOK' /\ Ending' /\ OnTrack'
<1> DEFINE h == hostTransport
           goal == Advanced(h, n)
           ps == Packets(n)
<1>1. /\ pending = <<>> /\ ~released /\ internalInfo.channels > 0
      /\ pending' = (IF Discontinuity \/ h # inputTransport THEN <<Transport(h)>> ELSE <<>>) \o ps
      /\ inputTransport' = goal /\ hostTransport' = goal /\ handed' = handed + n
      /\ callLost' = FALSE
      /\ UNCHANGED <<vars, fifo, released, thread, internalInfo>>
  BY DEF ProcessIncomingRTAudio, MayCall, queueVars
<1>2. UNCHANGED <<pc, audioInput, transport, held, inputListeners>>
  BY <1>1 DEF vars, data, playheads, requests, processor
<1>3. /\ n \in Nat \ {0} /\ h \in TransportData /\ handed \in Nat
      /\ internalInfo.channels \in Nat \ {0}
  BY <1>1 DEF StreamAssumption, SInv, FramesOK
<1>4. ps \in Seq(Frame) /\ Plays(ps, h, goal, TRUE)
  BY <1>3, PacketsPlay
<1>5. goal \in TransportData /\ handed + n \in Nat
  BY <1>3, AdvancesOn
<1> HIDE DEF h, ps, goal
<1>6. PICK to \in TransportData :
        /\ Plays(fifo, Place, to, FALSE)
        /\ ~callLost => Plays(<<>>, to, inputTransport, TRUE)
  BY <1>1 DEF SInv, OnTrack
<1>7. pending' \in Seq(Frame) /\ Plays(pending', to, goal, TRUE)
  <2>1. CASE Discontinuity \/ h # inputTransport
    <3>1. pending' = <<Transport(h)>> \o ps
      BY <1>1, <2>1
    <3> QED
      BY <1>3, <1>4, <3>1, PlaysAfterJump
  <2>2. CASE ~(Discontinuity \/ h # inputTransport)
    <3>1. ~callLost
      BY <2>2 DEF Discontinuity, SInv, OnTrack
    <3>2. to = h
      BY <1>6, <2>2, <3>1, PlaysNothing
    <3>3. pending' = ps
      BY <1>1, <1>4, <2>2
    <3> QED
      BY <1>4, <3>2, <3>3
  <2> QED
    BY <2>1, <2>2
<1>8. FramesOK'
  BY <1>1, <1>2, <1>7, <1>5 DEF SInv, FramesOK
<1>9. Ending'
  BY <1>1, <1>2 DEF SInv, Ending
<1>10. OnTrack'
  <2>1. Plays(fifo', Place', to, FALSE) /\ Plays(pending', to, inputTransport', TRUE)
    BY <1>1, <1>2, <1>6, <1>7, SamePlace
  <2> QED
    BY <1>1, <2>1 DEF OnTrack
<1> QED
  BY <1>8, <1>9, <1>10

(* The next frame of the call gets into the queue.                           *)
LEMMA SubmitKeepsTrack == ASSUME SInv, SubmitFrame PROVE FramesOK' /\ Ending' /\ OnTrack'
<1> DEFINE f == Head(pending)
           g == IF f.type = "audio" THEN [f EXCEPT !.sure = ~callLost] ELSE f
<1>1. /\ pending # <<>> /\ fifo' = Append(fifo, g) /\ pending' = Tail(pending)
      /\ UNCHANGED <<vars, released, thread, internalInfo, inputTransport, hostTransport,
                     handed, callLost, framesWereDropped, problemsPushingPlayHead>>
  BY DEF SubmitFrame, Put
<1>2. UNCHANGED <<pc, audioInput, transport, held, inputListeners>>
  BY <1>1 DEF vars, data, playheads, requests, processor
<1>3. fifo \in Seq(Frame) /\ pending \in Seq(Frame) /\ callLost \in BOOLEAN
  BY DEF SInv, FramesOK
<1>4. f \in Frame
  BY <1>1, <1>3
<1>5. /\ g \in Frame /\ \A at : After(g, at) = After(f, at)
      /\ g.type = "audio" => f.type = "audio" /\ g.at = f.at /\ g.sure = ~callLost
  <2>1. CASE f \in Audio
    <3>1. f.type = "audio" /\ g = [f EXCEPT !.sure = ~callLost]
      BY <2>1 DEF Audio
    <3> HIDE DEF f, g
    <3>2. /\ g \in Audio /\ g.type = "audio" /\ g.samples = f.samples /\ g.at = f.at
          /\ g.sure = ~callLost
      BY <1>3, <2>1, <3>1 DEF Audio
    <3> QED
      BY <3>1, <3>2 DEF After, Frame
  <2>2. CASE f \in Change
    <3>1. f.type # "audio"
      BY <2>2 DEF Change
    <3> QED
      BY <1>4, <3>1
  <2> QED
    BY <1>4, <2>1, <2>2 DEF Frame
<1> HIDE DEF f, g
<1>6. PICK to \in TransportData :
        /\ Plays(fifo, Place, to, FALSE)
        /\ ~callLost => Plays(pending, to, inputTransport, TRUE)
  BY DEF SInv, OnTrack
<1>7. ~callLost => /\ f.type = "audio" => f.at = to
                   /\ Plays(Tail(pending), After(f, to), inputTransport, TRUE)
  <2> SUFFICES ASSUME ~callLost
               PROVE  /\ f.type = "audio" => f.at = to
                      /\ Plays(Tail(pending), After(f, to), inputTransport, TRUE)
    OBVIOUS
  <2>1. /\ pending \in Seq(Frame) /\ pending # <<>> /\ f = Head(pending)
        /\ Plays(pending, to, inputTransport, TRUE)
    BY <1>1, <1>3, <1>6 DEF f
  <2>2. Plays(Tail(pending), After(f, to), inputTransport, TRUE)
    BY <2>1, PlaysFrom
  <2>3. f.type = "audio" => f.at = to
    BY <2>1, PlaysFrom
  <2> QED
    BY <2>2, <2>3
<1>8. Plays(Append(fifo, g), Place, After(g, to), FALSE)
  BY <1>3, <1>5, <1>6, <1>7, PlaysOn
<1>9. fifo' \in Seq(Frame) /\ pending' \in Seq(Frame)
  BY <1>1, <1>3, <1>5
<1>10. FramesOK'
  BY <1>1, <1>2, <1>9 DEF SInv, FramesOK
<1>11. Ending'
  BY <1>1, <1>2 DEF SInv, Ending
<1>12. OnTrack'
  <2>1. After(f, to) \in TransportData
    BY <1>4, Places
  <2>2. Plays(fifo', Place', After(f, to), FALSE)
    BY <1>1, <1>2, <1>5, <1>8, SamePlace
  <2>3. ~callLost' => Plays(pending', After(f, to), inputTransport', TRUE)
    BY <1>1, <1>7
  <2> QED
    BY <1>1, <2>1, <2>2, <2>3 DEF SInv, OnTrack
<1> QED
  BY <1>10, <1>11, <1>12

(* Or it does not, which is noted.                                           *)
LEMMA DropKeepsTrack == ASSUME SInv, DropFrame PROVE FramesOK' /\ Ending' /\ OnTrack'
<1>1. /\ pending # <<>> /\ pending' = Tail(pending) /\ callLost' = TRUE
      /\ framesWereDropped' \/ problemsPushingPlayHead'
      /\ UNCHANGED <<vars, fifo, released, thread, internalInfo, inputTransport, hostTransport,
                     handed>>
  BY DEF DropFrame, NoteDrop, Refuse, queueVars
<1>2. UNCHANGED <<pc, audioInput, transport, held, inputListeners>>
  BY <1>1 DEF vars, data, playheads, requests, processor
<1>3. pending' \in Seq(Frame)
  BY <1>1 DEF SInv, FramesOK
<1>4. FramesOK'
  BY <1>1, <1>2, <1>3 DEF SInv, FramesOK
<1>5. Ending'
  BY <1>1, <1>2 DEF SInv, Ending
<1>6. OnTrack'
  <2>1. \E to \in TransportData : Plays(fifo', Place', to, FALSE)
    BY <1>1, <1>2, SamePlace DEF SInv, OnTrack
  <2> QED
    BY <1>1, <2>1 DEF OnTrack
<1> QED
  BY <1>4, <1>5, <1>6

-----------------------------------------------------------------------------
(* The async thread.                                                         *)

(* A batch begins where the last one ended.                                  *)
LEMMA BeginKeepsTrack ==
    ASSUME SInv, AsyncBegin \/ AsyncRelease
    PROVE  Listening' /\ FramesOK' /\ Ending' /\ OnTrack'
<1>1. /\ thread = "waiting" /\ BeginBatch
      /\ \/ thread' = "opened"
         \/ thread' = "final" /\ fifo = <<>> /\ released
      /\ UNCHANGED <<fifo, released, inputVars>>
  BY DEF AsyncBegin, AsyncRelease, OpenBatch, LeaveLoop
<1>2. /\ pc = "idle" /\ pc' = "open" /\ audioInput' = [c \in 1 .. channels |-> <<>>]
      /\ UNCHANGED <<transport, held, inputListeners>>
  BY <1>1 DEF BeginBatch, Begin, playheads, requests
<1>3. held = <<>>
  BY <1>2 DEF SInv, FramesOK
<1>4. channels \in Nat
  BY DEF SInv, FramesOK, channels
<1>5. audioInput' \in Seq(Seq(Nat)) /\ contained' = 0
  BY <1>2, <1>4, Emptied
<1>6. Listening'
  BY <1>1, BeginKeeps DEF SInv
<1>7. FramesOK'
  BY <1>1, <1>2, <1>3, <1>5 DEF SInv, FramesOK, inputVars
<1>8. Ending'
  BY <1>1, <1>2, <1>3 DEF SInv, Ending, inputVars
<1>9. Place' = Place
  <2>1. Place = transport /\ Place' = Advanced(transport, 0)
    BY <1>2, <1>3, <1>5 DEF Place
  <2>2. transport \in TransportData
    BY DEF SInv, FramesOK
  <2> QED
    BY <2>1, <2>2, AdvancesOn
<1>10. OnTrack'
  BY <1>1, <1>9, OutputKeepsTrack DEF SInv, inputVars
<1> QED
  BY <1>6, <1>7, <1>8, <1>10

(* What is handled is at the place where the Output is, if it is sure.       *)
LEMMA InPlaceWhenHandled ==
    ASSUME SInv, AsyncHandle, NEW f, f = Head(fifo)
    PROVE  /\ f \in Frame /\ pc = "open" /\ held = <<>> /\ thread \in {"opened", "open"}
           /\ Place = Advanced(transport, contained)
           /\ f.type = "audio" /\ f.sure => f.at = Place
           /\ \E to \in TransportData :
                 /\ Plays(Tail(fifo), After(f, Place), to, FALSE)
                 /\ ~callLost => Plays(pending, to, inputTransport, TRUE)
<1>1. fifo # <<>> /\ pc = "open"
  BY DEF AsyncHandle, Take, HandleFrame
<1>2. held = <<>> /\ fifo \in Seq(Frame)
  BY <1>1 DEF SInv, FramesOK
<1>3. Place = Advanced(transport, contained)
  BY <1>1, <1>2 DEF Place
<1>4. thread \in {"opened", "open"}
  BY DEF AsyncHandle, Take
<1>5. PICK to \in TransportData :
        /\ Plays(fifo, Place, to, FALSE)
        /\ ~callLost => Plays(pending, to, inputTransport, TRUE)
  BY DEF SInv, OnTrack
<1>6. /\ f \in Frame
      /\ f.type = "audio" /\ (FALSE \/ f.sure) => f.at = Place
      /\ Plays(Tail(fifo), After(f, Place), to, FALSE)
  BY <1>1, <1>2, <1>5, PlaysFrom
<1> QED
  BY <1>1, <1>2, <1>3, <1>4, <1>5, <1>6

(* The Output does with a frame what the frame says.                         *)
LEMMA HandleMoves ==
    ASSUME FramesOK, held = <<>>, pc = "open", NEW f \in Frame, HandleFrame(f)
    PROVE  /\ pc' \in {"open", "end"} /\ audioInput' \in Seq(Seq(Nat)) /\ transport' \in TransportData
           /\ held' = <<>> \/ (held' = <<f>> /\ f \in Change /\ pc' = "end")
           /\ Place' = After(f, Place)
<1>1. contained \in Nat /\ transport \in TransportData /\ audioInput \in Seq(Seq(Nat))
  BY SomePlace DEF FramesOK
<1>2. Place = Advanced(transport, contained)
  BY DEF Place
<1>3. CASE f \in Audio
  <2> DEFINE s == f.samples
  <2>1. f.type = "audio" /\ f.channels \in Nat \ {0} /\ s \in Seq(Nat)
    BY <1>3 DEF Audio
  <2>2. /\ audioInput' = Extend(audioInput, contained, f.channels, s)
        /\ UNCHANGED <<pc, held, transport>>
    BY <2>1 DEF HandleFrame, HandleAudio, Extend, channels, processor, playheads
  <2>3. (Len(audioInput) = 0 => contained = 0) /\ (Len(audioInput) # 0 => contained = Len(audioInput[1]))
    BY DEF contained, channels
  <2> HIDE DEF s
  <2>4. Continues(audioInput', audioInput, contained, f.channels, s)
    BY <1>1, <2>1, <2>2, <2>3, Extended
  <2>5. audioInput' \in Seq(Seq(Nat)) /\ contained' = contained + Len(s)
    BY <2>1, <2>4 DEF Continues, contained, channels
  <2>6. Place' = Advanced(transport, contained + Len(s))
    BY <2>2, <2>5 DEF Place
  <2>7. After(f, Place) = Advanced(Advanced(transport, contained), Len(s))
    BY <1>2, <2>1 DEF After, s
  <2>8. Len(s) \in Nat
    BY <2>1
  <2>9. Place' = After(f, Place)
    BY <1>1, <2>6, <2>7, <2>8, AdvancesOn
  <2> QED
    BY <1>1, <2>2, <2>5, <2>9
<1>4. CASE f \in Change
  <2>1. f.type # "audio" /\ (f.type = "transport" => f.transport \in TransportData)
    BY <1>4 DEF Change
  <2>2. HandleChange(f)
    BY <2>1 DEF HandleFrame
  <2>3. audioInput' = audioInput /\ contained' = contained
    BY <2>2 DEF HandleChange, data, contained, channels
  <2>4. CASE contained > 0
    <3>1. pc' = "end" /\ held' = <<f>> /\ transport' = transport
      BY <2>2, <2>4 DEF HandleChange
    <3>2. held' # <<>> /\ held'[1] = f
      BY <3>1
    <3>3. Place' = After(f, Place)
      BY <1>2, <2>1, <2>3, <3>1, <3>2 DEF Place, After
    <3> QED
      BY <1>1, <1>4, <2>3, <3>1, <3>3
  <2>5. CASE ~(contained > 0)
    <3>1. /\ UNCHANGED <<pc, held>>
          /\ transport' = IF f.type = "transport" THEN f.transport ELSE transport
      BY <2>2, <2>5 DEF HandleChange, ApplyChange
    <3>2. contained = 0
      BY <1>1, <2>5
    <3>4. transport' \in TransportData
      BY <1>1, <2>1, <3>1
    <3>3. Place' = transport' /\ Place = transport
      <4>1. Place' = Advanced(transport', 0) /\ Place = Advanced(transport, 0)
        BY <1>2, <2>3, <3>1, <3>2 DEF Place
      <4> QED
        BY <1>1, <3>4, <4>1, AdvancesOn
    <3>5. Place' = After(f, Place)
      BY <1>1, <2>1, <3>1, <3>3, <3>4 DEF After
    <3> QED
      BY <1>1, <2>3, <3>1, <3>4, <3>5
  <2> QED
    BY <2>4, <2>5
<1> QED
  BY <1>3, <1>4 DEF Frame

(* The listeners are to be told of what the frame changes.                   *)
LEMMA HandleListens ==
    ASSUME Listening, FramesOK, held = <<>>, pc = "open", NEW f \in Frame, HandleFrame(f),
           UNCHANGED sent
    PROVE  Listening'
<1>1. CASE f \in Audio
  <2>1. HandleAudio(f)
    BY <1>1 DEF HandleFrame, Audio
  <2>2. UNCHANGED <<pc, info, oldInfo, inputInfo, producerInfoChange, consumerInfoChange,
                    inputChanges, signalChange, listeners, todo, inputListeners, asked,
                    quiet, told, heard, held, commandMutex>>
    BY <2>1 DEF HandleAudio, infos, requests, mutexes, processor, callers, ghosts
  <2>3. audioInput' \in Seq(Seq(Nat))
    BY HandleMoves
  <2>4. TypeOK'
    BY <2>2, <2>3 DEF Listening, TypeOK
  <2>5. Registered'
    BY <2>2 DEF Listening, Registered
  <2>6. Silenced'
    BY <2>2 DEF Listening, Silenced
  <2>7. Informed'
    BY <2>2 DEF Listening, Informed, Untold
  <2> QED
    BY <2>4, <2>5, <2>6, <2>7 DEF Listening
<1>2. CASE f \in Change
  <2>1. HandleChange(f)
    BY <1>2 DEF HandleFrame, Change
  <2>2. sent' \in [samples : Nat, channels : Nat, infos : Nat]
    BY DEF Listening, TypeOK
  <2> QED
    BY <1>2, <2>1, <2>2, HandleChangeListens
<1> QED
  BY <1>1, <1>2 DEF Frame

LEMMA HandleKeepsTrack ==
    ASSUME SInv, AsyncHandle
    PROVE  Listening' /\ FramesOK' /\ Ending' /\ OnTrack'
<1> DEFINE f == Head(fifo)
<1>1. /\ HandleFrame(f) /\ fifo # <<>> /\ fifo' = Tail(fifo) /\ thread' = "open"
      /\ UNCHANGED <<released, inputVars>>
  BY DEF AsyncHandle, Take
<1>2. f \in Frame /\ pc = "open" /\ held = <<>>
  BY InPlaceWhenHandled
<1>3. PICK to \in TransportData :
         /\ Plays(Tail(fifo), After(f, Place), to, FALSE)
         /\ ~callLost => Plays(pending, to, inputTransport, TRUE)
  BY InPlaceWhenHandled
<1> HIDE DEF f
<1>4. /\ pc' \in {"open", "end"} /\ audioInput' \in Seq(Seq(Nat)) /\ transport' \in TransportData
      /\ held' = <<>> \/ (held' = <<f>> /\ f \in Change /\ pc' = "end")
      /\ Place' = After(f, Place)
  BY <1>1, <1>2, HandleMoves DEF SInv
<1>5. UNCHANGED inputListeners
  BY <1>1 DEF HandleFrame, HandleAudio, HandleChange, requests
<1>6. Listening'
  BY <1>1, <1>2, HandleListens DEF SInv, AsyncHandle
<1>7. fifo' \in Seq(Frame)
  BY <1>1 DEF SInv, FramesOK
<1>8. held' = <<>> \/ (held' = <<held'[1]>> /\ held'[1] \in Change /\ pc' = "end")
  <2>1. held' = <<f>> => held'[1] = f
    OBVIOUS
  <2> QED
    BY <1>4, <2>1
<1>9. FramesOK'
  BY <1>1, <1>4, <1>7, <1>8 DEF SInv, FramesOK, inputVars
<1>10. Ending'
  BY <1>1, <1>2 DEF SInv, Ending, inputVars
<1>11. OnTrack'
  <2>1. Plays(fifo', Place', to, FALSE) /\ (~callLost' => Plays(pending', to, inputTransport', TRUE))
    BY <1>1, <1>4, <1>3 DEF inputVars
  <2>2. callLost' => framesWereDropped' \/ problemsPushingPlayHead'
    BY <1>1 DEF SInv, OnTrack, inputVars
  <2> QED
    BY <2>1, <2>2 DEF OnTrack
<1> QED
  BY <1>6, <1>9, <1>10, <1>11

LEMMA EndKeepsTrack ==
    ASSUME SInv, AsyncEnd \/ AsyncDone
    PROVE  Listening' /\ FramesOK' /\ Ending' /\ OnTrack'
<1>1. CASE AsyncEnd
  <2>1. /\ pc = "open" /\ pc' = "end" /\ UNCHANGED <<fifo, released, inputVars>>
        /\ thread' \in {"waiting", thread}
        /\ UNCHANGED <<transport, held, audioInput, inputListeners>>
    BY <1>1 DEF AsyncEnd, CloseBatch, EndBatch, queueVars, data, playheads, requests
  <2>2. Listening'
    BY <1>1, EndKeeps DEF SInv, AsyncEnd
  <2>3. held = <<>>
    BY <2>1 DEF SInv, FramesOK
  <2>4. FramesOK'
    BY <2>1, <2>3 DEF SInv, FramesOK, inputVars
  <2>5. Ending'
    BY <2>1 DEF SInv, Ending, inputVars
  <2>6. Place' = Place
    BY <2>1, <2>3 DEF Place, contained, channels
  <2>7. OnTrack'
    BY <2>1, <2>6, OutputKeepsTrack DEF SInv, inputVars
  <2> QED
    BY <2>2, <2>4, <2>5, <2>7
<1>2. CASE AsyncDone
  <2>1. thread = "final" /\ pc = "idle" /\ thread' = "done" /\ UNCHANGED <<vars, fifo, released, inputVars>>
    BY <1>2 DEF AsyncDone, Return
  <2>2. UNCHANGED <<pc, transport, held, audioInput, inputListeners>>
    BY <2>1 DEF vars, data, playheads, requests, processor
  <2>3. Listening'
    BY <2>1, StillListens DEF SInv
  <2>4. FramesOK'
    BY <2>1, <2>2 DEF SInv, FramesOK, inputVars
  <2>5. Ending'
    BY <2>1, <2>2 DEF SInv, Ending, inputVars
  <2>6. OnTrack'
    BY <2>1, <2>2, SamePlace, OutputKeepsTrack DEF SInv, inputVars
  <2> QED
    BY <2>3, <2>4, <2>5, <2>6
<1> QED
  BY <1>1, <1>2

(* The batch ends: the playhead comes to where its audio ends.               *)
LEMMA FinishKeepsTrack ==
    ASSUME SInv, Finish, UNCHANGED <<queueVars, inputVars>>
    PROVE  Listening' /\ FramesOK' /\ Ending' /\ OnTrack'
<1>1. Listening'
  BY FinishListens DEF SInv
<1>2. Finishes
  BY FinishMoves
<1>3. contained \in Nat /\ transport \in TransportData /\ channels \in Nat /\ audioInput \in Seq(Seq(Nat))
  BY SomePlace DEF SInv, FramesOK, channels
<1>4. held # <<>> => held[1] \in Change /\ (held[1].type = "transport" => held[1].transport \in TransportData)
  BY DEF SInv, FramesOK, Change
<1>5. ~inputChanges => inputListeners = <<>>
  BY DEF SInv, Listening, Registered
<1>6. /\ audioInput' \in Seq(Seq(Nat)) /\ transport' \in TransportData
      /\ held' \in {held, <<>>} /\ pc' # "dead"
      /\ held' # <<>> => pc' \notin {"idle", "open"}
      /\ Place' = Place
      /\ held = <<>> => pc' # "open"
  <2>1. CASE pc = "publish" /\ pc' = "open"
    <3>1. /\ held # <<>> /\ held' = <<>> /\ audioInput' = [c \in 1 .. channels |-> <<>>]
          /\ transport' = IF held[1].type = "transport" THEN held[1].transport ELSE transport
      BY <1>2, <2>1 DEF Finishes
    <3>2. audioInput' \in Seq(Seq(Nat)) /\ contained' = 0
      BY <1>3, <3>1, Emptied
    <3>3. transport' \in TransportData
      BY <1>3, <1>4, <3>1
    <3>4. Place' = transport'
      <4>1. Place' = Advanced(transport', 0)
        BY <2>1, <3>1, <3>2 DEF Place
      <4> QED
        BY <3>3, <4>1, AdvancesOn
    <3>5. Place = transport'
      BY <2>1, <3>1 DEF Place
    <3> QED
      BY <2>1, <3>1, <3>2, <3>3, <3>4, <3>5
  <2>2. CASE pc = "notify" /\ pc' = "publish"
    <3>1. transport' = Advanced(transport, contained) /\ UNCHANGED <<audioInput, held>>
      BY <1>2, <2>2 DEF Finishes
    <3>2. Place' = Place
      BY <2>2, <3>1 DEF Place
    <3>3. transport' \in TransportData
      BY <1>3, <3>1, AdvancesOn
    <3> QED
      BY <1>3, <2>2, <3>1, <3>2, <3>3
  <2>3. CASE pc = "publish" /\ pc' = "idle"
    <3>1. held = <<>> /\ UNCHANGED <<audioInput, transport, held>>
      BY <1>2, <2>3 DEF Finishes
    <3>2. Place' = Place
      BY <2>3, <3>1 DEF Place
    <3> QED
      BY <1>3, <2>3, <3>1, <3>2
  <2>4. CASE pc # "publish" /\ pc' # "publish"
    <3>1. /\ UNCHANGED <<audioInput, transport, held>>
          /\ {pc, pc'} \subseteq {"end", "lock", "commands", "resize", "notify"}
      BY <1>2, <2>4 DEF Finishes
    <3>2. contained' = contained
      BY <3>1 DEF contained, channels
    <3>3. Place' = Place
      BY <3>1, <3>2 DEF Place
    <3> QED
      BY <1>3, <3>1, <3>3
  <2> QED
    BY <1>2, <2>1, <2>2, <2>3, <2>4 DEF Finishes
<1>7. FramesOK'
  BY <1>6 DEF SInv, FramesOK, queueVars, inputVars
<1>8. Ending'
  <2>1. released' => pending' = <<>>
    BY DEF SInv, Ending, queueVars, inputVars
  <2>2. thread' \in {"final", "done"} => released' /\ fifo' = <<>> /\ held' = <<>>
    BY <1>6 DEF SInv, Ending, queueVars
  <2>3. thread' = "final" /\ pc' \in {"resize", "notify", "publish", "idle"} => inputListeners' = <<>>
    BY <1>2, <1>5 DEF SInv, Ending, queueVars, Finishes
  <2>4. thread' # "done"
    BY <1>2 DEF SInv, Ending, queueVars, Finishes
  <2> QED
    BY <2>1, <2>2, <2>3, <2>4 DEF Ending
<1>9. OnTrack'
  BY <1>6, OutputKeepsTrack DEF SInv, queueVars, inputVars
<1> QED
  BY <1>1, <1>7, <1>8, <1>9

(* Commands that come before the end.                                        *)
LEMMA CommandsKeepTrack ==
    ASSUME OutputAssumption, SInv, ~released, Commands, UNCHANGED <<queueVars, inputVars>>
    PROVE  Listening' /\ FramesOK' /\ Ending' /\ OnTrack'
<1>1. UNCHANGED <<pc, transport, held, audioInput>> /\ Listening'
  <2>1. ASSUME NEW l \in Listener, AddListener(l) \/ RemoveListener(l)
        PROVE  UNCHANGED <<pc, transport, held, audioInput>> /\ Listening'
    <3>1. Listening'
      BY <2>1, CommandKeeps DEF SInv
    <3>2. UNCHANGED <<pc, transport, held, audioInput>>
      BY <2>1 DEF AddListener, RemoveListener, data, playheads, processor
    <3> QED
      BY <3>1, <3>2
  <2>2. ASSUME NEW consumer \in Consumers, ModifyConsumerInfo(consumer)
        PROVE  UNCHANGED <<pc, transport, held, audioInput>> /\ Listening'
    <3>1. Listening'
      BY <2>2, ModifyKeeps DEF SInv
    <3>2. UNCHANGED <<pc, transport, held, audioInput>>
      BY <2>2 DEF ModifyConsumerInfo, data, playheads, processor
    <3> QED
      BY <3>1, <3>2
  <2> QED
    BY <2>1, <2>2 DEF Commands
<1>2. FramesOK'
  BY <1>1 DEF SInv, FramesOK, queueVars, inputVars
<1>3. Ending'
  BY <1>1 DEF SInv, Ending, queueVars, inputVars
<1>4. OnTrack'
  BY <1>1, SamePlace, OutputKeepsTrack DEF SInv, queueVars, inputVars
<1> QED
  BY <1>1, <1>2, <1>3, <1>4

(* The thread of the stream is in the middle of a batch when a listener      *)
(* spools, which moves no frame.                                             *)
LEMMA SpoolKeepsTrack ==
    ASSUME SInv, Spool, UNCHANGED <<queueVars, inputVars>>
    PROVE  Listening' /\ FramesOK' /\ Ending' /\ OnTrack'
<1>1. UNCHANGED core
  BY DEF Spool, Merge, core, infos, requests, mutexes, processor, callers, ghosts
<1>2. Listening'
  BY <1>1, UntouchedKeeps DEF SInv
<1>3. UNCHANGED <<pc, transport, held, audioInput, inputListeners>>
  BY DEF Spool, requests, processor
<1>4. FramesOK'
  BY <1>3 DEF SInv, FramesOK, queueVars, inputVars
<1>5. Ending'
  BY <1>3 DEF SInv, Ending, queueVars, inputVars
<1>6. OnTrack'
  BY <1>3, SamePlace, OutputKeepsTrack DEF SInv, queueVars, inputVars
<1> QED
  BY <1>2, <1>4, <1>5, <1>6

LEMMA StreamInitKeeps == ASSUME OutputAssumption, StreamInit PROVE SInv
<1>1. Listening
  BY InitKeeps DEF StreamInit, IInv
<1>2. Rest \in TransportData
  BY DEF Rest, TransportData
<1>3. FramesOK
  <2>1. /\ audioInput = <<>> /\ transport = Rest /\ inputTransport = Rest
        /\ hostTransport \in TransportData /\ handed = 0
        /\ internalInfo.channels = 0 /\ fifo = <<>> /\ pending = <<>> /\ callLost = FALSE
        /\ held = <<>>
    BY DEF StreamInit, Init, QueueInit, OutputAssumption
  <2>2. audioInput \in Seq(Seq(Nat))
    BY <2>1
  <2>3. fifo \in Seq(Frame) /\ pending \in Seq(Frame)
    BY <2>1
  <2>4. /\ transport \in TransportData /\ inputTransport \in TransportData
        /\ handed \in Nat /\ internalInfo.channels \in Nat
    BY <1>2, <2>1
  <2> QED
    BY <2>1, <2>2, <2>3, <2>4 DEF FramesOK
<1>4. Ending
  BY DEF StreamInit, Init, QueueInit, Ending
<1>5. OnTrack
  <2>1. Place = Rest
    BY DEF StreamInit, Init, Place
  <2>2. Plays(<<>>, Rest, Rest, FALSE) /\ Plays(<<>>, Rest, Rest, TRUE)
    BY <1>2, PlaysNothing
  <2> QED
    BY <1>2, <2>1, <2>2 DEF StreamInit, QueueInit, OnTrack
<1> QED
  BY <1>1, <1>3, <1>4, <1>5 DEF SInv

LEMMA StreamNextKeeps ==
    ASSUME OutputAssumption, StreamAssumption, SInv, [StreamNext]_streamVars PROVE SInv'
<1>1. CASE Producer
  <2>1. Listening'
    <3>1. UNCHANGED vars
      BY <1>1 DEF Producer, InitializeInfo, ProcessIncomingRTAudio, HostMoves,
                  IsAnyoneListening, SubmitFrame, DropFrame, DestroyInput
    <3> QED
      BY <3>1, StillListens DEF SInv
  <2>2. FramesOK' /\ Ending' /\ OnTrack'
    BY <1>1, CallsKeepTrack, ProcessKeepsTrack, SubmitKeepsTrack, DropKeepsTrack DEF Producer
  <2> QED
    BY <2>1, <2>2 DEF SInv
<1>2. CASE Async
  BY <1>2, BeginKeepsTrack, HandleKeepsTrack, EndKeepsTrack, FinishKeepsTrack DEF Async, SInv
<1>3. CASE ~released /\ Commands /\ UNCHANGED <<queueVars, inputVars>>
  BY <1>3, CommandsKeepTrack DEF SInv
<1>4. CASE Spool /\ UNCHANGED <<queueVars, inputVars>>
  BY <1>4, SpoolKeepsTrack DEF SInv
<1>5. CASE UNCHANGED streamVars
  <2>1. UNCHANGED <<vars, queueVars, inputVars>>
    BY <1>5 DEF streamVars
  <2>2. UNCHANGED <<pc, transport, held, audioInput, inputListeners>>
    BY <2>1 DEF vars, data, playheads, requests, processor
  <2>3. Listening'
    BY <2>1, StillListens DEF SInv
  <2>4. FramesOK'
    BY <2>1, <2>2 DEF SInv, FramesOK, queueVars, inputVars
  <2>5. Ending'
    BY <2>1, <2>2 DEF SInv, Ending, queueVars, inputVars
  <2>6. OnTrack'
    BY <2>1, <2>2, SamePlace, OutputKeepsTrack DEF SInv, queueVars, inputVars
  <2> QED
    BY <2>3, <2>4, <2>5, <2>6 DEF SInv
<1> QED
  BY <1>1, <1>2, <1>3, <1>4, <1>5 DEF StreamNext

(* The invariant of the stream: the commands, what is under way between the  *)
(* Input and the Output, and how the thread ends.                            *)
THEOREM StreamInvariance == StreamSpec => []SInv
<1>1. StreamInit => SInv
  BY StreamInitKeeps, OutputAssumption
<1>2. SInv /\ [StreamNext]_streamVars => SInv'
  BY StreamNextKeeps, OutputAssumption, StreamAssumption
<1> QED
  BY <1>1, <1>2, PTL DEF StreamSpec

(* Each command given while the stream ran is applied when the thread ends.  *)
THEOREM CommandsGetApplied == StreamSpec => []CommandsAreApplied
<1>1. SInv => CommandsAreApplied
  BY LeadsNowhere DEF SInv, Listening, Registered, Ending, CommandsAreApplied
<1> QED
  BY <1>1, StreamInvariance, PTL

(* The steps of the stream are those of the Output by itself, except that it *)
(* is handed other frames: some may be missing.                              *)
LEMMA StreamSteps ==
    ASSUME [StreamNext]_streamVars
    PROVE  [Next]_vars \/ (pc = "open" /\ UNCHANGED <<told, heard>>)
<1>1. CASE Producer
  BY <1>1 DEF Producer, InitializeInfo, ProcessIncomingRTAudio, HostMoves, IsAnyoneListening,
       SubmitFrame, DropFrame, DestroyInput
<1>2. CASE AsyncHandle
  BY <1>2 DEF AsyncHandle, HandleFrame, HandleAudio, HandleChange, ghosts
<1>3. CASE AsyncBegin \/ AsyncEnd \/ AsyncRelease
  BY <1>3 DEF AsyncBegin, AsyncEnd, AsyncRelease, Next, Batch
<1>4. CASE Finish
  BY <1>4 DEF Next
<1>5. CASE Commands \/ Spool
  BY <1>5 DEF Next
<1>6. CASE AsyncDone \/ UNCHANGED streamVars
  BY <1>6 DEF AsyncDone, streamVars
<1> QED
  BY <1>1, <1>2, <1>3, <1>4, <1>5, <1>6 DEF StreamNext, Async

(* In the whole stream, too, a listener whose removal had returned when the  *)
(* batch came to its end is not called any more, with the same exception,    *)
(* whatever the Input sends, loses or ends with.                             *)
THEOREM StreamRemovalIsFinal == StreamSpec => RemovedIsQuiet
<1>1. ASSUME SInv, [StreamNext]_streamVars, NEW l \in quiet, Called(l)
      PROVE  /\ pc = "commands"
             /\ [listener |-> l, wasAdded |-> FALSE] \in ToSet(Tail(inputListeners))
  BY <1>1, StreamSteps, OnlyNotify, QuietIsNotCalled DEF SInv
<1>2. SInv /\ [StreamNext]_streamVars =>
        [\A l \in quiet : Called(l) =>
            /\ pc = "commands"
            /\ [listener |-> l, wasAdded |-> FALSE] \in ToSet(Tail(inputListeners))]_vars
  BY <1>1
<1> QED
  BY <1>2, StreamInvariance, PTL DEF StreamSpec, RemovedIsQuiet

(* The info a listener is given as the one before is the one it was told     *)
(* last, though frames that change it are lost.                              *)
THEOREM StreamChangesAreAsTold == StreamSpec => BeforeIsLastTold
<1>1. ASSUME SInv, [StreamNext]_streamVars, pc = "notify", signalChange, todo' # todo
      PROVE  told[Head(todo)] \in {<<>>, <<oldInfo>>}
  <2>1. Notify
    BY <1>1, StreamSteps, OnlyNotify
  <2> QED
    BY <1>1, <2>1, CallsAreTold DEF SInv
<1>2. SInv /\ [StreamNext]_streamVars =>
        [(pc = "notify" /\ signalChange /\ todo' # todo) =>
            told[Head(todo)] \in {<<>>, <<oldInfo>>}]_vars
  BY <1>1
<1> QED
  BY <1>2, StreamInvariance, PTL DEF StreamSpec, BeforeIsLastTold

(* Also when frames are lost a listener gets audio only when it has been     *)
(* told the info in force.  (Its number of channels may then be another one  *)
(* than the audio has, if it was the frame with the number that was lost.)   *)
THEOREM StreamAudioIsAnnounced ==
    StreamSpec => [][\A l \in Listener : heard'[l] # heard[l] /\ heard'[l] # 0 =>
                        told'[l] = <<info>>]_vars
<1>1. ASSUME SInv, [StreamNext]_streamVars, NEW l \in Listener, heard'[l] # heard[l], heard'[l] # 0
      PROVE  told'[l] = <<info>>
  <2>1. heard \in [Listener -> Nat]
    BY <1>1 DEF SInv, Listening, TypeOK
  <2>2. heard' # heard
    BY <1>1
  <2>3. [Next]_vars
    BY <1>1, <2>2, StreamSteps
  <2>4. CASE ApplyAdd
    BY <1>1, <2>1, <2>4 DEF ApplyAdd
  <2>5. CASE Notify
    <3>1. l = Head(todo)
      BY <1>1, <2>1, <2>5 DEF Notify
    <3> QED
      BY <1>1, <2>5, <3>1, CallsAreTold DEF SInv
  <2> QED
    BY <2>2, <2>3, <2>4, <2>5, OnlyNotify
<1>2. SInv /\ [StreamNext]_streamVars =>
        [\A l \in Listener : heard'[l] # heard[l] /\ heard'[l] # 0 => told'[l] = <<info>>]_vars
  BY <1>1
<1> QED
  BY <1>2, StreamInvariance, PTL DEF StreamSpec

(* Audio comes to an Output whose transport is what the host's was at its    *)
(* first sample, when its call lost nothing before it, for any number of     *)
(* calls, starts, stops and seeks, frames lost in earlier calls, changes of  *)
(* format and sizes of the queue.                                            *)
THEOREM PlayheadStaysRight == StreamSpec => PlayheadIsRight
<1> DEFINE Right == Len(fifo') < Len(fifo) /\ Head(fifo).type = "audio" /\ Head(fifo).sure =>
                        Advanced(transport, contained) = Head(fifo).at
<1>1. ASSUME SInv, StreamNext PROVE Right
  <2>1. fifo \in Seq(Frame)
    BY <1>1 DEF SInv, FramesOK
  <2>2. CASE AsyncHandle
    <3> DEFINE f == Head(fifo)
    <3>1. f.type = "audio" /\ f.sure => f.at = Place
      BY <1>1, <2>2, InPlaceWhenHandled
    <3>2. Place = Advanced(transport, contained)
      BY <1>1, <2>2, InPlaceWhenHandled DEF SInv
    <3> HIDE DEF f
    <3>3. f.type = "audio" /\ f.sure => Advanced(transport, contained) = f.at
      BY <3>1, <3>2
    <3> QED
      BY <3>3 DEF f
  <2>3. CASE ~AsyncHandle
    <3>1. fifo' = fifo \/ \E f : fifo' = Append(fifo, f)
      BY <1>1, <2>3 DEF StreamNext, Producer, Async, InitializeInfo, ProcessIncomingRTAudio,
            HostMoves, IsAnyoneListening, SubmitFrame, DropFrame, DestroyInput, AsyncBegin,
            AsyncEnd, AsyncRelease, AsyncDone, Put, Refuse, Release, OpenBatch, CloseBatch,
            LeaveLoop, Return, queueVars, streamVars
    <3>2. ~(Len(fifo') < Len(fifo))
      BY <2>1, <3>1
    <3> QED
      BY <3>2
  <2> QED
    BY <2>2, <2>3
<1>2. SInv /\ [StreamNext]_streamVars => [Right]_streamVars
  BY <1>1
<1> QED
  BY <1>2, StreamInvariance, PTL DEF StreamSpec, PlayheadIsRight

(* Between the Input and the Output the frames take the way of FrameLoop,    *)
(* which the async thread with its queue implements (BlockingQueueProofs).   *)
THEOREM StreamFollowsLoop == StreamSpec => QueueInit /\ [][QueueNext(Frame)]_queueVars
<1>1. StreamInit => QueueInit
  BY DEF StreamInit
<1>2. ASSUME SInv, StreamNext PROVE QueueNext(Frame) \/ UNCHANGED queueVars
  <2>1. CASE Producer
    <3>1. ASSUME NEW c \in ChannelCounts, NEW suspended \in BOOLEAN, InitializeInfo(c, suspended)
          PROVE  QueueNext(Frame)
      <4>1. [type |-> "info", channels |-> c] \in Frame
        BY OutputAssumption DEF OutputAssumption, Frame, Change
      <4> QED
        BY <3>1, <4>1 DEF InitializeInfo, QueueNext
    <3>2. CASE SubmitFrame
      <4> DEFINE f == Head(pending)
                 g == IF f.type = "audio" THEN [f EXCEPT !.sure = ~callLost] ELSE f
      <4>1. pending # <<>> /\ Put(g)
        BY <3>2 DEF SubmitFrame
      <4>2. pending \in Seq(Frame) /\ callLost \in BOOLEAN
        BY <1>2 DEF SInv, FramesOK
      <4>3. f \in Frame
        BY <4>1, <4>2
      <4> HIDE DEF f
      <4>4. g \in Frame
        <5>1. CASE f \in Audio
          BY <4>2, <5>1 DEF Audio, Frame
        <5>2. CASE f \in Change
          BY <4>3, <5>2 DEF Change
        <5> QED
          BY <4>3, <5>1, <5>2 DEF Frame
      <4> QED
        BY <4>1, <4>4 DEF QueueNext
    <3>3. CASE \/ \E n \in 1 .. MaxCallSize : ProcessIncomingRTAudio(n)
               \/ \E t \in HostTransports \cup {[hostTransport EXCEPT !.playing = ~@]} : HostMoves(t)
               \/ IsAnyoneListening \/ DropFrame \/ DestroyInput
      BY <3>3 DEF ProcessIncomingRTAudio, HostMoves, IsAnyoneListening, DropFrame, DestroyInput, QueueNext
    <3> QED
      BY <2>1, <3>1, <3>2, <3>3 DEF Producer
  <2>2. CASE Async
    BY <2>2 DEF Async, AsyncBegin, AsyncHandle, AsyncEnd, AsyncRelease, AsyncDone, QueueNext
  <2>3. CASE UNCHANGED queueVars
    BY <2>3
  <2> QED
    BY <1>2, <2>1, <2>2, <2>3 DEF StreamNext, streamVars
<1>3. SInv /\ [StreamNext]_streamVars => [QueueNext(Frame)]_queueVars
  BY <1>2 DEF streamVars
<1> QED
  BY <1>1, <1>3, StreamInvariance, PTL DEF StreamSpec

-----------------------------------------------------------------------------
(***************************************************************************)
(* The room for the audio, for any change of formats and sizes, of storing *)
(* it or not, and whatever frames are lost.                                *)
(***************************************************************************)
Batching == {"commands", "resize", "notify", "publish"}

(* A batch has as many samples on each of its channels.                      *)
Even == \A c \in DOMAIN audioInput : Len(audioInput[c]) = contained

(* The channels of the history have one size, that of the info, from the     *)
(* resize of one batch to the commands of another.                           *)
Sized ==
    /\ info.size <= info.capacity /\ inputInfo.size <= inputInfo.capacity
    /\ \A c, d \in DOMAIN history : history[c].size = history[d].size
    /\ info.store /\ ~(pc \in {"commands", "resize"} /\ signalChange) =>
          \A c \in DOMAIN history : history[c].size = info.size

(* A history that does not suit the channels of the batch is noticed, and    *)
(* has been made to when the batch is published.                             *)
Suited ==
    /\ pc \in {"commands", "resize"} /\ HistoryMissing(info) => signalChange
    /\ pc \in {"notify", "publish"} =>
          /\ Len(deferredAudioInput) = channels
          /\ info.store => Len(history) = channels

Fitting ==
    /\ history \in Seq(Streams) /\ deferredAudioInput \in Seq(Seq(Nat))
    /\ Even /\ Sized /\ Suited

(* Most steps touch none of that.                                            *)
LEMMA ElsewhereFits ==
    ASSUME Fitting, UNCHANGED <<history, deferredAudioInput, audioInput, inputInfo>>,
           UNCHANGED <<info.store, info.size, info.capacity>>,
           \/ UNCHANGED <<pc, signalChange>>
           \/ pc \notin {"commands", "resize"} /\ pc' \notin Batching
           \/ pc = "commands" /\ pc' = "resize" /\ UNCHANGED signalChange
           \/ pc = "notify" /\ pc' = "publish"
    PROVE  Fitting'
<1>1. channels' = channels /\ contained' = contained
  BY DEF channels, contained
<1>2. Even'
  BY <1>1 DEF Fitting, Even
<1>3. Sized'
  BY DEF Fitting, Sized, Batching
<1>4. Suited'
  BY <1>1 DEF Fitting, Suited, HistoryMissing, Batching
<1> QED
  BY <1>2, <1>3, <1>4 DEF Fitting

(* A batch that begins is empty on each channel.                             *)
LEMMA BeginsEven == ASSUME Listening, Begin PROVE Even' /\ channels' = channels
<1>1. channels \in Nat /\ audioInput' = [c \in 1 .. channels |-> <<>>]
  <2>1. audioInput \in Seq(Seq(Nat))
    BY DEF Listening, TypeOK
  <2> QED
    BY <2>1 DEF Begin, channels
<1>2. channels' = channels /\ contained' = 0
  BY <1>1, Emptied
<1>3. ASSUME NEW c \in DOMAIN audioInput' PROVE Len(audioInput'[c]) = 0
  <2>1. audioInput'[c] = <<>>
    BY <1>1, <1>3
  <2> QED
    BY <2>1
<1> QED
  BY <1>2, <1>3 DEF Even

LEMMA BeginFits == ASSUME Listening, Fitting, BeginBatch PROVE Fitting'
<1>1. /\ pc = "idle" /\ pc' = "open" /\ Begin
      /\ UNCHANGED <<history, deferredAudioInput, info, inputInfo>>
  BY DEF BeginBatch, requests
<1>2. Even'
  BY <1>1, BeginsEven
<1>3. Sized'
  BY <1>1 DEF Fitting, Sized
<1>4. Suited'
  BY <1>1 DEF Suited
<1> QED
  BY <1>1, <1>2, <1>3, <1>4 DEF Fitting

(* Audio joins the batch on all its channels, after zeros on those that are  *)
(* new to it.                                                                *)
LEMMA AudioFits ==
    ASSUME Listening, Fitting, pc = "open",
           NEW f, f.channels \in Nat \ {0}, f.samples \in Seq(Nat), HandleAudio(f)
    PROVE  Fitting'
<1> DEFINE k == contained
           zeros == [i \in 1 .. k |-> 0]
           before(c) == IF c <= channels THEN audioInput[c] ELSE zeros
           n == Len(f.samples)
<1>1. /\ pc' = "open"
      /\ UNCHANGED <<history, deferredAudioInput, info, inputInfo>>
      /\ audioInput' = [c \in 1 .. f.channels |-> before(c) \o f.samples]
  BY DEF HandleAudio, infos, requests, processor
<1>2. audioInput \in Seq(Seq(Nat)) /\ k \in Nat /\ channels \in Nat /\ n \in Nat
  <2>1. audioInput \in Seq(Seq(Nat))
    BY DEF Listening, TypeOK
  <2> QED
    BY <2>1, LastOfBatch DEF channels
<1>3. zeros \in Seq(Nat) /\ Len(zeros) = k
  BY <1>2
<1> HIDE DEF zeros, k
<1>4. ASSUME NEW c \in 1 .. f.channels PROVE before(c) \in Seq(Nat) /\ Len(before(c)) = k
  <2>1. CASE c <= channels
    <3>1. c \in DOMAIN audioInput
      BY <1>2, <2>1 DEF channels
    <3>2. audioInput[c] \in Seq(Nat) /\ Len(audioInput[c]) = k
      BY <1>2, <3>1 DEF Fitting, Even, k
    <3> QED
      BY <2>1, <3>2
  <2>2. CASE ~(c <= channels)
    BY <1>3, <2>2
  <2> QED
    BY <2>1, <2>2
<1> HIDE DEF before, n
<1>5. ASSUME NEW c \in 1 .. f.channels
      PROVE  before(c) \o f.samples \in Seq(Nat) /\ Len(before(c) \o f.samples) = k + n
  <2> DEFINE b == before(c)
             s == f.samples
  <2>1. b \in Seq(Nat) /\ Len(b) = k /\ s \in Seq(Nat) /\ Len(s) = n
    BY <1>4 DEF n
  <2> HIDE DEF b, s
  <2>2. b \o s \in Seq(Nat) /\ Len(b \o s) = Len(b) + Len(s)
    BY <2>1, Joined
  <2>3. b \o s \in Seq(Nat) /\ Len(b \o s) = k + n
    BY <2>1, <2>2
  <2> QED
    BY <2>3 DEF b, s
<1>6. DOMAIN audioInput' = 1 .. f.channels /\ Len(audioInput') = f.channels
  BY <1>1
<1>7. \A c \in 1 .. f.channels : Len(audioInput'[c]) = k + n
  BY <1>1, <1>5
<1>8. channels' = f.channels /\ contained' = k + n
  <2>1. 1 \in 1 .. f.channels /\ f.channels # 0
    OBVIOUS
  <2> QED
    BY <1>6, <1>7, <2>1 DEF channels, contained
<1>9. Even'
  BY <1>6, <1>7, <1>8 DEF Even
<1>10. Sized'
  BY <1>1 DEF Fitting, Sized
<1>11. Suited'
  BY <1>1 DEF Suited
<1> QED
  BY <1>1, <1>9, <1>10, <1>11 DEF Fitting

(* What is not audio changes nothing of it, the number of channels included: *)
(* that is the one of the audio.                                             *)
LEMMA ChangeFits ==
    ASSUME Listening, Fitting, pc = "open", NEW f, HandleChange(f) PROVE Fitting'
<1>1. /\ pc' \in {"open", "end"}
      /\ UNCHANGED <<history, deferredAudioInput, audioInput, inputInfo>>
      /\ info' \in {info, [info EXCEPT !.channels = f.channels]}
  BY DEF HandleChange, ApplyChange, data, requests
<1>2. UNCHANGED <<info.store, info.size, info.capacity>>
  BY <1>1 DEF Listening, TypeOK, Info
<1> QED
  BY <1>1, <1>2, ElsewhereFits DEF Batching

(* modifyConsumerInfo() sees to it that the size is within the capacity.     *)
LEMMA ModifyFits ==
    ASSUME OutputAssumption, Fitting, NEW consumer \in Consumers, ModifyConsumerInfo(consumer)
    PROVE  Fitting'
<1>1. /\ inputInfo' = [consumer EXCEPT !.size = Least(@, consumer.capacity)]
      /\ UNCHANGED <<pc, signalChange, history, deferredAudioInput, audioInput, info>>
  BY DEF ModifyConsumerInfo, data, infos, processor
<1>2. consumer \in [store : BOOLEAN, size : Nat, capacity : Nat, block : BOOLEAN]
  BY DEF OutputAssumption
<1>3. inputInfo'.size <= inputInfo'.capacity
  BY <1>1, <1>2 DEF Least
<1>4. Even'
  BY <1>1 DEF Fitting, Even, contained, channels
<1>5. Sized'
  BY <1>1, <1>3 DEF Fitting, Sized
<1>6. Suited'
  BY <1>1 DEF Fitting, Suited, HistoryMissing, channels
<1> QED
  BY <1>1, <1>4, <1>5, <1>6 DEF Fitting

-----------------------------------------------------------------------------
(* The end of a batch: whether the history suits it is looked at first ...   *)

LEMMA ReadFlagsFits == ASSUME Fitting, ReadFlags PROVE Fitting'
<1>1. /\ pc = "end" /\ pc' = IF inputChanges THEN "lock" ELSE "resize"
      /\ signalChange' = (producerInfoChange \/ (~inputChanges /\ HistoryMissing(info)))
      /\ UNCHANGED <<history, deferredAudioInput, audioInput, info, inputInfo>>
  BY DEF ReadFlags, data, requests
<1>2. Even'
  BY <1>1 DEF Fitting, Even, contained, channels
<1>3. Sized'
  BY <1>1 DEF Fitting, Sized
<1>4. Suited'
  BY <1>1 DEF Suited, HistoryMissing, channels
<1> QED
  BY <1>1, <1>2, <1>3, <1>4 DEF Fitting

(* ... and once more with what was asked for.                                *)
LEMMA LockFits == ASSUME Listening, Fitting, LockCommands PROVE Fitting'
<1>1. /\ pc = "lock" /\ pc' = "commands"
      /\ info' = IF consumerInfoChange
                 THEN [channels |-> info.channels, store |-> inputInfo.store, size |-> inputInfo.size,
                       capacity |-> inputInfo.capacity, block |-> inputInfo.block]
                 ELSE info
      /\ signalChange' = (signalChange \/ consumerInfoChange \/ HistoryMissing(info'))
      /\ UNCHANGED <<history, deferredAudioInput, audioInput, inputInfo>>
  BY DEF LockCommands, data
<1>2. Even'
  BY <1>1 DEF Fitting, Even, contained, channels
<1>3. Sized'
  <2>1. CASE consumerInfoChange
    BY <1>1, <2>1 DEF Fitting, Sized
  <2>2. CASE ~consumerInfoChange
    BY <1>1, <2>2 DEF Fitting, Sized
  <2> QED
    BY <2>1, <2>2
<1>4. Suited'
  <2>1. HistoryMissing(info)' <=> HistoryMissing(info')
    BY <1>1 DEF HistoryMissing, channels
  <2> QED
    BY <1>1, <2>1 DEF Suited
<1> QED
  BY <1>1, <1>2, <1>3, <1>4 DEF Fitting

(* A cursor can be set on any stream.                                        *)
LEMMA CursorSet ==
    ASSUME NEW s \in Streams, NEW c \in Nat
    PROVE  SetCursor(s, c) \in Streams /\ SetCursor(s, c).size = s.size
<1> DEFINE k == IF s.size # 0 THEN c % s.size ELSE 0
<1>1. /\ s \in [memory : Memories, size : Nat, cursor : Nat]
      /\ 0 .. s.size - 1 \subseteq DOMAIN s.memory
  BY DEF Streams
<1>2. k \in Nat /\ (k < s.size \/ k = 0)
  BY <1>1
<1>3. SetCursor(s, c) = [s EXCEPT !.cursor = k]
  BY DEF SetCursor
<1> HIDE DEF k
<1> QED
  BY <1>1, <1>2, <1>3 DEF Streams

(* Each channel has the size of the info after a resize, the new ones too.   *)
LEMMA EnsuredFits ==
    ASSUME OutputAssumption, Listening, Fitting, history' = EnsureAudioHistoryStorage
    PROVE  /\ history' \in Seq(Streams) /\ Len(history') = channels
           /\ \A c \in DOMAIN history' : history'[c].size = info.size
<1> DEFINE old(c) == IF c <= Len(history) THEN history[c] ELSE NewStream
           n == info.size
           cap == info.capacity
           new(c) == SetCursor(SetStorageRequirements(old(c), n, cap, TRUE, Filler), old(1).cursor)
<1>1. channels \in Nat /\ n \in 0 .. cap /\ cap \in Nat /\ Garbage \in Nat
  <2>1. audioInput \in Seq(Seq(Nat)) /\ n \in Nat /\ cap \in Nat
    BY DEF Listening, TypeOK, Info
  <2>2. n <= cap
    BY DEF Fitting, Sized
  <2>3. channels \in Nat
    BY <2>1 DEF channels
  <2>4. Garbage \in Nat
    BY DEF OutputAssumption
  <2> QED
    BY <2>1, <2>2, <2>3, <2>4
<1>2. history' = [c \in 1 .. channels |-> new(c)]
  BY DEF EnsureAudioHistoryStorage
<1> HIDE DEF n, cap
<1>3. ASSUME NEW c \in Nat \ {0} PROVE old(c) \in Streams
  <2>1. CASE c <= Len(history)
    <3>1. history \in Seq(Streams) /\ c \in 1 .. Len(history)
      BY <2>1 DEF Fitting
    <3> QED
      BY <2>1, <3>1
  <2>2. CASE ~(c <= Len(history))
    BY <2>2, NewIsStream
  <2> QED
    BY <2>1, <2>2
<1> HIDE DEF old
<1>4. old(1).cursor \in Nat
  BY <1>3, OfStream
<1>5. ASSUME NEW c \in 1 .. channels PROVE new(c) \in Streams /\ new(c).size = n
  <2> DEFINE o == old(c)
             t == SetStorageRequirements(o, n, cap, TRUE, Filler)
  <2>1. o \in Streams
    BY <1>1, <1>3
  <2> HIDE DEF o
  <2>2. t \in Streams /\ t.size = n
    BY <1>1, <2>1, ResizingKeepsTheNewest DEF Resized
  <2> HIDE DEF t
  <2>3. SetCursor(t, old(1).cursor) \in Streams /\ SetCursor(t, old(1).cursor).size = n
    BY <1>4, <2>2, CursorSet
  <2> QED
    BY <2>3 DEF t, o
<1> HIDE DEF new
<1> QED
  BY <1>1, <1>2, <1>5 DEF n

(* The history suits the batch from now on, or is not stored.                *)
LEMMA ResizeFits == ASSUME OutputAssumption, Listening, Fitting, ResizeHistory PROVE Fitting'
<1> DEFINE before(c) == IF c <= Len(deferredAudioInput) THEN deferredAudioInput[c] ELSE <<>>
<1>1. /\ pc = "resize" /\ pc' = "notify"
      /\ IF signalChange /\ info.store /\ HistoryDifferent
         THEN history' = EnsureAudioHistoryStorage ELSE history' = history
      /\ deferredAudioInput' = [c \in 1 .. channels |-> before(c)]
      /\ UNCHANGED <<audioInput, info, inputInfo, signalChange>>
  BY DEF ResizeHistory, infos, requests
<1>2. channels' = channels /\ contained' = contained /\ channels \in Nat
  <2>1. audioInput \in Seq(Seq(Nat))
    BY DEF Listening, TypeOK
  <2> QED
    BY <1>1, <2>1 DEF channels, contained
<1>3. deferredAudioInput' \in Seq(Seq(Nat)) /\ Len(deferredAudioInput') = channels
  <2>1. ASSUME NEW c \in 1 .. channels PROVE before(c) \in Seq(Nat)
    <3>1. deferredAudioInput \in Seq(Seq(Nat)) /\ <<>> \in Seq(Nat)
      BY DEF Fitting
    <3> QED
      BY <3>1
  <2> HIDE DEF before
  <2> QED
    BY <1>1, <1>2, <2>1
<1> HIDE DEF before
<1>4. Even'
  BY <1>1, <1>2 DEF Fitting, Even
<1>5. CASE signalChange /\ info.store /\ HistoryDifferent
  <2>1. /\ history' \in Seq(Streams) /\ Len(history') = channels
        /\ \A c \in DOMAIN history' : history'[c].size = info.size
    BY <1>1, <1>5, EnsuredFits
  <2>2. Sized'
    BY <1>1, <2>1 DEF Fitting, Sized
  <2>3. Suited'
    BY <1>1, <1>2, <1>3, <2>1 DEF Suited
  <2> QED
    BY <1>3, <1>4, <2>1, <2>2, <2>3 DEF Fitting
<1>6. CASE ~(signalChange /\ info.store /\ HistoryDifferent)
  <2>1. history' = history
    BY <1>1, <1>6
  <2>2. info.store => Len(history) = channels
    BY <1>1, <1>6 DEF Fitting, Suited, HistoryMissing, HistoryDifferent
  <2>3. ASSUME info.store, NEW c \in DOMAIN history PROVE history[c].size = info.size
    <3>1. CASE signalChange
      <4>1. history \in Seq(Streams) /\ DOMAIN history = 1 .. channels
        BY <2>2, <2>3 DEF Fitting
      <4>2. channels > 0 /\ 1 \in DOMAIN history
        BY <1>2, <2>3, <4>1
      <4>3. info.size = history[1].size
        BY <1>6, <2>3, <3>1, <4>2 DEF HistoryDifferent
      <4>4. history[c].size = history[1].size
        BY <2>3, <4>2 DEF Fitting, Sized
      <4> QED
        BY <4>3, <4>4
    <3>2. CASE ~signalChange
      BY <2>3, <3>2 DEF Fitting, Sized
    <3> QED
      BY <3>1, <3>2
  <2>4. Sized'
    BY <1>1, <2>1, <2>3 DEF Fitting, Sized
  <2>5. Suited'
    BY <1>1, <1>2, <1>3, <2>1, <2>2 DEF Suited
  <2> QED
    BY <1>3, <1>4, <2>1, <2>4, <2>5 DEF Fitting
<1> QED
  BY <1>5, <1>6

(* One block after another slides the window as both together do.            *)
LEMMA SlidTwice ==
    ASSUME NEW s \in Streams, NEW t, NEW u, NEW a \in Seq(Nat), NEW b \in Seq(Nat),
           Slid(t, s, a), Slid(u, t, b)
    PROVE  Slid(u, s, a \o b)
<1> DEFINE n == s.size
           k == Len(a)
           m == Len(b)
           e == k + m
           ab == a \o b
<1>1. n \in Nat /\ k \in Nat /\ m \in Nat /\ e \in Nat
  BY OfStream
<1>2. Len(ab) = e /\ \A i \in 1 .. e : ab[i] = IF i <= k THEN a[i] ELSE b[i - k]
  BY Joined
<1>3. u \in Streams /\ u.size = n /\ t.size = n
  BY DEF Slid
<1>4. /\ \A i \in 1 .. n : Window(t)[i] = IF i + k <= n THEN Window(s)[i + k] ELSE a[i + k - n]
      /\ \A i \in 1 .. n : Window(u)[i] = IF i + m <= n THEN Window(t)[i + m] ELSE b[i + m - n]
  BY <1>3 DEF Slid
<1>5. e = k + m
  OBVIOUS
<1> HIDE DEF n, k, m, e, ab
<1>6. ASSUME NEW i \in 1 .. n
      PROVE  Window(u)[i] = IF i + e <= n THEN Window(s)[i + e] ELSE ab[i + e - n]
  <2> DEFINE j == i + m
             x == i + e - n
  <2>1. i \in Int /\ j \in Int /\ x \in Int
    BY <1>1
  <2>2. CASE j <= n
    <3>1. j \in 1 .. n /\ j + k = i + e /\ j + k - n = x
      BY <1>1, <1>5, <2>2
    <3>2. Window(u)[i] = Window(t)[j]
      BY <1>4, <2>2
    <3>3. ~(i + e <= n) => x \in 1 .. e /\ x <= k
      BY <1>1, <1>5, <2>2
    <3> HIDE DEF j, x
    <3>4. Window(t)[j] = IF j + k <= n THEN Window(s)[j + k] ELSE a[j + k - n]
      BY <1>4, <3>1
    <3>5. Window(t)[j] = IF i + e <= n THEN Window(s)[i + e] ELSE a[x]
      BY <3>1, <3>4
    <3>6. ~(i + e <= n) => ab[x] = a[x]
      BY <1>2, <3>3
    <3> QED
      BY <3>2, <3>5, <3>6 DEF x
  <2>3. CASE ~(j <= n)
    <3>1. ~(i + e <= n) /\ x \in 1 .. e /\ ~(x <= k) /\ x - k = j - n
      BY <1>1, <1>5, <2>3
    <3>2. Window(u)[i] = b[j - n]
      BY <1>1, <1>4, <2>3
    <3> HIDE DEF j, x
    <3>3. ab[x] = b[j - n]
      BY <1>2, <3>1
    <3> QED
      BY <3>1, <3>2, <3>3 DEF x
  <2> QED
    BY <2>2, <2>3
<1>7. Slid(u, s, ab)
  BY <1>2, <1>3, <1>6 DEF Slid, n
<1> QED
  BY <1>7 DEF ab

(* What of a channel is written: the deferred audio, and then the inputs,    *)
(* of which there are none when a listener spools.                           *)
Block(inputs, c) == IF numDeferred > 0 THEN deferredAudioInput[c] \o inputs[c] ELSE inputs[c]
NoInputs == [c \in DOMAIN history |-> <<>>]

(* Each channel is slid on by what is written, and nothing stays deferred.   *)
LEMMA MergeSlides ==
    ASSUME Fitting, Len(deferredAudioInput) = Len(history),
           NEW inputs, \A c \in DOMAIN history : inputs[c] \in Seq(Nat),
           NEW playhead, NEW i, Merge(inputs, playhead, i)
    PROVE  /\ history' \in Seq(Streams) /\ Len(history') = Len(history)
           /\ DOMAIN history' = DOMAIN history
           /\ \A c \in DOMAIN history : Slid(history'[c], history[c], Block(inputs, c))
           /\ deferredAudioInput' \in Seq(Seq(Nat))
           /\ Len(deferredAudioInput') = Len(deferredAudioInput)
<1> DEFINE after(c) ==
             CopyIntoHead(IF numDeferred > 0 THEN CopyIntoHead(history[c], deferredAudioInput[c])
                                             ELSE history[c], inputs[c])
<1>1. /\ history \in Seq(Streams) /\ DOMAIN history = 1 .. Len(history) /\ Len(history) \in Nat
      /\ deferredAudioInput \in Seq(Seq(Nat)) /\ DOMAIN deferredAudioInput = 1 .. Len(history)
  BY DEF Fitting
<1>2. /\ history' = [c \in DOMAIN history |-> after(c)]
      /\ deferredAudioInput' = [c \in DOMAIN deferredAudioInput |-> <<>>]
  BY DEF Merge
<1>3. ASSUME NEW c \in DOMAIN history PROVE Slid(after(c), history[c], Block(inputs, c))
  <2> DEFINE s == history[c]
             d == deferredAudioInput[c]
             b == inputs[c]
             t == CopyIntoHead(s, d)
  <2>1. s \in Streams /\ d \in Seq(Nat) /\ b \in Seq(Nat)
    BY <1>1
  <2>2. /\ after(c) = CopyIntoHead(IF numDeferred > 0 THEN t ELSE s, b)
        /\ Block(inputs, c) = IF numDeferred > 0 THEN d \o b ELSE b
    BY DEF Block
  <2> HIDE DEF s, d, b, after
  <2>3. Slid(t, s, d)
    BY <2>1, WritingSlides
  <2>4. t \in Streams
    BY <2>3 DEF Slid
  <2> HIDE DEF t
  <2>5. CASE numDeferred > 0
    <3>1. Slid(CopyIntoHead(t, b), t, b)
      BY <2>1, <2>4, WritingSlides
    <3>2. Slid(CopyIntoHead(t, b), s, d \o b)
      BY <2>1, <2>3, <3>1, SlidTwice
    <3> QED
      BY <2>2, <2>5, <3>2 DEF s
  <2>6. CASE ~(numDeferred > 0)
    <3>1. Slid(CopyIntoHead(s, b), s, b)
      BY <2>1, WritingSlides
    <3> QED
      BY <2>2, <2>6, <3>1 DEF s
  <2> QED
    BY <2>5, <2>6
<1>4. \A c \in DOMAIN history : after(c) \in Streams
  BY <1>3 DEF Slid
<1> HIDE DEF after
<1>5. history' \in Seq(Streams) /\ Len(history') = Len(history) /\ DOMAIN history' = DOMAIN history
  BY <1>1, <1>2, <1>4
<1>6. deferredAudioInput' = [c \in 1 .. Len(history) |-> <<>>]
  BY <1>1, <1>2
<1>7. deferredAudioInput' \in Seq(Seq(Nat)) /\ Len(deferredAudioInput') = Len(history)
  BY <1>1, <1>6, Empties
<1> QED
  BY <1>2, <1>3, <1>5, <1>7

(* Channels that slide keep their sizes.                                     *)
LEMMA SizesStay ==
    ASSUME Fitting, UNCHANGED <<inputInfo, signalChange, info.store, info.size, info.capacity>>,
           DOMAIN history' = DOMAIN history,
           \A c \in DOMAIN history : history'[c].size = history[c].size,
           pc \notin {"commands", "resize"}, pc' \notin {"commands", "resize"}
    PROVE  Sized'
BY DEF Fitting, Sized

(* What the audio of a batch is on each channel of the history.              *)
LEMMA BatchSuits ==
    ASSUME Listening, Fitting, pc \in {"notify", "publish"}, info.store
    PROVE  /\ Len(history) = channels /\ Len(deferredAudioInput) = channels
           /\ \A c \in DOMAIN history : audioInput[c] \in Seq(Nat) /\ Len(audioInput[c]) = contained
<1>1. Len(history) = channels /\ Len(deferredAudioInput) = channels
  BY DEF Fitting, Suited
<1>2. audioInput \in Seq(Seq(Nat)) /\ DOMAIN history = 1 .. Len(history)
  BY DEF Listening, TypeOK, Fitting
<1>3. DOMAIN history = DOMAIN audioInput
  BY <1>1, <1>2 DEF channels
<1> QED
  BY <1>1, <1>2, <1>3 DEF Fitting, Even

(* A listener spools where there are as many histories as deferred channels. *)
LEMMA SpoolKeepsFit ==
    ASSUME Listening, Fitting, Spool
    PROVE  /\ Fitting' /\ DOMAIN history' = DOMAIN history
           /\ \A c \in DOMAIN history : Slid(history'[c], history[c], Block(NoInputs, c))
<1>1. /\ pc = "notify" /\ Len(deferredAudioInput) = Len(history)
      /\ Merge(NoInputs, deferredClock, deferredInfo)
      /\ UNCHANGED <<pc, info, inputInfo, signalChange, audioInput>>
  BY DEF Spool, NoInputs, infos, requests, processor
<1>2. Len(deferredAudioInput) = channels
  BY <1>1 DEF Fitting, Suited
<1>3. \A c \in DOMAIN history : NoInputs[c] \in Seq(Nat)
  <2>1. <<>> \in Seq(Nat)
    OBVIOUS
  <2> QED
    BY <2>1 DEF NoInputs
<1>4. /\ history' \in Seq(Streams) /\ Len(history') = Len(history)
      /\ DOMAIN history' = DOMAIN history
      /\ \A c \in DOMAIN history : Slid(history'[c], history[c], Block(NoInputs, c))
      /\ deferredAudioInput' \in Seq(Seq(Nat))
      /\ Len(deferredAudioInput') = Len(deferredAudioInput)
  BY <1>1, <1>3, MergeSlides
<1>5. Even'
  BY <1>1 DEF Fitting, Even, contained, channels
<1>6. Sized'
  BY <1>1, <1>4, SizesStay DEF Slid
<1>7. Suited'
  BY <1>1, <1>2, <1>4 DEF Suited, channels
<1> QED
  BY <1>4, <1>5, <1>6, <1>7 DEF Fitting

LEMMA PublishFits ==
    ASSUME Listening, Fitting, Publish
    PROVE  /\ Fitting'
           /\ \/ history' = history
              \/ /\ DOMAIN history' = DOMAIN history
                 /\ \A c \in DOMAIN history :
                       Slid(history'[c], history[c], Block(audioInput, c))
<1>1. /\ pc = "publish" /\ pc' \in {"idle", "open"}
      /\ \/ ~Publishes /\ UNCHANGED <<deferredAudioInput, history>>
         \/ Publishes /\ Merge(audioInput, clock, info)
         \/ Publishes /\ Defer
      /\ UNCHANGED <<inputInfo, signalChange>>
      /\ \/ UNCHANGED <<info, audioInput>>
         \/ Begin /\ info' \in {info, [info EXCEPT !.channels = held[1].channels]}
  BY DEF Publish, ApplyChange, requests
<1>2. UNCHANGED <<info.store, info.size, info.capacity>>
  BY <1>1 DEF Listening, TypeOK, Info
<1>3. Even'
  <2>1. CASE UNCHANGED <<info, audioInput>>
    BY <2>1 DEF Fitting, Even, contained, channels
  <2>2. CASE Begin
    BY <2>2, BeginsEven
  <2> QED
    BY <1>1, <2>1, <2>2
<1>4. /\ history' \in Seq(Streams) /\ deferredAudioInput' \in Seq(Seq(Nat))
      /\ DOMAIN history' = DOMAIN history
      /\ \A c \in DOMAIN history : history'[c].size = history[c].size
      /\ history' = history
         \/ \A c \in DOMAIN history : Slid(history'[c], history[c], Block(audioInput, c))
  <2>1. CASE UNCHANGED <<deferredAudioInput, history>>
    BY <2>1 DEF Fitting
  <2>2. CASE Publishes /\ Merge(audioInput, clock, info)
    <3>1. /\ Len(deferredAudioInput) = Len(history)
          /\ \A c \in DOMAIN history : audioInput[c] \in Seq(Nat)
      BY <1>1, <2>2, BatchSuits DEF Publishes
    <3>2. /\ history' \in Seq(Streams) /\ DOMAIN history' = DOMAIN history
          /\ \A c \in DOMAIN history : Slid(history'[c], history[c], Block(audioInput, c))
          /\ deferredAudioInput' \in Seq(Seq(Nat))
      BY <2>2, <3>1, MergeSlides
    <3> QED
      BY <3>2 DEF Slid
  <2>3. CASE Publishes /\ Defer
    <3> DEFINE joined(c) == deferredAudioInput[c] \o audioInput[c]
    <3>1. history' = history /\ deferredAudioInput' = [c \in 1 .. channels |-> joined(c)]
      BY <2>3 DEF Defer
    <3>2. /\ DOMAIN history = 1 .. channels /\ DOMAIN deferredAudioInput = 1 .. channels
          /\ deferredAudioInput \in Seq(Seq(Nat))
          /\ \A c \in DOMAIN history : audioInput[c] \in Seq(Nat)
      BY <1>1, <2>3, BatchSuits DEF Publishes, Fitting
    <3>3. ASSUME NEW c \in 1 .. channels PROVE joined(c) \in Seq(Nat)
      <4>1. c \in DOMAIN deferredAudioInput /\ c \in DOMAIN history
        BY <3>2
      <4>2. deferredAudioInput \in Seq(Seq(Nat)) /\ audioInput[c] \in Seq(Nat)
        BY <3>2, <4>1
      <4>3. deferredAudioInput[c] \in Seq(Nat)
        BY <4>1, <4>2
      <4> QED
        BY <4>2, <4>3, Joined
    <3>4. channels \in Nat
      BY DEF Listening, TypeOK, channels
    <3> HIDE DEF joined
    <3>5. deferredAudioInput' \in Seq(Seq(Nat))
      BY <3>1, <3>3, <3>4
    <3> QED
      BY <3>1, <3>5 DEF Fitting
  <2> QED
    BY <1>1, <2>1, <2>2, <2>3
<1>5. Sized'
  BY <1>1, <1>2, <1>4, SizesStay
<1>6. Suited'
  BY <1>1 DEF Suited
<1> QED
  BY <1>3, <1>4, <1>5, <1>6 DEF Fitting

LEMMA InitFits == ASSUME Init PROVE Fitting
<1>1. /\ history = <<>> /\ deferredAudioInput = <<>> /\ audioInput = <<>> /\ pc = "idle"
      /\ info = NoInfo /\ inputInfo = ConsumerPart(NoInfo)
  BY DEF Init
<1>2. <<>> \in Seq(Streams) /\ <<>> \in Seq(Seq(Nat)) /\ DOMAIN <<>> = {}
  OBVIOUS
<1>3. info.size = 0 /\ info.capacity = 0 /\ inputInfo.size = 0 /\ inputInfo.capacity = 0
  BY <1>1 DEF NoInfo, ConsumerPart
<1>4. Even
  BY <1>1, <1>2 DEF Even
<1>5. Sized
  BY <1>1, <1>2, <1>3 DEF Sized
<1>6. Suited
  BY <1>1 DEF Suited
<1> QED
  BY <1>1, <1>2, <1>4, <1>5, <1>6 DEF Fitting

LEMMA UnlockFits == ASSUME Fitting, UnlockCommands PROVE Fitting'
<1>1. /\ pc = "commands" /\ pc' = "resize"
      /\ UNCHANGED <<history, deferredAudioInput, audioInput, inputInfo, info, signalChange>>
  BY DEF UnlockCommands, data, infos
<1> QED
  BY <1>1, ElsewhereFits

LEMMA AdvanceFits == ASSUME Fitting, Advance PROVE Fitting'
<1>1. /\ pc = "notify" /\ pc' = "publish"
      /\ UNCHANGED <<history, deferredAudioInput, audioInput, inputInfo, info, signalChange>>
  BY DEF Advance, data, infos, requests
<1> QED
  BY <1>1, ElsewhereFits

(* Steps that are about the listeners or those who read the history.         *)
LEMMA OthersFit ==
    ASSUME Fitting,
           \/ \E l \in Listener : AddListener(l) \/ RemoveListener(l)
           \/ ApplyAdd \/ ApplyRemove \/ Notify
           \/ EndBatch \/ Destroy \/ StreamDied
           \/ TakeViews \/ ReleaseViews \/ UNCHANGED vars
    PROVE  Fitting' /\ history' = history
<1>1. UNCHANGED <<history, deferredAudioInput, audioInput, inputInfo, info>>
  BY DEF AddListener, RemoveListener, ApplyAdd, ApplyRemove, Notify, EndBatch, Destroy,
      StreamDied, TakeViews, ReleaseViews, vars, data, infos, requests
<1>2. \/ UNCHANGED <<pc, signalChange>>
      \/ pc \in {"open", "idle"} /\ pc' \in {"end", "dead"}
  BY DEF AddListener, RemoveListener, ApplyAdd, ApplyRemove, Notify, EndBatch, Destroy,
      StreamDied, TakeViews, ReleaseViews, vars, processor
<1> QED
  BY <1>1, <1>2, ElsewhereFits DEF Batching

(* The history changes its form in the resize only; all else slides it on.   *)
Slides ==
    \/ history' = history
    \/ /\ pc = "notify" /\ DOMAIN history' = DOMAIN history
       /\ \A c \in DOMAIN history : Slid(history'[c], history[c], Block(NoInputs, c))
    \/ /\ pc = "publish" /\ DOMAIN history' = DOMAIN history
       /\ \A c \in DOMAIN history : Slid(history'[c], history[c], Block(audioInput, c))

LEMMA FinishFits ==
    ASSUME OutputAssumption, Listening, Fitting, Finish
    PROVE  Fitting' /\ (pc = "resize" \/ Slides)
<1>1. CASE ReadFlags
  <2>1. history' = history
    BY <1>1 DEF ReadFlags, data
  <2> QED
    BY <1>1, <2>1, ReadFlagsFits DEF Slides
<1>2. CASE LockCommands
  <2>1. history' = history
    BY <1>2 DEF LockCommands, data
  <2> QED
    BY <1>2, <2>1, LockFits DEF Slides
<1>3. CASE UnlockCommands
  <2>1. history' = history
    BY <1>3 DEF UnlockCommands, data
  <2> QED
    BY <1>3, <2>1, UnlockFits DEF Slides
<1>4. CASE Advance
  <2>1. history' = history
    BY <1>4 DEF Advance, data
  <2> QED
    BY <1>4, <2>1, AdvanceFits DEF Slides
<1>5. CASE ApplyAdd \/ ApplyRemove \/ Notify
  BY <1>5, OthersFit DEF Slides
<1>6. CASE ResizeHistory
  <2>1. pc = "resize"
    BY <1>6 DEF ResizeHistory
  <2> QED
    BY <1>6, <2>1, ResizeFits
<1>7. CASE Publish
  <2>1. pc = "publish"
    BY <1>7 DEF Publish
  <2> QED
    BY <1>7, <2>1, PublishFits DEF Slides
<1> QED
  BY <1>1, <1>2, <1>3, <1>4, <1>5, <1>6, <1>7 DEF Finish

LEMMA CommandsFit ==
    ASSUME OutputAssumption, Fitting, Commands PROVE Fitting' /\ history' = history
<1>1. CASE \E l \in Listener : AddListener(l) \/ RemoveListener(l)
  BY <1>1, OthersFit
<1>2. ASSUME NEW consumer \in Consumers, ModifyConsumerInfo(consumer)
      PROVE  Fitting' /\ history' = history
  <2>1. history' = history
    BY <1>2 DEF ModifyConsumerInfo, data
  <2> QED
    BY <1>2, <2>1, ModifyFits
<1> QED
  BY <1>1, <1>2 DEF Commands

(* An Output by itself ...                                                   *)
LEMMA NextFits ==
    ASSUME OutputAssumption, Listening, Fitting, [Next]_vars
    PROVE  Fitting' /\ (pc = "resize" \/ Slides)
<1>1. CASE Batch
  <2>1. CASE BeginBatch
    <3>1. history' = history
      BY <2>1 DEF BeginBatch
    <3> QED
      BY <2>1, <3>1, BeginFits DEF Slides
  <2>2. CASE GiveAudio
    <3>1. PICK n \in 1 .. Least(MaxPacket, MaxSamples - sent.samples) :
            HandleFrame([type |-> "audio", channels |-> sent.channels,
                         samples |-> [i \in 1 .. n |-> sent.samples + i]])
      BY <2>2 DEF GiveAudio
    <3> DEFINE s == [i \in 1 .. n |-> sent.samples + i]
               f == [type |-> "audio", channels |-> sent.channels, samples |-> s]
    <3>2. sent.samples \in Nat /\ sent.channels \in Nat \ {0}
      BY <2>2 DEF GiveAudio, Listening, TypeOK
    <3>3. n \in Nat
      BY <3>2 DEF OutputAssumption, Least
    <3>4. s \in Seq(Nat)
      BY <3>2, <3>3
    <3> HIDE DEF s
    <3>5. pc = "open" /\ HandleAudio(f) /\ f.channels \in Nat \ {0} /\ f.samples \in Seq(Nat)
      BY <3>1, <3>2, <3>4 DEF HandleFrame, s
    <3> HIDE DEF f
    <3>6. history' = history
      BY <3>5 DEF HandleAudio
    <3> QED
      BY <3>5, <3>6, AudioFits DEF Slides
  <2>3. CASE GiveInfo \/ GiveTransport
    <3>1. PICK f : pc = "open" /\ HandleChange(f)
      BY <2>3 DEF GiveInfo, GiveTransport, HandleFrame
    <3>2. history' = history
      BY <3>1 DEF HandleChange, data
    <3> QED
      BY <3>1, <3>2, ChangeFits DEF Slides
  <2>4. CASE EndBatch
    BY <2>4, OthersFit DEF Slides
  <2> QED
    BY <1>1, <2>1, <2>2, <2>3, <2>4 DEF Batch
<1>2. CASE Finish
  BY <1>2, FinishFits
<1>3. CASE Spool
  BY <1>3, SpoolKeepsFit DEF Slides, Spool
<1>4. CASE Commands
  BY <1>4, CommandsFit DEF Slides
<1>5. CASE TakeViews \/ ReleaseViews \/ Destroy \/ StreamDied \/ Stopped \/ UNCHANGED vars
  BY <1>5, OthersFit DEF Slides, Stopped
<1> QED
  BY <1>1, <1>2, <1>3, <1>4, <1>5 DEF Next

(* ... and in a stream, which may lose the frame that says how many channels *)
(* the audio has.                                                            *)
LEMMA StreamNextFits ==
    ASSUME OutputAssumption, SInv, Fitting, [StreamNext]_streamVars
    PROVE  Fitting' /\ (pc = "resize" \/ Slides)
<1>1. CASE Producer \/ AsyncDone \/ UNCHANGED streamVars
  <2>1. UNCHANGED vars
    BY <1>1 DEF Producer, InitializeInfo, ProcessIncomingRTAudio, HostMoves, IsAnyoneListening,
         SubmitFrame, DropFrame, DestroyInput, AsyncDone, streamVars
  <2> QED
    BY <2>1, OthersFit DEF Slides
<1>2. CASE AsyncBegin \/ AsyncRelease
  <2>1. BeginBatch
    BY <1>2 DEF AsyncBegin, AsyncRelease
  <2>2. history' = history
    BY <2>1 DEF BeginBatch
  <2> QED
    BY <2>1, <2>2, BeginFits DEF Slides, SInv
<1>3. CASE AsyncHandle
  <2> DEFINE f == Head(fifo)
  <2>1. f \in Frame /\ pc = "open" /\ HandleFrame(f)
    <3>1. fifo \in Seq(Frame) /\ fifo # <<>>
      BY <1>3 DEF AsyncHandle, Take, SInv, FramesOK
    <3> QED
      BY <1>3, <3>1 DEF AsyncHandle, HandleFrame
  <2> HIDE DEF f
  <2>2. CASE f \in Audio
    <3>1. HandleAudio(f) /\ f.channels \in Nat \ {0} /\ f.samples \in Seq(Nat)
      BY <2>1, <2>2 DEF HandleFrame, Audio
    <3>2. history' = history
      BY <3>1 DEF HandleAudio
    <3> QED
      BY <2>1, <3>1, <3>2, AudioFits DEF Slides, SInv
  <2>3. CASE f \in Change
    <3>1. HandleChange(f)
      BY <2>1, <2>3 DEF HandleFrame, Change
    <3>2. history' = history
      BY <3>1 DEF HandleChange, data
    <3> QED
      BY <2>1, <3>1, <3>2, ChangeFits DEF Slides, SInv
  <2> QED
    BY <2>1, <2>2, <2>3 DEF Frame
<1>4. CASE AsyncEnd
  BY <1>4, OthersFit DEF AsyncEnd, Slides
<1>5. CASE Finish
  BY <1>5, FinishFits DEF SInv
<1>6. CASE Commands
  BY <1>6, CommandsFit DEF Slides
<1>7. CASE Spool
  BY <1>7, SpoolKeepsFit DEF SInv, Slides, Spool
<1> QED
  BY <1>1, <1>2, <1>3, <1>4, <1>5, <1>6, <1>7 DEF StreamNext, Async

(* When a batch is published, or spooled by a listener, each channel of the  *)
(* batch has its place in the history and its deferred audio, as many        *)
(* samples as the others, and a history of the size that was asked for.      *)
StorageFits ==
    pc \in {"notify", "publish"} /\ info.store =>
        /\ Len(history) = channels /\ Len(deferredAudioInput) = channels
        /\ \A c \in 1 .. channels :
              /\ history[c] \in Streams /\ history[c].size = info.size
              /\ Len(audioInput[c]) = contained

LEMMA FittingStores == ASSUME Listening, Fitting PROVE StorageFits
<1>1. ASSUME pc \in {"notify", "publish"}, info.store PROVE StorageFits
  <2>1. /\ Len(history) = channels /\ Len(deferredAudioInput) = channels
        /\ \A c \in DOMAIN history : Len(audioInput[c]) = contained
    BY <1>1, BatchSuits
  <2>2. /\ history \in Seq(Streams) /\ DOMAIN history = 1 .. channels
        /\ \A c \in DOMAIN history : history[c].size = info.size
    BY <1>1, <2>1 DEF Fitting, Sized
  <2> QED
    BY <2>1, <2>2 DEF StorageFits
<1> QED
  BY <1>1 DEF StorageFits

(* What mergeInputToBuffer() asserts, that there are as many histories as    *)
(* channels of deferred audio, holds while the audio is stored, whenever an  *)
(* Output by itself may merge, and each channel has its size: for any change *)
(* of formats and sizes, after storing was off, and whoever reads meanwhile. *)
(* (While storing is off nothing is published, but a listener may spool and  *)
(* find the numbers different: SpoolFits.)                                   *)
THEOREM StorageAlwaysFits == Spec => []StorageFits
<1>1. Init => Fitting
  BY InitFits
<1>2. IInv /\ Fitting /\ [Next]_vars => Fitting'
  BY OutputAssumption, NextFits DEF IInv
<1>3. IInv /\ Fitting => StorageFits
  BY FittingStores DEF IInv
<1> QED
  BY <1>1, <1>2, <1>3, Invariance, PTL DEF Spec

(* It holds in the whole stream as well, where the frame that announces the  *)
(* number of channels may be lost, so that the audio has another one.        *)
THEOREM StreamStorageFits == StreamSpec => []StorageFits
<1>1. StreamInit => Fitting
  BY InitFits DEF StreamInit
<1>2. SInv /\ Fitting /\ [StreamNext]_streamVars => Fitting'
  BY OutputAssumption, StreamNextFits
<1>3. SInv /\ Fitting => StorageFits
  BY FittingStores DEF SInv
<1> QED
  BY <1>1, <1>2, <1>3, StreamInvariance, PTL DEF StreamSpec

(* Between two resizes the history of a channel is a window that slides on:  *)
(* the step that changes it, at the end of a batch or as a listener spools,  *)
(* appends what was deferred and then the batch, and drops as many of the    *)
(* oldest samples.                                                           *)
THEOREM HistorySlidesOn == Spec => [][pc = "resize" \/ Slides]_vars
<1>1. Init => Fitting
  BY InitFits
<1>2. IInv /\ Fitting /\ [Next]_vars => Fitting' /\ [pc = "resize" \/ Slides]_vars
  BY OutputAssumption, NextFits DEF IInv
<1> QED
  BY <1>1, <1>2, Invariance, PTL DEF Spec

(* So it is in a stream that loses frames.                                   *)
THEOREM StreamHistorySlides == StreamSpec => [][pc = "resize" \/ Slides]_vars
<1>1. StreamInit => Fitting
  BY InitFits DEF StreamInit
<1>2. SInv /\ Fitting /\ [StreamNext]_streamVars => Fitting'
  BY OutputAssumption, StreamNextFits
<1>3. SInv /\ Fitting /\ [StreamNext]_streamVars => [pc = "resize" \/ Slides]_vars
  BY OutputAssumption, StreamNextFits
<1> QED
  BY <1>1, <1>2, <1>3, StreamInvariance, PTL DEF StreamSpec

-----------------------------------------------------------------------------
(***************************************************************************)
(* The circular stream by itself, with its writers and views (LifoStream). *)
(***************************************************************************)
(* A sample is a block of one.                                               *)
LEMMA SampleIsBlock ==
    ASSUME NEW s \in Streams, s.size > 0, NEW x \in Nat
    PROVE  SetHeadAndAdvance(s, x) = CopyIntoHead(s, <<x>>)
<1> DEFINE m == s.memory
           c == s.cursor
<1>1. s.size \in Nat /\ c \in Nat /\ c < s.size
  BY OfStream
<1>2. PICK cap \in Nat : m \in [0 .. cap - 1 -> Nat]
  BY OfStream
<1>3. c \in DOMAIN m
  BY <1>1, OfStream
<1>4. Least(Len(<<x>>), s.size) = 1 /\ Least(s.size - c, 1) = 1 /\ Len(<<x>>) = 1 /\ s.size # 0
  BY <1>1 DEF Least
<1>5. Moved(m, c, <<x>>, 1, 1) = [m EXCEPT ![c] = x]
  <2>1. \A i \in DOMAIN m : c <= i /\ i < c + 1 <=> i = c
    BY <1>1, <1>2
  <2>2. <<x>>[1 + c - c] = x
    BY <1>1
  <2> QED
    BY <1>2, <1>3, <2>1, <2>2 DEF Moved
<1>6. \A a : Moved([m EXCEPT ![c] = x], 0, a, 2, 0) = [m EXCEPT ![c] = x]
  <2>1. \A i \in DOMAIN m : ~(0 <= i /\ i < 0 + 0)
    BY <1>2
  <2> QED
    BY <1>2, <2>1 DEF Moved
<1>7. s = [memory |-> m, size |-> s.size, cursor |-> c]
  BY OfStream
<1>8. CopyIntoHead(s, <<x>>) = [s EXCEPT !.memory = [m EXCEPT ![c] = x], !.cursor = (c + 1) % s.size]
  <2>1. CopyIntoHead(s, <<x>>) = [s EXCEPT !.memory = Moved(Moved(m, c, <<x>>, 1 - 1 + 1, 1), 0, <<x>>, 1 - 1 + 1 + 1, 1 - 1),
                                           !.cursor = (c + 1) % s.size]
    BY <1>4, <1>7, Zenon DEF CopyIntoHead
  <2>2. 1 - 1 + 1 = 1 /\ 1 + 1 = 2 /\ 1 - 1 = 0
    OBVIOUS
  <2> QED
    BY <1>5, <1>6, <2>1, <2>2, Zenon
<1>9. SetHeadAndAdvance(s, x) = [s EXCEPT !.memory = [m EXCEPT ![c] = x], !.cursor = (c + 1) % s.size]
  BY <1>7 DEF SetHeadAndAdvance
<1> QED
  BY <1>8, <1>9

(* What a window is as a sequence.                                           *)
LEMMA WindowIsSeq ==
    ASSUME NEW s \in Streams
    PROVE  /\ Window(s) \in Seq(Nat) /\ Len(Window(s)) = s.size /\ s.size \in Nat
           /\ \A i \in 1 .. s.size : Window(s)[i] \in Nat
<1>1. s.size \in Nat
  BY OfStream
<1>2. ASSUME NEW i \in 1 .. s.size PROVE s.memory[(s.cursor + i - 1) % s.size] \in Nat
  <2>1. (s.cursor + i - 1) % s.size \in 0 .. s.size - 1
    BY OfStream
  <2> QED
    BY <1>1, <2>1, OfStream
<1>3. Window(s) \in [1 .. s.size -> Nat]
  BY <1>2 DEF Window
<1> QED
  BY <1>1, <1>3

(* Two sequences of numbers are the same if their elements are.              *)
LEMMA SameSeq ==
    ASSUME NEW a \in Seq(Nat), NEW b \in Seq(Nat), Len(a) = Len(b),
           \A i \in 1 .. Len(a) : a[i] = b[i]
    PROVE  a = b
OBVIOUS

(* The n newest elements of a sequence.                                      *)
Latest(b, a, n) ==
    b \in Seq(Nat) /\ Len(b) = n /\ \A i \in 1 .. n : b[i] = a[Len(a) - n + i]

(* That is what SubSeq gives.                                                *)
LEMMA NewestOf ==
    ASSUME NEW a \in Seq(Nat), NEW n \in Nat, n <= Len(a)
    PROVE  Latest(SubSeq(a, Len(a) - n + 1, Len(a)), a, n)
BY SMTT(30) DEF Latest

(* A block that slides the window on is recorded.                            *)
LEMMA SlidingRecords ==
    ASSUME NEW s \in Streams, NEW t, NEW block \in Seq(Nat), Slid(t, s, block)
    PROVE  Window(t) = SubSeq(Window(s) \o block, Len(Window(s) \o block) - Len(Window(s)) + 1,
                              Len(Window(s) \o block))
<1> DEFINE w == Window(s)
           k == Len(block)
           a == w \o block
           b == SubSeq(a, Len(a) - Len(w) + 1, Len(a))
<1>1. /\ t \in Streams /\ t.size = s.size
      /\ \A i \in 1 .. s.size : Window(t)[i] = IF i + k <= s.size THEN w[i + k]
                                               ELSE block[i + k - s.size]
  BY DEF Slid
<1>2. w \in Seq(Nat) /\ Len(w) = s.size /\ s.size \in Nat /\ k \in Nat
  BY WindowIsSeq
<1>3. Window(t) \in Seq(Nat) /\ Len(Window(t)) = s.size
  BY <1>1, WindowIsSeq
<1> HIDE DEF w, k
<1>4. /\ a \in Seq(Nat) /\ Len(a) = s.size + k
      /\ \A i \in 1 .. s.size + k : a[i] = IF i <= s.size THEN w[i] ELSE block[i - s.size]
  <2>1. /\ a \in Seq(Nat) /\ Len(a) = Len(w) + Len(block)
        /\ \A i \in 1 .. Len(w) + Len(block) : a[i] = IF i <= Len(w) THEN w[i] ELSE block[i - Len(w)]
    BY <1>2, Joined
  <2> HIDE DEF a
  <2> QED
    BY <1>2, <2>1 DEF k
<1> HIDE DEF a
<1>5. b \in Seq(Nat) /\ Len(b) = s.size /\ \A i \in 1 .. s.size : b[i] = a[k + i]
  <2>1. Len(a) - s.size = k /\ Len(w) <= Len(a) /\ Len(w) \in Nat
    BY <1>2, <1>4
  <2>2. Latest(b, a, Len(w))
    BY <1>4, <2>1, NewestOf
  <2> HIDE DEF b
  <2> QED
    BY <1>2, <2>1, <2>2 DEF Latest
<1> HIDE DEF b
<1>6. ASSUME NEW i \in 1 .. s.size PROVE Window(t)[i] = b[i]
  <2>1. PICK j \in 1 .. s.size + k : j = k + i /\ j = i + k
    BY <1>2
  <2>2. a[j] = IF j <= s.size THEN w[j] ELSE block[j - s.size]
    BY <1>4
  <2>3. b[i] = a[j]
    BY <1>5, <2>1
  <2>4. Window(t)[i] = IF j <= s.size THEN w[j] ELSE block[j - s.size]
    <3>1. Window(t)[i] = IF i + k <= s.size THEN w[i + k] ELSE block[i + k - s.size]
      BY <1>1
    <3>2. i + k - s.size = j - s.size
      BY <1>2, <2>1
    <3> QED
      BY <2>1, <3>1, <3>2, Zenon
  <2> QED
    BY <2>2, <2>3, <2>4
<1>7. Window(t) = b
  BY <1>3, <1>5, <1>6, SameSeq
<1> QED
  BY <1>7 DEF b, a, w

(* A new size pads the window, or drops its oldest samples.                  *)
LEMMA SizesResize ==
    ASSUME NEW s \in Streams, NEW t, NEW n \in Nat, Resized(t, s, n)
    PROVE  Window(t) = IF n <= Len(Window(s))
                       THEN SubSeq(Window(s), Len(Window(s)) - n + 1, Len(Window(s)))
                       ELSE [i \in 1 .. n - Len(Window(s)) |-> Filler] \o Window(s)
<1> DEFINE w == Window(s)
<1>1. /\ t \in Streams /\ t.size = n
      /\ \A i \in 1 .. n : Window(t)[i] = IF i + s.size > n THEN w[i + s.size - n] ELSE Filler
  BY DEF Resized
<1>2. w \in Seq(Nat) /\ Len(w) = s.size /\ s.size \in Nat
  BY WindowIsSeq
<1>3. Window(t) \in Seq(Nat) /\ Len(Window(t)) = n
  BY <1>1, WindowIsSeq
<1> HIDE DEF w
<1>4. CASE n <= s.size
  <2> DEFINE b == SubSeq(w, Len(w) - n + 1, Len(w))
  <2>1. b \in Seq(Nat) /\ Len(b) = n /\ \A i \in 1 .. n : b[i] = w[s.size - n + i]
    <3>1. n <= Len(w)
      BY <1>2, <1>4
    <3>2. Latest(b, w, n)
      BY <1>2, <3>1, NewestOf
    <3> HIDE DEF b
    <3> QED
      BY <1>2, <3>2 DEF Latest
  <2> HIDE DEF b
  <2>2. ASSUME NEW i \in 1 .. n PROVE Window(t)[i] = b[i]
    <3>1. i + s.size > n /\ i + s.size - n = s.size - n + i
      BY <1>2, <1>4
    <3> QED
      BY <1>1, <2>1, <3>1
  <2>3. Window(t) = b
    BY <1>3, <2>1, <2>2, SameSeq
  <2> QED
    BY <1>2, <1>4, <2>3 DEF b, w
<1>5. CASE ~(n <= s.size)
  <2> DEFINE pad == [i \in 1 .. n - Len(w) |-> Filler]
             b == pad \o w
  <2>1. n - Len(w) \in Nat /\ Filler \in Nat
    BY <1>2, <1>5 DEF Filler
  <2>2. pad \in Seq(Nat) /\ Len(pad) = n - s.size /\ \A i \in 1 .. n - s.size : pad[i] = Filler
    BY <1>2, <2>1
  <2> HIDE DEF pad
  <2>3. /\ b \in Seq(Nat) /\ Len(b) = Len(pad) + Len(w)
        /\ \A i \in 1 .. Len(pad) + Len(w) : b[i] = IF i <= Len(pad) THEN pad[i] ELSE w[i - Len(pad)]
    BY <1>2, <2>2, Joined
  <2>4. Len(pad) + Len(w) = n
    BY <1>2, <2>2
  <2> HIDE DEF b
  <2>5. ASSUME NEW i \in 1 .. n PROVE Window(t)[i] = b[i]
    <3>1. b[i] = IF i <= n - s.size THEN pad[i] ELSE w[i - (n - s.size)]
      BY <2>2, <2>3, <2>4
    <3>2. CASE i <= n - s.size
      <4>1. i \in 1 .. n - s.size /\ ~(i + s.size > n)
        BY <1>2, <3>2
      <4> QED
        BY <1>1, <2>2, <3>1, <3>2, <4>1
    <3>3. CASE ~(i <= n - s.size)
      <4>1. i + s.size > n /\ i + s.size - n = i - (n - s.size)
        BY <1>2, <3>3
      <4> QED
        BY <1>1, <3>1, <3>3, <4>1
    <3> QED
      BY <3>2, <3>3
  <2>6. Window(t) = b
    BY <1>3, <2>3, <2>4, <2>5, SameSeq
  <2> QED
    BY <1>2, <1>5, <2>6 DEF b, pad, w
<1> QED
  BY <1>4, <1>5

(* The stream and the cursor that a writer has in hand make a stream.        *)
Writing(c) == writers = <<c>> /\ hasWriter /\ (c < stream.size \/ c = 0)

LifoInv ==
    /\ stream \in Streams /\ produced \in Nat
    /\ (writers = <<>> /\ ~hasWriter) \/ \E c \in Nat : Writing(c)

(* What is seen is a stream.                                                 *)
LEMMA SeenStream == ASSUME LifoInv PROVE Seen \in Streams /\ Seen.size = stream.size
<1>1. CASE writers = <<>>
  BY <1>1 DEF Seen, LifoInv
<1>2. CASE writers # <<>>
  <2>0. PICK c \in Nat : Writing(c)
    BY <1>2 DEF LifoInv
  <2>1. writers = <<c>> /\ (c < stream.size \/ c = 0)
    BY <2>0 DEF Writing
  <2>2. Seen = [stream EXCEPT !.cursor = c]
    BY <1>2, <2>1 DEF Seen
  <2>3. [stream EXCEPT !.cursor = c] \in Streams /\ [stream EXCEPT !.cursor = c].size = stream.size
    BY <2>1 DEF LifoInv, Streams
  <2> QED
    BY <2>2, <2>3
<1> QED
  BY <1>1, <1>2

(* What a writer does is seen at once.                                       *)
LEMMA WriterIsSeen ==
    ASSUME LifoInv, NEW t \in Streams, t.size = stream.size, WriterDoes(t)
    PROVE  /\ stream' \in Streams /\ Seen' = t /\ stream'.size = stream.size
           /\ \E c \in Nat : Writing(c)'
<1>0. PICK c \in Nat : Writing(c)
  BY DEF LifoInv, WriterDoes
<1>1. writers = <<c>> /\ hasWriter /\ (c < stream.size \/ c = 0)
  BY <1>0 DEF Writing
<1>2. /\ stream' = [stream EXCEPT !.memory = t.memory]
      /\ writers' = <<t.cursor>> /\ hasWriter'
  <2>1. Tail(writers) = <<>>
    BY <1>1
  <2>2. <<t.cursor>> \o <<>> = <<t.cursor>>
    OBVIOUS
  <2> QED
    BY <1>1, <2>1, <2>2 DEF WriterDoes
<1>3. /\ t = [memory |-> t.memory, size |-> t.size, cursor |-> t.cursor]
      /\ t.cursor \in Nat /\ (t.cursor < t.size \/ t.cursor = 0) /\ t.size \in Nat
  BY OfStream
<1>4. /\ stream = [memory |-> stream.memory, size |-> stream.size, cursor |-> stream.cursor]
      /\ stream.cursor \in Nat /\ (stream.cursor < stream.size \/ stream.cursor = 0)
  BY OfStream DEF LifoInv
<1>5. stream' = [memory |-> t.memory, size |-> t.size, cursor |-> stream.cursor]
  BY <1>2, <1>4
<1>6. stream' \in Streams
  <2>1. t.memory \in Memories /\ 0 .. t.size - 1 \subseteq DOMAIN t.memory
    BY DEF Streams
  <2> QED
    BY <1>3, <1>4, <1>5, <2>1 DEF Streams
<1>7. Seen' = t
  <2>1. Seen' = [stream' EXCEPT !.cursor = Head(writers')]
    BY <1>2 DEF Seen
  <2>2. Head(writers') = t.cursor
    BY <1>2
  <2> QED
    BY <1>3, <1>5, <2>1, <2>2
<1>8. stream'.size = stream.size
  BY <1>5
<1> QED
  BY <1>2, <1>3, <1>6, <1>7, <1>8 DEF Writing

(* The step's block, and the window after it.                                *)
Recording(block) ==
    /\ produced' = produced + Len(block) /\ stream'.size = stream.size
    /\ \A i \in 1 .. Len(block) : block[i] = produced + i
    /\ Slid(Seen', Seen, block)

(* To record is what the window does.                                        *)
LEMMA RecordingRecords ==
    ASSUME LifoInv, NEW block \in Seq(Nat), Recording(block)
    PROVE  History!Record([i \in 1 .. produced' - produced |-> produced + i])
<1> DEFINE b == [i \in 1 .. produced' - produced |-> produced + i]
<1>1. b = block
  <2>1. produced' - produced = Len(block) /\ Len(block) \in Nat
    BY DEF Recording, LifoInv
  <2>2. DOMAIN block = 1 .. Len(block) /\ block = [i \in DOMAIN block |-> block[i]]
    OBVIOUS
  <2> QED
    BY <2>1, <2>2 DEF Recording
<1>2. Window(Seen)' = SubSeq(Window(Seen) \o block,
         Len(Window(Seen) \o block) - Len(Window(Seen)) + 1, Len(Window(Seen) \o block))
  <2>1. Slid(Seen', Seen, block)
    BY DEF Recording
  <2> QED
    BY <2>1, SeenStream, SlidingRecords
<1> HIDE DEF b
<1> QED
  BY <1>1, <1>2 DEF History!Record, History!Newest, b

(* A step that leaves what is seen as it was records nothing.                *)
LEMMA QuietRecords ==
    ASSUME LifoInv, Seen' = Seen, stream'.size = stream.size, produced' = produced
    PROVE  Recording(<<>>)
<1>1. Seen \in Streams /\ Seen.size \in Nat
  BY SeenStream, OfStream
<1>2. Len(<<>>) = 0 /\ produced \in Nat
  BY DEF LifoInv
<1> DEFINE s == Seen
<1>3. Slid(s, s, <<>>)
  <2> HIDE DEF s
  <2>1. \A i \in 1 .. s.size : i + Len(<<>>) <= s.size /\ i + Len(<<>>) = i
    BY <1>2
  <2> QED
    BY <1>1, <2>1 DEF Slid, s
<1> QED
  BY <1>2, <1>3 DEF Recording

(* What IsSlidingWindow says of a step.                                      *)
WindowStep ==
    IF stream'.size # stream.size
    THEN History!Resize(stream'.size)
    ELSE History!Record([i \in 1 .. produced' - produced |-> produced + i])

(* To record is one of its steps.                                            *)
LEMMA RecordingSteps ==
    ASSUME LifoInv, NEW block \in Seq(Nat), Recording(block) PROVE WindowStep
BY RecordingRecords DEF Recording, WindowStep

(* The views, and a writer's begin and end.                                  *)
LEMMA AccessKeeps ==
    ASSUME LifoInv, CreateProxyView \/ ReleaseReader
                    \/ (writers = <<>> /\ CreateWriter) \/ ReleaseWriter
    PROVE  LifoInv' /\ WindowStep
<1>1. LifoInv' /\ Seen' = Seen /\ stream'.size = stream.size /\ produced' = produced
  <2>1. CASE CreateProxyView \/ ReleaseReader
    <3>1. UNCHANGED <<stream, writers, hasWriter, produced>>
      BY <2>1 DEF CreateProxyView, ReleaseReader
    <3> QED
      BY <3>1 DEF LifoInv, Writing, Seen
  <2>2. CASE writers = <<>> /\ CreateWriter
    <3>1. hasWriter' /\ writers' = <<stream.cursor>> /\ UNCHANGED <<stream, produced>>
      BY <2>2 DEF CreateWriter
    <3>2. /\ stream.cursor \in Nat /\ (stream.cursor < stream.size \/ stream.cursor = 0)
          /\ stream = [memory |-> stream.memory, size |-> stream.size, cursor |-> stream.cursor]
      BY OfStream DEF LifoInv
    <3>3. Writing(stream.cursor)'
      BY <3>1, <3>2 DEF Writing
    <3>4. Seen' = [stream EXCEPT !.cursor = stream.cursor]
      BY <3>1 DEF Seen
    <3>5. Seen = stream
      BY <2>2 DEF Seen
    <3> QED
      BY <3>1, <3>2, <3>3, <3>4, <3>5 DEF LifoInv
  <2>3. CASE ReleaseWriter
    <3>0. PICK c \in Nat : Writing(c)
      BY <2>3 DEF LifoInv, ReleaseWriter
    <3>1. writers = <<c>> /\ (c < stream.size \/ c = 0)
      BY <3>0 DEF Writing
    <3>2. ~hasWriter' /\ writers' = <<>> /\ stream' = [stream EXCEPT !.cursor = c] /\ produced' = produced
      <4>1. Head(writers) = c /\ Tail(writers) = <<>>
        BY <3>1
      <4> QED
        BY <2>3, <4>1 DEF ReleaseWriter
    <3>3. Seen' = stream'
      BY <3>2 DEF Seen
    <3>4. Seen = [stream EXCEPT !.cursor = c]
      BY <3>1 DEF Seen
    <3>5. stream' \in Streams /\ stream'.size = stream.size
      BY <3>2, <3>4, SeenStream
    <3> QED
      BY <3>2, <3>3, <3>4, <3>5 DEF LifoInv
  <2> QED
    BY <2>1, <2>2, <2>3
<1>2. Recording(<<>>)
  BY <1>1, QuietRecords
<1>3. <<>> \in Seq(Nat)
  OBVIOUS
<1> QED
  BY <1>1, <1>2, <1>3, RecordingSteps

(* A writer writes a block.                                                  *)
LEMMA BlockKeeps ==
    ASSUME LifoInv, NEW block \in Seq(Nat), \A i \in 1 .. Len(block) : block[i] = produced + i,
           WriterDoes(CopyIntoHead(Seen, block)), produced' = produced + Len(block)
    PROVE  LifoInv' /\ WindowStep
<1> DEFINE t == CopyIntoHead(Seen, block)
<1>1. Slid(t, Seen, block)
  BY SeenStream, WritingSlides
<1>2. t \in Streams /\ t.size = stream.size
  BY <1>1, SeenStream DEF Slid
<1> HIDE DEF t
<1>3. WriterDoes(t)
  BY DEF t
<1>4. /\ stream' \in Streams /\ Seen' = t /\ stream'.size = stream.size
      /\ \E c \in Nat : Writing(c)'
  BY <1>2, <1>3, WriterIsSeen
<1>5. produced' \in Nat
  BY DEF LifoInv
<1>6. Recording(block)
  BY <1>1, <1>4 DEF Recording
<1> QED
  BY <1>4, <1>5, <1>6, RecordingSteps DEF LifoInv

(* A block of new samples.                                                   *)
LEMMA WriteBlockKeeps == ASSUME LifoInv, WriteBlock PROVE LifoInv' /\ WindowStep
<1>1. PICK n \in 1 .. Least(MaxBlock, MaxProduced - produced) :
        /\ WriterDoes(CopyIntoHead(Seen, [i \in 1 .. n |-> produced + i]))
        /\ produced' = produced + n
  BY DEF WriteBlock
<1> DEFINE block == [i \in 1 .. n |-> produced + i]
<1>2. n \in Nat /\ produced \in Nat
  BY DEF LifoInv
<1>3. block \in Seq(Nat) /\ Len(block) = n /\ \A i \in 1 .. Len(block) : block[i] = produced + i
  BY <1>2
<1>4. WriterDoes(CopyIntoHead(Seen, block))
  BY <1>1
<1> HIDE DEF block
<1> QED
  BY <1>1, <1>3, <1>4, BlockKeeps

(* A new sample, by setHeadAndAdvance().                                     *)
LEMMA WriteSampleKeeps == ASSUME LifoInv, WriteSample PROVE LifoInv' /\ WindowStep
<1> DEFINE block == <<produced + 1>>
<1>1. /\ WriterDoes(SetHeadAndAdvance(Seen, produced + 1))
      /\ produced' = produced + 1 /\ stream.size > 0
  BY DEF WriteSample
<1>2. produced + 1 \in Nat
  BY DEF LifoInv
<1>3. block \in Seq(Nat) /\ Len(block) = 1 /\ \A i \in 1 .. Len(block) : block[i] = produced + i
  BY <1>2
<1>4. SetHeadAndAdvance(Seen, produced + 1) = CopyIntoHead(Seen, block)
  BY <1>1, <1>2, SeenStream, SampleIsBlock
<1> HIDE DEF block
<1> QED
  BY <1>1, <1>3, <1>4, BlockKeeps

(* The owner asks for another size, or capacity.                             *)
LEMMA NewSizeKeeps == ASSUME LifoInv, Resize PROVE LifoInv' /\ WindowStep
<1>1. PICK c \in 0 .. MaxCapacity : \E n \in 0 .. c :
        stream' = SetStorageRequirements(stream, n, c, TRUE, Filler)
  BY DEF Resize
<1>2. PICK n \in 0 .. c : stream' = SetStorageRequirements(stream, n, c, TRUE, Filler)
  BY <1>1
<1>3. c \in Nat /\ n \in Nat /\ Garbage \in Nat
  BY LifoAssumption DEF LifoAssumption
<1>4. Resized(stream', stream, n)
  BY <1>2, <1>3, ResizingKeepsTheNewest DEF LifoInv
<1>5. stream' \in Streams /\ stream'.size = n
  BY <1>4 DEF Resized
<1>6. writers = <<>> /\ ~hasWriter /\ UNCHANGED <<writers, hasWriter, produced>>
  BY DEF LifoInv, Writing, Resize, Idle, access
<1>7. LifoInv'
  BY <1>5, <1>6 DEF LifoInv
<1>8. Seen = stream /\ Seen' = stream'
  BY <1>6 DEF Seen
<1>9. CASE n # stream.size
  <2>1. Window(Seen) = Window(stream) /\ Window(Seen)' = Window(stream')
    BY <1>8
  <2>2. Window(stream') = IF n <= Len(Window(stream))
                          THEN SubSeq(Window(stream), Len(Window(stream)) - n + 1, Len(Window(stream)))
                          ELSE [i \in 1 .. n - Len(Window(stream)) |-> Filler] \o Window(stream)
    BY <1>3, <1>4, SizesResize DEF LifoInv
  <2>3. History!Resize(n)
    BY <2>1, <2>2, Zenon DEF History!Resize, History!Resized, History!Newest
  <2> QED
    BY <1>5, <1>7, <1>9, <2>3 DEF WindowStep
<1>10. CASE n = stream.size
  <2>1. Slid(stream', stream, <<>>)
    <3>1. /\ Len(<<>>) = 0 /\ stream.size \in Nat
      BY OfStream DEF LifoInv
    <3>2. ASSUME NEW i \in 1 .. stream.size
          PROVE  Window(stream')[i] = Window(stream)[i] /\ i + Len(<<>>) <= stream.size /\ i + Len(<<>>) = i
      <4>1. i + stream.size > n /\ i + stream.size - n = i
        BY <1>10, <3>1
      <4>2. Window(stream')[i] = Window(stream)[i]
        BY <1>4, <1>10, <4>1 DEF Resized
      <4> QED
        BY <3>1, <4>2
    <3> QED
      BY <1>5, <1>10, <3>2 DEF Slid
  <2>2. Recording(<<>>)
    <3>1. Len(<<>>) = 0 /\ produced \in Nat
      BY DEF LifoInv
    <3> QED
      BY <1>5, <1>6, <1>8, <1>10, <2>1, <3>1 DEF Recording
  <2>3. <<>> \in Seq(Nat)
    OBVIOUS
  <2> QED
    BY <1>7, <2>2, <2>3, RecordingSteps
<1> QED
  BY <1>9, <1>10

(* What a step keeps and does to the window.                                 *)
LEMMA LifoNextKeeps == ASSUME LifoInv, LifoNext PROVE LifoInv' /\ WindowStep
<1>1. \/ CreateProxyView \/ ReleaseReader
         \/ (writers = <<>> /\ CreateWriter) \/ ReleaseWriter
      \/ WriteBlock \/ WriteSample \/ Resize
  BY DEF LifoNext
<1>2. CASE \/ CreateProxyView \/ ReleaseReader
           \/ (writers = <<>> /\ CreateWriter) \/ ReleaseWriter
  BY <1>2, AccessKeeps
<1>3. CASE WriteBlock
  BY <1>3, WriteBlockKeeps
<1>4. CASE WriteSample
  BY <1>4, WriteSampleKeeps
<1>5. CASE Resize
  BY <1>5, NewSizeKeeps
<1> QED
  BY <1>1, <1>2, <1>3, <1>4, <1>5

(* The invariant of the circular stream, for all capacities, blocks and      *)
(* numbers of samples.                                                       *)
THEOREM LifoInvariance == LifoSpec => []LifoInv
<1>1. LifoInit => LifoInv
  <2>1. ASSUME LifoInit PROVE stream \in Streams
    <3>1. stream = [memory |-> [i \in {} |-> Garbage], size |-> 0, cursor |-> 0]
      BY <2>1 DEF LifoInit, NewStream
    <3>2. 0 .. 0 - 1 = {} /\ 0 \in Nat /\ 0 \in 0 .. 0 /\ ((0 < 0) \/ 0 = 0)
      OBVIOUS
    <3> DEFINE m == [i \in {} |-> Garbage]
    <3>4. m \in [0 .. 0 - 1 -> Nat]
      BY <3>2
    <3> HIDE DEF m
    <3>5. [memory |-> m, size |-> 0, cursor |-> 0] \in Streams
      BY <3>2, <3>4, ToStream, Zenon
    <3> QED
      BY <3>1, <3>5 DEF m
  <2>2. LifoInit => writers = <<>> /\ ~hasWriter /\ produced = 0
    BY DEF LifoInit
  <2> QED
    BY <2>1, <2>2 DEF LifoInv
<1>2. LifoInv /\ [LifoNext]_lifoVars => LifoInv'
  <2>1. ASSUME LifoInv, UNCHANGED lifoVars PROVE LifoInv'
    BY <2>1 DEF LifoInv, Writing, lifoVars, access
  <2> QED
    BY <2>1, LifoNextKeeps
<1> QED
  BY <1>1, <1>2, PTL DEF LifoSpec

(* At every step the samples that the stream is seen to hold are those of a  *)
(* window that records what was written, or gets another size, for all       *)
(* capacities, blocks and numbers of samples (IsSlidingWindow).              *)
THEOREM StreamIsWindow == LifoSpec => IsSlidingWindow
<1>1. LifoInv /\ [LifoNext]_lifoVars => [WindowStep]_lifoVars
  BY LifoNextKeeps
<1> QED
  BY <1>1, LifoInvariance, PTL DEF LifoSpec, IsSlidingWindow, WindowStep

(* The two runs of an iterator are the window: each sample comes once and    *)
(* the oldest first (the first part of ReadsAgree), whatever the cursor.     *)
THEOREM RunsMakeTheWindow == ASSUME NEW s \in Streams PROVE Run(s, 0) \o Run(s, 1) = Window(s)
<1>1. /\ s.size \in Nat /\ s.cursor \in Nat /\ s.cursor <= s.size
      /\ \A k \in Nat : k < s.size => s.memory[k] \in Nat
  BY OfStream
<1> DEFINE a == Run(s, 0)
           b == Run(s, 1)
<1>2. a = [i \in 1 .. s.size - s.cursor |-> s.memory[s.cursor + i - 1]]
  BY DEF Run, ItRange, ItIndex
<1>3. b = [i \in 1 .. s.cursor |-> s.memory[0 + i - 1]]
  BY DEF Run, ItRange, ItIndex
<1> HIDE DEF a, b
<1>4. /\ a \in Seq(Nat) /\ Len(a) = s.size - s.cursor
      /\ \A i \in 1 .. s.size - s.cursor : a[i] = s.memory[s.cursor + i - 1]
  <2>1. \A i \in 1 .. s.size - s.cursor : s.memory[s.cursor + i - 1] \in Nat
    BY <1>1
  <2> QED
    BY <1>1, <1>2, <2>1
<1>5. /\ b \in Seq(Nat) /\ Len(b) = s.cursor /\ \A i \in 1 .. s.cursor : b[i] = s.memory[i - 1]
  <2>1. \A i \in 1 .. s.cursor : s.memory[0 + i - 1] \in Nat /\ 0 + i - 1 = i - 1
    BY <1>1
  <2> QED
    BY SMTT(30), <1>1, <1>3, <2>1
<1>6. /\ a \o b \in Seq(Nat) /\ Len(a \o b) = Len(a) + Len(b) /\ Len(a) + Len(b) = s.size
      /\ \A i \in 1 .. Len(a) + Len(b) : (a \o b)[i] = IF i <= Len(a) THEN a[i] ELSE b[i - Len(a)]
  <2>1. a \in Seq(Nat) /\ b \in Seq(Nat)
    BY <1>4, <1>5
  <2>2. Len(a) + Len(b) = s.size
    BY <1>1, <1>4, <1>5
  <2> QED
    BY <2>1, <2>2, Joined
<1> DEFINE w == a \o b
<1>7. ASSUME NEW i \in 1 .. s.size PROVE w[i] = Window(s)[i]
  <2>1. w[i] = IF i <= Len(a) THEN a[i] ELSE b[i - Len(a)]
    BY <1>6
  <2>2. CASE s.cursor + i <= s.size
    <3>1. i \in 1 .. s.size - s.cursor /\ i <= Len(a)
      BY <1>1, <1>4, <2>2
    <3> QED
      BY <1>4, <2>1, <2>2, <3>1, InWindow
  <2>3. CASE ~(s.cursor + i <= s.size)
    <3>1. /\ i - Len(a) \in 1 .. s.cursor /\ ~(i <= Len(a))
          /\ i - Len(a) - 1 = s.cursor + i - 1 - s.size
      BY <1>1, <1>4, <2>3
    <3>2. Window(s)[i] = s.memory[s.cursor + i - 1 - s.size]
      BY <2>3, InWindow
    <3>3. b[i - Len(a)] = s.memory[i - Len(a) - 1]
      BY <1>5, <3>1
    <3> QED
      BY <2>1, <3>1, <3>2, <3>3
  <2> QED
    BY <2>2, <2>3
<1>8. w \in Seq(Nat) /\ Len(w) = s.size
  BY <1>6
<1> HIDE DEF w
<1>9. w = Window(s)
  BY <1>7, <1>8, WindowIsSeq, SameSeq
<1> QED
  BY <1>9 DEF w, a, b

(* Going round once more makes no difference.                                *)
LEMMA RoundAgain ==
    ASSUME NEW z \in Nat \ {0}, NEW x \in Nat
    PROVE  (x + z) % z = x % z /\ x % z \in 0 .. z - 1
<1>1. (x + z) \div z = x \div z + 1 /\ x \div z \in Int
  BY SMTT(30)
<1>2. PICK q \in Int : q = x \div z /\ (x + z) \div z = q + 1
  BY <1>1
<1>3. (x + z) % z = x % z
  BY SMTT(30), <1>2
<1>4. x % z \in 0 .. z - 1
  OBVIOUS
<1> QED
  BY <1>3, <1>4

(* How many samples, and which, copyFromHead() takes from run k when it has  *)
(* left to go, and what it puts together from the run p[1] on, if h is what  *)
(* it does for the runs after it.                                            *)
Part(s, k, left) == Least(left, Len(Run(s, k % 2)))
Taken(s, k, left) == SubSeq(Run(s, k % 2), 1, Part(s, k, left))

Rounds(s, n, h) ==
    [p \in Nat \X (0 .. n) |->
        IF p[2] = 0 \/ s.size = 0 THEN <<>>
        ELSE Taken(s, p[1], p[2]) \o h[<<p[1] + 1, p[2] - Part(s, p[1], p[2])>>]]

LEMMA CopyIsRounds ==
    ASSUME NEW s, NEW n, NEW g, g = Rounds(s, n, g)
    PROVE  \E f : f = Rounds(s, n, f) /\ CopyFromHead(s, n) = f[<<0, n>>]
<1> DEFINE f == CHOOSE f : f = Rounds(s, n, f)
<1>1. f = Rounds(s, n, f)
  BY Zenon
<1>2. CopyFromHead(s, n) = f[<<0, n>>]
  BY Zenon DEF CopyFromHead, Rounds, Taken, Part
<1> QED
  BY <1>1, <1>2, Zenon

(* Where in the window a run begins, and the sample x places after the       *)
(* oldest one, counting round and round.                                     *)
From(s, k) == IF k % 2 = 0 THEN 0 ELSE s.size - s.cursor
Around(s, x) == Window(s)[1 + (x % s.size)]

LEMMA AroundIsNat ==
    ASSUME NEW s \in Streams, s.size > 0, NEW x \in Nat
    PROVE  Around(s, x) \in Nat /\ Around(s, x + s.size) = Around(s, x)
<1>1. s.size \in Nat \ {0}
  BY OfStream
<1>2. x % s.size \in 0 .. s.size - 1 /\ (x + s.size) % s.size = x % s.size
  BY <1>1, RoundAgain
<1>3. 1 + (x % s.size) \in 1 .. s.size
  BY <1>1, <1>2
<1> QED
  BY <1>2, <1>3, WindowIsSeq DEF Around

(* A run is a part of the window.                                            *)
LEMMA RunsInWindow ==
    ASSUME NEW s \in Streams, s.size > 0, NEW k \in Nat, NEW r, r = Run(s, k % 2)
    PROVE  /\ r \in Seq(Nat)
           /\ Len(r) = IF k % 2 = 0 THEN s.size - s.cursor ELSE s.cursor
           /\ \A i \in 1 .. Len(r) : r[i] = Around(s, From(s, k) + i - 1)
<1> DEFINE z == s.size
           c == s.cursor
           at == IF k % 2 = 0 THEN c ELSE 0
           n == IF k % 2 = 0 THEN z - c ELSE c
<1>1. /\ z \in Nat \ {0} /\ c \in Nat /\ c < z
      /\ \A j \in Nat : j < z => s.memory[j] \in Nat
  BY OfStream
<1>2. k % 2 \in {0, 1}
  OBVIOUS
<1>3. r = [i \in 1 .. n |-> s.memory[at + i - 1]]
  BY <1>2 DEF Run, ItRange, ItIndex
<1>4. n \in Nat /\ at \in Nat /\ at + n <= z
  BY <1>1
<1>5. r \in Seq(Nat) /\ Len(r) = n /\ \A i \in 1 .. n : r[i] = s.memory[at + i - 1]
  <2> HIDE DEF at, n, z
  <2>1. \A i \in 1 .. n : s.memory[at + i - 1] \in Nat
    BY <1>1, <1>4
  <2>2. r \in [1 .. n -> Nat] /\ \A i \in 1 .. n : r[i] = s.memory[at + i - 1]
    BY <1>3, <2>1
  <2> QED
    BY <1>4, <2>2
<1>6. ASSUME NEW i \in 1 .. n PROVE r[i] = Around(s, From(s, k) + i - 1)
  <2> DEFINE x == From(s, k) + i - 1
  <2>1. x \in Nat /\ x < z /\ x + 1 \in 1 .. z
    BY <1>1 DEF From
  <2>2. x % z = x
    <3> HIDE DEF x, z
    <3>1. x < z + z
      BY <1>1, <2>1
    <3> QED
      BY <1>1, <2>1, <3>1, Wraps
  <2>3. Around(s, x) = s.memory[IF c + (x + 1) <= z THEN c + (x + 1) - 1 ELSE c + (x + 1) - 1 - z]
    BY <2>1, <2>2, InWindow DEF Around
  <2>4. CASE k % 2 = 0
    <3>1. x = i - 1 /\ c + (x + 1) <= z /\ c + (x + 1) - 1 = at + i - 1
      BY <1>1, <2>4 DEF From
    <3> QED
      BY <1>5, <2>3, <3>1
  <2>5. CASE k % 2 # 0
    <3>1. x = z - c + i - 1 /\ ~(c + (x + 1) <= z) /\ c + (x + 1) - 1 - z = at + i - 1
      BY <1>1, <2>5 DEF From
    <3> QED
      BY <1>5, <2>3, <3>1
  <2> QED
    BY <2>4, <2>5
<1> QED
  BY <1>5, <1>6

(* The first n elements of a sequence.                                       *)
LEMMA Firsts ==
    ASSUME NEW a \in Seq(Nat), NEW n \in Nat, n <= Len(a)
    PROVE  /\ SubSeq(a, 1, n) \in Seq(Nat) /\ Len(SubSeq(a, 1, n)) = n
           /\ \A i \in 1 .. n : SubSeq(a, 1, n)[i] = a[i]
BY SMTT(30)

(* A function on the first n numbers is a sequence.                          *)
LEMMA FunctionIsSeq ==
    ASSUME NEW n \in Nat, NEW t \in [1 .. n -> Nat]
    PROVE  t \in Seq(Nat) /\ Len(t) = n
OBVIOUS

(* n samples that follow one another, round and round.                       *)
Circle(s, from, n) == [i \in 1 .. n |-> Around(s, from + i - 1)]

LEMMA CircleIsSeq ==
    ASSUME NEW s \in Streams, s.size > 0, NEW from \in Nat, NEW n \in Nat
    PROVE  /\ Circle(s, from, n) \in Seq(Nat) /\ Len(Circle(s, from, n)) = n
           /\ \A i \in 1 .. n : Circle(s, from, n)[i] = Around(s, from + i - 1)
<1>1. \A i \in 1 .. n : from + i - 1 \in Nat
  OBVIOUS
<1>2. \A i \in 1 .. n : Around(s, from + i - 1) \in Nat
  BY <1>1, AroundIsNat
<1>3. Circle(s, from, n) \in [1 .. n -> Nat]
  BY <1>2 DEF Circle
<1>4. \A i \in 1 .. n : Circle(s, from, n)[i] = Around(s, from + i - 1)
  BY DEF Circle
<1> QED
  BY <1>3, <1>4, FunctionIsSeq

(* One run and the rest from the next one on are what is left.               *)
LEMMA RoundsOn ==
    ASSUME NEW s \in Streams, s.size > 0, NEW k \in Nat, NEW left \in Nat
    PROVE  /\ Part(s, k, left) \in 0 .. left
           /\ Taken(s, k, left) \o Circle(s, From(s, k + 1), left - Part(s, k, left))
                  = Circle(s, From(s, k), left)
           /\ k % 2 = 0 /\ left # 0 => Part(s, k, left) > 0
<1> DEFINE z == s.size
           c == s.cursor
<1>0. PICK r, part, rest, all, a :
         /\ r = Run(s, k % 2) /\ part = Part(s, k, left)
         /\ rest = Circle(s, From(s, k + 1), left - part) /\ all = Circle(s, From(s, k), left)
         /\ a = Taken(s, k, left)
  OBVIOUS
<1>1. z \in Nat \ {0} /\ c \in Nat /\ c < z
  BY OfStream
<1>2. /\ r \in Seq(Nat)
      /\ Len(r) = IF k % 2 = 0 THEN z - c ELSE c
      /\ \A i \in 1 .. Len(r) : r[i] = Around(s, From(s, k) + i - 1)
  BY <1>0, RunsInWindow
<1>3. part \in 0 .. left /\ part <= Len(r) /\ part \in Nat /\ left - part \in Nat
      /\ (part < left => part = Len(r))
  <2>1. Len(r) \in Nat
    BY <1>2
  <2> QED
    BY <1>0, <2>1 DEF Least, Part
<1>4. a \in Seq(Nat) /\ Len(a) = part /\ \A i \in 1 .. part : a[i] = r[i]
  <2>1. a = SubSeq(r, 1, part)
    BY <1>0 DEF Taken
  <2> QED
    BY <1>2, <1>3, <2>1, Firsts
<1>5. \A j \in Nat : From(s, j) \in Nat
  BY <1>1 DEF From
<1>6. /\ rest \in Seq(Nat) /\ Len(rest) = left - part
      /\ \A i \in 1 .. left - part : rest[i] = Around(s, From(s, k + 1) + i - 1)
  <2>0. k + 1 \in Nat
    OBVIOUS
  <2>1. From(s, k + 1) \in Nat
    BY <1>5, <2>0, Zenon
  <2>2. PICK n \in Nat : n = left - part
    BY <1>3
  <2>3. PICK from \in Nat : from = From(s, k + 1)
    BY <2>1
  <2>4. rest = Circle(s, from, n)
    BY <1>0, <2>2, <2>3
  <2> QED
    BY <2>2, <2>3, <2>4, CircleIsSeq
<1>7. /\ all \in Seq(Nat) /\ Len(all) = left
      /\ \A i \in 1 .. left : all[i] = Around(s, From(s, k) + i - 1)
  <2>1. From(s, k) \in Nat
    BY <1>5, Zenon
  <2> QED
    BY <1>0, <2>1, CircleIsSeq
<1>8. /\ a \o rest \in Seq(Nat) /\ Len(a \o rest) = left
      /\ \A i \in 1 .. left : (a \o rest)[i] = IF i <= part THEN a[i] ELSE rest[i - part]
  <2>1. /\ a \o rest \in Seq(Nat) /\ Len(a \o rest) = Len(a) + Len(rest)
        /\ \A i \in 1 .. Len(a) + Len(rest) :
               (a \o rest)[i] = IF i <= Len(a) THEN a[i] ELSE rest[i - Len(a)]
    BY <1>4, <1>6, Joined
  <2>2. Len(a) = part /\ Len(rest) = left - part /\ Len(a) + Len(rest) = left
    BY <1>3, <1>4, <1>6
  <2> QED
    BY <2>1, <2>2
<1>9. ASSUME NEW i \in 1 .. left PROVE (a \o rest)[i] = all[i]
  <2>1. CASE i <= part
    <3>1. i \in 1 .. part /\ i \in 1 .. Len(r)
      BY <1>2, <1>3, <2>1
    <3>2. (a \o rest)[i] = r[i]
      BY <1>4, <1>8, <2>1, <3>1
    <3>3. r[i] = Around(s, From(s, k) + i - 1)
      BY <1>2, <3>1
    <3> QED
      BY <1>7, <3>2, <3>3
  <2>2. CASE ~(i <= part)
    <3>1. i - part \in 1 .. left - part /\ part = Len(r) /\ part < left
      BY <1>2, <1>3, <2>2
    <3>2. (a \o rest)[i] = Around(s, From(s, k + 1) + (i - part) - 1)
      BY <1>6, <1>8, <2>2, <3>1
    <3>3. CASE k % 2 = 0
      <4>1. (k + 1) % 2 # 0
        BY <3>3
      <4>2. From(s, k + 1) + (i - part) - 1 = From(s, k) + i - 1
        BY <1>1, <1>2, <3>1, <3>3, <4>1 DEF From
      <4> QED
        BY <1>7, <3>2, <4>2
    <3>4. CASE k % 2 # 0
      <4>1. (k + 1) % 2 = 0
        BY <3>4
      <4>2. /\ From(s, k + 1) + (i - part) - 1 \in Nat
            /\ From(s, k) + i - 1 = (From(s, k + 1) + (i - part) - 1) + z
        <5>1. From(s, k + 1) = 0 /\ From(s, k) = z - c /\ part = c
          BY <1>2, <3>1, <3>4, <4>1 DEF From
        <5> QED
          <6> HIDE DEF z, c
          <6>1. i \in Nat /\ i - part \in Nat \ {0}
            BY <1>3, <3>1
          <6>2. From(s, k + 1) + (i - part) - 1 = i - c - 1 /\ i - c - 1 \in Nat
            BY <1>1, <5>1, <6>1
          <6>3. From(s, k) + i - 1 = (i - c - 1) + z
            BY <1>1, <5>1, <6>1
          <6> QED
            BY <6>2, <6>3
      <4> QED
        <5>1. PICK x \in Nat : x = From(s, k + 1) + (i - part) - 1
          BY <4>2
        <5>2. Around(s, x + s.size) = Around(s, x)
          BY AroundIsNat
        <5>3. all[i] = Around(s, From(s, k) + i - 1)
          BY <1>7
        <5> QED
          BY <3>2, <4>2, <5>1, <5>2, <5>3
    <3> QED
      BY <3>3, <3>4
  <2> QED
    BY <2>1, <2>2
<1>10. a \o rest = all
  BY <1>7, <1>8, <1>9, SameSeq
<1>11. k % 2 = 0 /\ left # 0 => part > 0
  BY <1>0, <1>1, <1>2, <1>3
<1> QED
  BY <1>0, <1>3, <1>10, <1>11

(* One entry of it.                                                          *)
LEMMA RoundAt ==
    ASSUME NEW s, NEW n \in Nat, NEW h, NEW k \in Nat, NEW left \in 0 .. n, s.size # 0
    PROVE  Rounds(s, n, h)[<<k, left>>] =
               IF left = 0 THEN <<>>
               ELSE Taken(s, k, left) \o h[<<k + 1, left - Part(s, k, left)>>]
<1>1. PICK p : p = <<k, left>>
  OBVIOUS
<1>2. p \in Nat \X (0 .. n) /\ p[1] = k /\ p[2] = left
  BY <1>1
<1>3. Rounds(s, n, h)[p] =
        IF p[2] = 0 \/ s.size = 0 THEN <<>>
        ELSE Taken(s, p[1], p[2]) \o h[<<p[1] + 1, p[2] - Part(s, p[1], p[2])>>]
  BY <1>2, Zenon DEF Rounds
<1> QED
  BY <1>1, <1>2, <1>3, Zenon

(* copyFromHead() copies as many samples as it is asked for, the oldest      *)
(* first, and goes round and round the stream: by induction on what is left. *)
THEOREM CopiesGoRound ==
    ASSUME NEW s \in Streams, s.size > 0, NEW n \in Nat
    PROVE  CopyFromHead(s, n) = Circle(s, 0, n)
<1> DEFINE g == [p \in Nat \X (0 .. n) |-> Circle(s, From(s, p[1]), p[2])]
<1>1. s.size \in Nat \ {0} /\ s.cursor \in Nat /\ s.cursor < s.size
  BY OfStream
<1>2. \A k \in Nat, left \in 0 .. n : g[<<k, left>>] = Circle(s, From(s, k), left)
  <2>1. ASSUME NEW k \in Nat, NEW left \in 0 .. n PROVE g[<<k, left>>] = Circle(s, From(s, k), left)
    <3>1. <<k, left>> \in Nat \X (0 .. n) /\ <<k, left>>[1] = k /\ <<k, left>>[2] = left
      OBVIOUS
    <3> QED
      BY <3>1, Zenon
  <2> QED
    BY <2>1
<1>3. ASSUME NEW k \in Nat, NEW left \in 0 .. n, NEW h,
             \A j \in 0 .. left : j < left => h[<<k + 1, j>>] = Circle(s, From(s, k + 1), j),
             k % 2 = 0 \/ h[<<k + 1, left>>] = Circle(s, From(s, k + 1), left)
      PROVE  Rounds(s, n, h)[<<k, left>>] = Circle(s, From(s, k), left)
  <2>1. PICK part : part = Part(s, k, left)
    OBVIOUS
  <2>2. Rounds(s, n, h)[<<k, left>>] =
            IF left = 0 THEN <<>> ELSE Taken(s, k, left) \o h[<<k + 1, left - part>>]
    BY <1>1, <2>1, RoundAt
  <2>3. CASE left = 0
    <3>1. Circle(s, From(s, k), 0) = <<>>
      BY DEF Circle
    <3> QED
      BY <2>2, <2>3, <3>1
  <2>4. CASE left # 0
    <3>1. /\ part \in 0 .. left
          /\ Taken(s, k, left) \o Circle(s, From(s, k + 1), left - part) = Circle(s, From(s, k), left)
          /\ k % 2 = 0 => part > 0
      <4>1. left \in Nat
        OBVIOUS
      <4> QED
        BY <2>1, <2>4, <4>1, RoundsOn
    <3>2. left - part \in 0 .. left /\ (part > 0 => left - part < left) /\ (~(part > 0) => left - part = left)
      BY <3>1
    <3>3. h[<<k + 1, left - part>>] = Circle(s, From(s, k + 1), left - part)
      <4>1. CASE part > 0
        BY <1>3, <3>2, <4>1
      <4>2. CASE ~(part > 0)
        BY <1>3, <3>1, <3>2, <4>2
      <4> QED
        BY <4>1, <4>2
    <3> QED
      BY <2>2, <2>4, <3>1, <3>3
  <2> QED
    BY <2>3, <2>4
<1> HIDE DEF g
<1>4. g = Rounds(s, n, g)
  <2>1. ASSUME NEW p \in Nat \X (0 .. n) PROVE g[p] = Rounds(s, n, g)[p]
    <3>1. PICK k \in Nat, left \in 0 .. n : p = <<k, left>>
      OBVIOUS
    <3>2. \A j \in 0 .. left : g[<<k + 1, j>>] = Circle(s, From(s, k + 1), j)
      <4>1. k + 1 \in Nat /\ \A j \in 0 .. left : j \in 0 .. n
        OBVIOUS
      <4> QED
        BY <1>2, <4>1
    <3>3. left \in 0 .. left
      OBVIOUS
    <3>4. Rounds(s, n, g)[<<k, left>>] = Circle(s, From(s, k), left)
      BY <1>3, <3>2, <3>3
    <3> QED
      BY <1>2, <3>1, <3>4
  <2>2. g = [p \in Nat \X (0 .. n) |-> g[p]]
    BY DEF g
  <2>3. Rounds(s, n, g) = [p \in Nat \X (0 .. n) |-> Rounds(s, n, g)[p]]
    BY Zenon DEF Rounds
  <2> QED
    BY <2>1, <2>2, <2>3, Zenon
<1>5. PICK f : f = Rounds(s, n, f) /\ CopyFromHead(s, n) = f[<<0, n>>]
  BY <1>4, CopyIsRounds
<1> DEFINE Right(k, left) == f[<<k, left>>] = Circle(s, From(s, k), left)
           Wrong == {left \in 0 .. n : \E k \in Nat : ~Right(k, left)}
<1>6. Wrong = {}
  <2>1. SUFFICES ASSUME Wrong # {} PROVE FALSE
    OBVIOUS
  <2>2. PICK left \in Wrong : \A j \in Wrong : left <= j
    <3>1. Wrong \in SUBSET Nat
      OBVIOUS
    <3> HIDE DEF Wrong
    <3> QED
      BY <2>1, <3>1, Smallest
  <2>3. left \in 0 .. n /\ \A j \in 0 .. left : j < left => \A k \in Nat : Right(k, j)
    BY <2>2
  <2> HIDE DEF Right
  <2>4. ASSUME NEW k \in Nat, k % 2 = 0 PROVE Right(k, left)
    <3>1. \A j \in 0 .. left : j < left => Right(k + 1, j)
      BY <2>3
    <3>2. Rounds(s, n, f)[<<k, left>>] = Circle(s, From(s, k), left)
      BY <1>3, <2>3, <2>4, <3>1, Zenon DEF Right
    <3> QED
      BY <1>5, <3>2, Zenon DEF Right
  <2>5. ASSUME NEW k \in Nat, k % 2 # 0 PROVE Right(k, left)
    <3>1. \A j \in 0 .. left : j < left => Right(k + 1, j)
      BY <2>3
    <3>2. k + 1 \in Nat /\ (k + 1) % 2 = 0
      BY <2>5
    <3>3. Right(k + 1, left)
      BY <2>4, <3>2
    <3>4. Rounds(s, n, f)[<<k, left>>] = Circle(s, From(s, k), left)
      BY <1>3, <2>3, <3>1, <3>3, Zenon DEF Right
    <3> QED
      BY <1>5, <3>4, Zenon DEF Right
  <2> QED
    BY <2>2, <2>4, <2>5
<1>7. f[<<0, n>>] = Circle(s, From(s, 0), n)
  <2>1. 0 \in Nat /\ n \in 0 .. n
    OBVIOUS
  <2> QED
    BY <1>6, <2>1
<1>8. From(s, 0) = 0
  BY DEF From
<1> QED
  BY <1>5, <1>7, <1>8

(* However the stream is read, each sample comes once and the oldest first,  *)
(* and round again, for all capacities and numbers of samples (ReadsAgree).  *)
THEOREM ReadsAlwaysAgree == LifoSpec => []ReadsAgree
<1>1. ASSUME NEW s \in Streams, NEW n \in 1 .. 2 * s.size
      PROVE  CopyFromHead(s, n) = [i \in 1 .. n |-> Window(s)[1 + ((i - 1) % s.size)]]
  <2>1. s.size \in Nat
    BY OfStream
  <2>2. s.size > 0 /\ n \in Nat
    BY <2>1
  <2>3. CopyFromHead(s, n) = Circle(s, 0, n)
    BY <2>2, CopiesGoRound
  <2>4. \A i \in 1 .. n : 0 + i - 1 = i - 1
    OBVIOUS
  <2> QED
    BY <2>3, <2>4 DEF Circle, Around
<1>2. LifoInv => ReadsAgree
  BY <1>1, RunsMakeTheWindow DEF LifoInv, ReadsAgree
<1> QED
  BY <1>2, LifoInvariance, PTL

=============================================================================
