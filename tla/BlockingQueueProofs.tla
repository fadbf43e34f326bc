------------------------- MODULE BlockingQueueProofs -------------------------
(***************************************************************************)
(* Proofs about BlockingQueue, for every size, growth policy and number of *)
(* pushes, and about AsyncAudioSystem, its consumer, which is shown to     *)
(* implement the FrameLoop that AudioStream is built on.                   *)
(***************************************************************************)
EXTENDS AsyncAudioSystem, SequenceTheorems, TLAPS

(***************************************************************************)
(* The inductive invariant.  Its heart is TicketsCovered: a consumer that  *)
(* took a unit of the semaphore and found the old queue empty knows that   *)
(* the element is in the new queue, hence that the producer has seen the   *)
(* new queue (StaleProducer), hence that the old one is out of reach.      *)
(***************************************************************************)
OldLen == Len(Contents(oldQueue))

(* The elements of s are n + 1, n + 2, ... *)
Run(s, n) == \A i \in 1 .. Len(s) : s[i] = n + i

(* NothingLost, said of the two queues one after the other. *)
Consecutive ==
    /\ accepted = popped + OldLen + Len(buf[queue])
    /\ Run(Contents(oldQueue), popped)
    /\ Run(buf[queue], popped + OldLen)

(* TicketsCovered, likewise. *)
Covered ==
    tickets + Holding + Unsignalled = OldLen + Len(buf[queue]) + ReleaseTicket

(* Queues are replaced by larger, fresh ones. *)
Fresh ==
    /\ \A q \in Queues : q > queue => buf[q] = <<>>
    /\ oldQueue < queue
    /\ cpc = "exchange" => newSize > queue /\ oldQueue = null
    /\ cpc = "grown" => newSize = queue
    /\ cpc # "grown" => currentNumElements = queue
    /\ live = {queue} \cup (IF oldQueue = null THEN {} ELSE {oldQueue})

(* A producer that still holds the old queue has not put anything into the   *)
(* new one.                                                                  *)
StaleProducer ==
    ppc = "loaded" /\ pqueue # queue
        => pqueue = oldQueue /\ buf[queue] = <<>>

(* A push in progress is within the bound. *)
ProducerSteps == ppc = "loaded" => accepted < MaxPushes

ConsumerSteps ==
    /\ cpc \in {"tryOld", "delete"} => oldQueue # null
    /\ cpc = "tryNew" /\ oldQueue # null => buf[oldQueue] = <<>>
    /\ cpc = "delete" => buf[oldQueue] = <<>> /\ (ppc = "loaded" => pqueue = queue)
    /\ released => ppc = "idle"
    /\ cpc = "quit" => released /\ accepted = popped

IInv ==
    /\ TypeOK
    /\ Consecutive
    /\ Covered
    /\ Fresh
    /\ StaleProducer
    /\ ProducerSteps
    /\ ConsumerSteps

-----------------------------------------------------------------------------
(* Splitting the elements in flight over the two queues changes nothing. *)
LEMMA InFlightSplit ==
    ASSUME TypeOK
    PROVE  /\ Len(InFlight) = OldLen + Len(buf[queue])
           /\ \A i \in 1 .. OldLen : InFlight[i] = Contents(oldQueue)[i]
           /\ \A i \in OldLen + 1 .. Len(InFlight) :
                 InFlight[i] = buf[queue][i - OldLen]
           /\ OldLen \in Nat /\ Len(buf[queue]) \in Nat
           /\ Contents(oldQueue) \in Seq(1 .. MaxPushes)
           /\ buf[queue] \in Seq(1 .. MaxPushes)
           /\ Contents(queue) = buf[queue]
<1>1. queue # null
  BY SizeAssumption DEF TypeOK, Queues, null
<1>2. /\ Contents(queue) = buf[queue]
      /\ buf[queue] \in Seq(1 .. MaxPushes)
      /\ Contents(oldQueue) \in Seq(1 .. MaxPushes)
  <2>1. <<>> \in Seq(1 .. MaxPushes)
    OBVIOUS
  <2>2. CASE oldQueue = null
    BY <1>1, <2>1, <2>2 DEF TypeOK, Contents
  <2>3. CASE oldQueue # null
    BY <1>1, <2>3 DEF TypeOK, Contents
  <2> QED
    BY <2>2, <2>3
<1> QED
  BY <1>2 DEF InFlight, OldLen

(* The invariants that TLC checks follow from the inductive one. *)
LEMMA IInvImplies ==
    IInv => NothingLost /\ DeletedNeverUsed /\ TicketsCovered /\ FalseOnlyWhenDrained
<1> SUFFICES ASSUME IInv
             PROVE  NothingLost /\ DeletedNeverUsed /\ TicketsCovered /\ FalseOnlyWhenDrained
  OBVIOUS
<1> USE DEF IInv
<1>1. NothingLost
  <2>1. accepted \in Nat /\ popped \in Nat
    BY SizeAssumption DEF TypeOK
  <2>2. \A i \in 1 .. Len(InFlight) : InFlight[i] = popped + i
    <3> TAKE i \in 1 .. Len(InFlight)
    <3>1. CASE i <= OldLen
      BY <3>1, <2>1, InFlightSplit DEF Consecutive, Run, OldLen
    <3>2. CASE i > OldLen
      <4>1. i - OldLen \in 1 .. Len(buf[queue])
        BY <3>2, InFlightSplit
      <4>2. buf[queue][i - OldLen] = popped + OldLen + (i - OldLen)
        BY <4>1 DEF Consecutive, Run
      <4> QED
        BY <3>2, <4>2, <2>1, InFlightSplit
    <3> QED
      BY <3>1, <3>2, InFlightSplit
  <2>3. Len(InFlight) = accepted - popped
    <3>1. \A p, o, l \in Nat : p + o + l - p = o + l
      OBVIOUS
    <3> QED
      BY <2>1, <3>1, InFlightSplit DEF Consecutive
  <2> QED
    BY <2>2, <2>3 DEF NothingLost
<1>2. DeletedNeverUsed
  BY SizeAssumption DEF DeletedNeverUsed, Fresh, StaleProducer, TypeOK, Queues, null
<1>3. TicketsCovered
  BY InFlightSplit DEF TicketsCovered, Covered
<1>4. FalseOnlyWhenDrained
  BY DEF FalseOnlyWhenDrained, ConsumerSteps
<1> QED
  BY <1>1, <1>2, <1>3, <1>4

(* A new queue satisfies the inductive invariant.                            *)
LEMMA IInvInit == Init => IInv
<1> SUFFICES ASSUME Init PROVE IInv
  OBVIOUS
<1>1. \A q \in Queues : buf[q] = <<>> /\ buf[q] \in Seq(1 .. MaxPushes)
  BY DEF Init
<1>2. queue \in Queues /\ queue # null /\ oldQueue = null /\ buf[queue] = <<>>
  BY <1>1, SizeAssumption DEF Init, Queues, null
<1>3. buf \in [Queues -> Seq(1 .. MaxPushes)] /\ live \in SUBSET Queues
  BY <1>1, <1>2 DEF Init
<1>4. 0 \in 0 .. MaxPushes
  BY SizeAssumption
<1>5. TypeOK
  BY <1>2, <1>3, <1>4 DEF Init, TypeOK
<1>6. OldLen = 0 /\ Len(buf[queue]) = 0
  BY <1>2 DEF OldLen, Contents
<1>7. Consecutive /\ Covered
  BY <1>2, <1>6 DEF Init, Consecutive, Run, Contents, Covered, Holding, Unsignalled, ReleaseTicket
<1>8. Fresh
  BY <1>1, <1>2, SizeAssumption DEF Init, Fresh, Queues, null
<1>9. StaleProducer /\ ProducerSteps /\ ConsumerSteps
  BY DEF Init, StaleProducer, ProducerSteps, ConsumerSteps
<1> QED
  BY <1>5, <1>7, <1>8, <1>9 DEF IInv
-----------------------------------------------------------------------------
(* The size grow() aims at is the size of some queue object. *)
LEMMA TargetIsQueue ==
    ASSUME TypeOK, TargetSize > currentNumElements
    PROVE  TargetSize \in Queues
<1>1. GrowthFactor * currentNumElements \in Nat
  BY SizeAssumption DEF TypeOK, Queues
<1>2. currentNumElements \in Nat /\ currentNumElements >= InitialSize
  BY SizeAssumption DEF TypeOK, Queues
<1>3. PICK w \in Nat : TargetSize = Smaller(MaxElements, Larger(w, MinimumSize))
  BY <1>1, <1>2 DEF TargetSize
<1> QED
  BY <1>2, <1>3, SizeAssumption DEF Smaller, Larger, Queues

(* Steps that leave the queues and their contents alone. *)
LEMMA SameQueues ==
    ASSUME IInv, UNCHANGED <<queue, oldQueue, buf>>
    PROVE  /\ OldLen' = OldLen
           /\ UNCHANGED <<accepted, popped>> => Consecutive'
  BY DEF IInv, Consecutive, OldLen, Contents

(* An element more in the new queue.                                         *)
LEMMA SumNew == \A p, o, l \in Nat : p + o + l + 1 = p + o + (l + 1)
  OBVIOUS

(* An element more in the old queue.                                         *)
LEMMA SumOld == \A p, o, l \in Nat : p + o + l + 1 = p + (o + 1) + l
  OBVIOUS

(* An element that is popped from the old queue.                             *)
LEMMA SumPopOld ==
    \A p, o, l \in Nat : o # 0 => p + o + l = (p + 1) + (o - 1) + l
  OBVIOUS

(* An element that is popped from the new queue, with the old one empty.     *)
LEMMA SumPopNew ==
    \A p, l \in Nat : l # 0 => p + 0 + l = (p + 1) + 0 + (l - 1)
  OBVIOUS

(* Taking the first element off a run, and adding the next one to it. *)
LEMMA TailRun ==
    \A S : \A s \in Seq(S), n \in Nat :
        s # <<>> /\ Run(s, n)
            => /\ Head(s) = n + 1
               /\ Len(s) \in Nat \ {0}
               /\ Tail(s) \in Seq(S)
               /\ Len(Tail(s)) = Len(s) - 1
               /\ Run(Tail(s), n + 1)
<1> SUFFICES ASSUME NEW S, NEW s \in Seq(S), NEW n \in Nat, s # <<>>, Run(s, n)
             PROVE  /\ Head(s) = n + 1
                    /\ Len(s) \in Nat \ {0}
                    /\ Tail(s) \in Seq(S)
                    /\ Len(Tail(s)) = Len(s) - 1
                    /\ Run(Tail(s), n + 1)
  OBVIOUS
<1>1. Len(s) \in Nat /\ Len(s) # 0
  OBVIOUS
<1>2. Tail(s) \in Seq(S) /\ Len(Tail(s)) = Len(s) - 1
  BY <1>1
<1>3. \A i \in 1 .. Len(Tail(s)) : Tail(s)[i] = s[i + 1]
  BY <1>1
<1>4. ASSUME NEW i \in 1 .. Len(Tail(s)) PROVE Tail(s)[i] = n + 1 + i
  <2>1. i + 1 \in 1 .. Len(s) /\ i \in Nat
    BY <1>1, <1>2
  <2>2. s[i + 1] = n + (i + 1)
    BY <2>1 DEF Run
  <2> QED
    BY <2>1, <2>2, <1>3
<1>5. Head(s) = n + 1
  BY <1>1 DEF Run
<1> QED
  BY <1>1, <1>2, <1>4, <1>5 DEF Run

(* The next element at the end of a run makes a longer one.                  *)
LEMMA AppendRun ==
    \A S : \A s \in Seq(S), n \in Nat, e \in S :
        Run(s, n) /\ e = n + Len(s) + 1
            => /\ Append(s, e) \in Seq(S)
               /\ Len(s) \in Nat
               /\ Len(Append(s, e)) = Len(s) + 1
               /\ Run(Append(s, e), n)
<1> SUFFICES ASSUME NEW S, NEW s \in Seq(S), NEW n \in Nat, NEW e \in S,
                    Run(s, n), e = n + Len(s) + 1
             PROVE  /\ Append(s, e) \in Seq(S)
                    /\ Len(s) \in Nat
                    /\ Len(Append(s, e)) = Len(s) + 1
                    /\ Run(Append(s, e), n)
  OBVIOUS
<1>1. /\ Append(s, e) \in Seq(S)
      /\ Len(s) \in Nat
      /\ Len(Append(s, e)) = Len(s) + 1
      /\ \A i \in 1 .. Len(s) : Append(s, e)[i] = s[i]
      /\ Append(s, e)[Len(s) + 1] = e
  OBVIOUS
<1>2. ASSUME NEW i \in 1 .. Len(s) + 1 PROVE Append(s, e)[i] = n + i
  <2>1. CASE i = Len(s) + 1
    BY <1>1, <2>1
  <2>2. CASE i # Len(s) + 1
    BY <1>1, <2>2 DEF Run
  <2> QED
    BY <2>1, <2>2
<1> QED
  BY <1>1, <1>2 DEF Run
-----------------------------------------------------------------------------
(* Every action preserves the inductive invariant.                           *)
LEMMA PushPreserves == IInv /\ Push => IInv'
<1> SUFFICES ASSUME IInv, Push PROVE IInv'
  OBVIOUS
<1> USE DEF IInv
<1>0. /\ queue \in Queues /\ pqueue \in Queues /\ accepted \in Nat /\ popped \in Nat
      /\ OldLen \in Nat /\ Len(buf[queue]) \in Nat /\ tickets \in Nat
      /\ queue \in Nat /\ oldQueue \in Nat /\ oldQueue # queue /\ null \in Nat
  BY InFlightSplit, SizeAssumption DEF TypeOK, Queues, null, Fresh
<1>Q. \A q \in Queues : q \in Nat /\ q # null
  BY SizeAssumption DEF Queues, null
<1>1. CASE PushLoad
  <2> USE <1>1 DEF PushLoad, shared, consumer
  <2>1. OldLen' = OldLen /\ Consecutive'
    BY SameQueues
  <2>2. TypeOK'
    BY DEF TypeOK
  <2>3. Covered'
    BY <2>1 DEF Covered, Holding, Unsignalled, ReleaseTicket
  <2>4. Fresh' /\ StaleProducer' /\ ProducerSteps' /\ ConsumerSteps'
    BY DEF Fresh, StaleProducer, ProducerSteps, ConsumerSteps
  <2> QED
    BY <2>1, <2>2, <2>3, <2>4
<1>2. CASE PushEnqueue
  <2> USE <1>2 DEF PushEnqueue, consumer
  <2>1. accepted + 1 \in 1 .. MaxPushes
    BY <1>0, SizeAssumption DEF ProducerSteps
  <2>2. /\ UNCHANGED <<queue, oldQueue, live, currentNumElements, tickets,
                       released, pqueue, cpc, newSize, popped>>
        /\ accepted' = accepted + 1 /\ ppc = "loaded" /\ ppc' = "enqueued"
        /\ ~released
    BY DEF ConsumerSteps
  <2>3. /\ tickets' = tickets /\ Unsignalled' = Unsignalled + 1
        /\ Holding' = Holding /\ ReleaseTicket' = ReleaseTicket
        /\ Unsignalled \in Nat /\ Holding \in Nat /\ ReleaseTicket \in Nat
    BY DEF Holding, Unsignalled, ReleaseTicket
  <2>4. /\ buf'[pqueue] = Append(buf[pqueue], accepted + 1)
        /\ \A q \in Queues : q # pqueue => buf'[q] = buf[q]
        /\ buf[pqueue] \in Seq(1 .. MaxPushes)
    BY <1>0 DEF TypeOK
  <2>5. TypeOK'
    <3>1. accepted + 1 \in 0 .. MaxPushes
      BY <2>1, <1>0
    <3> QED
      BY <2>1, <2>4, <3>1 DEF TypeOK
  <2> HIDE <1>2 DEF PushEnqueue, consumer
  <2>6. CASE pqueue = queue
    <3>1. OldLen' = OldLen /\ (Contents(oldQueue))' = Contents(oldQueue)
      BY <2>2, <2>4, <2>6, <1>0, <1>Q DEF OldLen, Contents, TypeOK
    <3>2. accepted + 1 = popped + OldLen + Len(buf[queue]) + 1
      BY DEF Consecutive
    <3>3. /\ (buf[queue])' = Append(buf[queue], accepted + 1)
          /\ (Len(buf[queue]))' = Len(buf[queue]) + 1
          /\ (Run(buf[queue], popped + OldLen))'
      <4>1. Run(buf[queue], popped + OldLen) /\ popped + OldLen \in Nat
        BY <1>0 DEF Consecutive
      <4>2. /\ Len(Append(buf[queue], accepted + 1)) = Len(buf[queue]) + 1
            /\ Run(Append(buf[queue], accepted + 1), popped + OldLen)
        <5>1. buf[queue] \in Seq(1 .. MaxPushes)
          BY <2>4, <2>6
        <5>2. popped + OldLen \in Nat /\ Run(buf[queue], popped + OldLen)
          BY <4>1
        <5>3. Len(Append(buf[queue], accepted + 1)) = Len(buf[queue]) + 1
          BY ONLY <5>1, <5>2, <2>1, <3>2, AppendRun
        <5>4. Run(Append(buf[queue], accepted + 1), popped + OldLen)
          BY ONLY <5>1, <5>2, <2>1, <3>2, AppendRun
        <5> QED
          BY <5>3, <5>4
      <4>3. (buf[queue])' = Append(buf[queue], accepted + 1)
        BY <2>2, <2>4, <2>6
      <4>4. Run((buf[queue])', popped' + OldLen')
        BY <4>2, <4>3, <2>2, <3>1
      <4> QED
        BY <4>2, <4>3, <4>4
    <3>4. Consecutive'
      <4>1. accepted' = popped' + OldLen' + (Len(buf[queue]))'
        <5>1. popped' = popped /\ accepted' = accepted + 1
          BY <2>2
        <5>2. OldLen' = OldLen /\ (Len(buf[queue]))' = Len(buf[queue]) + 1
          BY <3>1, <3>3
        <5>3. popped + OldLen + Len(buf[queue]) + 1 = popped + OldLen + (Len(buf[queue]) + 1)
          <6>1. popped \in Nat /\ OldLen \in Nat /\ Len(buf[queue]) \in Nat
            BY <1>0
          <6> QED
            BY <6>1, SumNew, Zenon
        <5> QED
          BY ONLY <3>2, <5>1, <5>2, <5>3
      <4>2. (Run(Contents(oldQueue), popped))'
        BY <2>2, <3>1 DEF Consecutive
      <4> QED
        BY <3>3, <4>1, <4>2 DEF Consecutive
    <3>5. Covered'
      BY ONLY <2>3, <3>1, <3>3, <1>0, Covered DEF Covered
    <3>6. Fresh'
      BY <2>2, <2>4, <2>6, <1>0, <1>Q DEF Fresh
    <3>7. StaleProducer' /\ ProducerSteps'
      BY <2>2 DEF StaleProducer, ProducerSteps
    <3>8. ConsumerSteps'
      BY <2>2, <2>4, <2>6, <1>0, <1>Q DEF ConsumerSteps, TypeOK
    <3> QED
      BY <2>5, <3>4, <3>5, <3>6, <3>7, <3>8
  <2>7. CASE pqueue # queue
    <3>1. /\ pqueue = oldQueue /\ pqueue < queue
          /\ buf[queue] = <<>> /\ (buf[queue])' = <<>>
          /\ Contents(oldQueue) = buf[pqueue]
          /\ (Contents(oldQueue))' = buf'[pqueue]
      BY <2>2, <2>4, <2>7, <1>0, <1>Q DEF StaleProducer, Contents, Fresh
    <3>2. /\ Len(buf[queue]) = 0 /\ (Len(buf[queue]))' = 0
          /\ OldLen = Len(buf[pqueue]) /\ Run(buf[pqueue], popped)
          /\ accepted + 1 = popped + Len(buf[pqueue]) + 1
      BY <3>1, <1>0 DEF Consecutive, OldLen
    <3>3. (Run(Contents(oldQueue), popped))' /\ OldLen' = OldLen + 1
      <4>1. /\ Len(Append(buf[pqueue], accepted + 1)) = Len(buf[pqueue]) + 1
            /\ Run(Append(buf[pqueue], accepted + 1), popped)
        <5>1. buf[pqueue] \in Seq(1 .. MaxPushes)
          BY <2>4
        <5>2. popped \in Nat /\ Run(buf[pqueue], popped)
          BY <1>0, <3>2
        <5>3. Len(Append(buf[pqueue], accepted + 1)) = Len(buf[pqueue]) + 1
          BY ONLY <5>1, <5>2, <2>1, <3>2, AppendRun
        <5>4. Run(Append(buf[pqueue], accepted + 1), popped)
          BY ONLY <5>1, <5>2, <2>1, <3>2, AppendRun
        <5> QED
          BY <5>3, <5>4
      <4>2. Run((Contents(oldQueue))', popped')
        BY <4>1, <2>2, <2>4, <3>1
      <4>3. (Len(Contents(oldQueue)))' = OldLen + 1
        BY <4>1, <2>4, <3>1, <3>2
      <4> QED
        BY <4>2, <4>3 DEF OldLen
    <3>4. Run(buf[queue], popped + OldLen)'
      BY <3>1 DEF Run
    <3>5. Consecutive'
      <4>1. accepted' = popped' + OldLen' + (Len(buf[queue]))'
        <5>1. popped' = popped /\ accepted' = accepted + 1
          BY <2>2
        <5>2. popped + OldLen + 0 + 1 = popped + (OldLen + 1) + 0
          BY <1>0, SumOld
        <5>3. accepted = popped + OldLen + 0
          BY <3>2 DEF Consecutive
        <5> QED
          BY <3>2, <3>3, <5>1, <5>2, <5>3
      <4> QED
        BY <3>3, <3>4, <4>1 DEF Consecutive
    <3>6. Covered'
      BY ONLY SMTT(30), <2>3, <3>2, <3>3, <1>0, Covered DEF Covered
    <3>7. Fresh'
      BY <2>2, <2>4, <3>1, <1>0, <1>Q DEF Fresh
    <3>8. StaleProducer' /\ ProducerSteps'
      BY <2>2 DEF StaleProducer, ProducerSteps
    <3>9. cpc # "tryNew" /\ cpc # "delete"
      <4>1. cpc # "delete"
        BY <2>2, <2>7 DEF ConsumerSteps
      <4>2. ASSUME cpc = "tryNew" PROVE FALSE
        <5>1. OldLen = 0
          <6>1. Contents(oldQueue) = <<>>
            BY <4>2, <3>1, <1>0, <1>Q DEF ConsumerSteps
          <6> QED
            BY <6>1 DEF OldLen
        <5>2. Holding = 1 /\ Unsignalled = 0 /\ ReleaseTicket = 0
          BY <2>2, <4>2 DEF Holding, Unsignalled, ReleaseTicket
        <5> QED
          BY <3>2, <5>1, <5>2, <1>0 DEF Covered
      <4> QED
        BY <4>1, <4>2
    <3>10. ConsumerSteps'
      BY <2>2, <3>9 DEF ConsumerSteps
    <3> QED
      BY <2>5, <3>5, <3>6, <3>7, <3>8, <3>10
  <2> QED
    BY <2>6, <2>7
<1>3. CASE PushSignal
  <2> USE <1>3 DEF PushSignal, consumer
  <2>1. OldLen' = OldLen /\ Consecutive'
    BY SameQueues
  <2>2. TypeOK'
    BY <1>0 DEF TypeOK
  <2>3. Covered'
    <3>1. /\ tickets' = tickets + 1 /\ (Len(buf[queue]))' = Len(buf[queue])
          /\ Unsignalled = 1 /\ Unsignalled' = 0
          /\ Holding' = Holding /\ ReleaseTicket' = ReleaseTicket
          /\ Holding \in Nat /\ ReleaseTicket \in Nat
      BY DEF Holding, Unsignalled, ReleaseTicket
    <3> QED
      BY ONLY <1>0, <2>1, <3>1, Covered DEF Covered
  <2>4. Fresh' /\ StaleProducer' /\ ProducerSteps' /\ ConsumerSteps'
    BY DEF Fresh, StaleProducer, ProducerSteps, ConsumerSteps
  <2> QED
    BY <2>1, <2>2, <2>3, <2>4
<1>4. CASE PushFull
  <2> USE <1>4 DEF PushFull, shared, consumer
  <2>1. OldLen' = OldLen /\ Consecutive'
    BY SameQueues
  <2>2. TypeOK'
    BY DEF TypeOK
  <2>3. Covered'
    BY <2>1 DEF Covered, Holding, Unsignalled, ReleaseTicket
  <2>4. Fresh' /\ StaleProducer' /\ ProducerSteps' /\ ConsumerSteps'
    BY DEF Fresh, StaleProducer, ProducerSteps, ConsumerSteps
  <2> QED
    BY <2>1, <2>2, <2>3, <2>4
<1>5. CASE PushFail
  <2> USE <1>5 DEF PushFail, consumer
  <2>1. OldLen' = OldLen /\ Consecutive'
    BY SameQueues
  <2>2. TypeOK'
    BY DEF TypeOK
  <2>3. Covered'
    BY <2>1 DEF Covered, Holding, Unsignalled, ReleaseTicket
  <2>4. Fresh' /\ StaleProducer' /\ ProducerSteps' /\ ConsumerSteps'
    BY DEF Fresh, StaleProducer, ProducerSteps, ConsumerSteps
  <2> QED
    BY <2>1, <2>2, <2>3, <2>4
<1> QED
  BY <1>1, <1>2, <1>3, <1>4, <1>5 DEF Push

(* releaseConsumer() adds a unit that no element covers, once.               *)
LEMMA ReleasePreserves == IInv /\ ReleaseConsumer => IInv'
<1> SUFFICES ASSUME IInv, ReleaseConsumer PROVE IInv'
  OBVIOUS
<1> USE DEF IInv
<1>0. /\ queue \in Queues /\ pqueue \in Queues /\ accepted \in Nat /\ popped \in Nat
      /\ OldLen \in Nat /\ Len(buf[queue]) \in Nat /\ tickets \in Nat
      /\ queue \in Nat /\ oldQueue \in Nat /\ oldQueue # queue /\ null \in Nat
  BY InFlightSplit, SizeAssumption DEF TypeOK, Queues, null, Fresh
<1>Q. \A q \in Queues : q \in Nat /\ q # null
  BY SizeAssumption DEF Queues, null
<1>T. Holding \in Nat /\ Unsignalled \in Nat /\ ReleaseTicket \in Nat
  BY DEF Holding, Unsignalled, ReleaseTicket
<1> USE DEF ReleaseConsumer, producer, consumer
<1>1. OldLen' = OldLen /\ Consecutive'
  BY SameQueues
<1>2. TypeOK'
  BY <1>0 DEF TypeOK
<1>3. Covered'
  <2>1. /\ tickets' = tickets + 1 /\ (Len(buf[queue]))' = Len(buf[queue])
        /\ ReleaseTicket = 0 /\ ReleaseTicket' = 1
        /\ Holding' = Holding /\ Unsignalled' = Unsignalled
    BY DEF Holding, Unsignalled, ReleaseTicket, ConsumerSteps
  <2> QED
    BY ONLY <1>0, <1>T, <1>1, <2>1, Covered DEF Covered
<1>4. Fresh' /\ StaleProducer' /\ ProducerSteps' /\ ConsumerSteps'
  BY DEF Fresh, StaleProducer, ProducerSteps, ConsumerSteps
<1> QED
  BY <1>1, <1>2, <1>3, <1>4

(* grow() moves nothing: the queue in use becomes the old one as it is.      *)
LEMMA GrowPreserves == IInv /\ Grow => IInv'
<1> SUFFICES ASSUME IInv, Grow PROVE IInv'
  OBVIOUS
<1> USE DEF IInv
<1>0. /\ queue \in Queues /\ pqueue \in Queues /\ accepted \in Nat /\ popped \in Nat
      /\ OldLen \in Nat /\ Len(buf[queue]) \in Nat /\ tickets \in Nat
      /\ queue \in Nat /\ oldQueue \in Nat /\ oldQueue # queue /\ null \in Nat
  BY InFlightSplit, SizeAssumption DEF TypeOK, Queues, null, Fresh
<1>Q. \A q \in Queues : q \in Nat /\ q # null
  BY SizeAssumption DEF Queues, null
<1>T. Holding \in Nat /\ Unsignalled \in Nat /\ ReleaseTicket \in Nat
  BY DEF Holding, Unsignalled, ReleaseTicket
<1>1. CASE GrowDecide
  <2> USE <1>1 DEF GrowDecide, shared, producer
  <2>1. OldLen' = OldLen /\ Consecutive'
    BY SameQueues
  <2>2. TypeOK'
    BY TargetIsQueue DEF TypeOK
  <2>3. Covered'
    BY <2>1 DEF Covered, Holding, Unsignalled, ReleaseTicket
  <2>4. Fresh'
    BY DEF Fresh
  <2>5. StaleProducer' /\ ProducerSteps' /\ ConsumerSteps'
    BY DEF StaleProducer, ProducerSteps, ConsumerSteps
  <2> QED
    BY <2>1, <2>2, <2>3, <2>4, <2>5
<1>2. CASE GrowExchange
  <2> USE <1>2 DEF GrowExchange, producer
  <2>1. TypeOK'
    BY DEF TypeOK
  <2>2. /\ newSize \in Queues /\ newSize > queue /\ oldQueue = null
        /\ buf[newSize] = <<>> /\ buf' = buf
        /\ queue' = newSize /\ oldQueue' = queue /\ popped' = popped
        /\ accepted' = accepted
    BY DEF TypeOK, Fresh
  <2>3. /\ (Contents(oldQueue))' = buf[queue]
        /\ (buf[queue])' = <<>> /\ (Len(buf[queue]))' = 0
        /\ OldLen = 0 /\ OldLen' = Len(buf[queue])
    BY <1>0, <1>Q, <2>2 DEF Contents, OldLen
  <2>4. Consecutive'
    <3>1. accepted = popped + Len(buf[queue]) + 0 /\ Run(buf[queue], popped)
      BY <1>0, <2>3 DEF Consecutive
    <3>2. (Run(buf[queue], popped + OldLen))'
      BY <2>3 DEF Run
    <3> QED
      BY <2>2, <2>3, <3>1, <3>2 DEF Consecutive
  <2>5. Covered'
    <3>1. /\ Holding' = Holding /\ Unsignalled' = Unsignalled
          /\ ReleaseTicket' = ReleaseTicket /\ tickets' = tickets
      BY DEF Holding, Unsignalled, ReleaseTicket
    <3> QED
      BY ONLY <1>0, <1>T, <2>3, <3>1, Covered DEF Covered
  <2>6. Fresh'
    BY <1>0, <1>Q, <2>2 DEF Fresh
  <2>7. StaleProducer'
    BY <1>0, <1>Q, <2>2, <2>3 DEF StaleProducer
  <2>8. ProducerSteps' /\ ConsumerSteps'
    BY DEF ProducerSteps, ConsumerSteps
  <2> QED
    BY <2>1, <2>4, <2>5, <2>6, <2>7, <2>8
<1>3. CASE GrowReset
  <2> USE <1>3 DEF GrowReset, producer
  <2>1. OldLen' = OldLen /\ Consecutive'
    BY SameQueues
  <2>2. TypeOK'
    BY DEF TypeOK
  <2>3. Covered'
    BY <2>1 DEF Covered, Holding, Unsignalled, ReleaseTicket
  <2>4. Fresh'
    BY DEF Fresh
  <2>5. StaleProducer' /\ ProducerSteps' /\ ConsumerSteps'
    BY DEF StaleProducer, ProducerSteps, ConsumerSteps
  <2> QED
    BY <2>1, <2>2, <2>3, <2>4, <2>5
<1> QED
  BY <1>1, <1>2, <1>3 DEF Grow

(* A pop takes the first element, and deletes only what nobody can reach.    *)
LEMMA PopPreserves == IInv /\ Pop => IInv'
<1> SUFFICES ASSUME IInv, Pop PROVE IInv'
  OBVIOUS
<1> USE DEF IInv
<1>0. /\ queue \in Queues /\ pqueue \in Queues /\ accepted \in Nat /\ popped \in Nat
      /\ OldLen \in Nat /\ Len(buf[queue]) \in Nat /\ tickets \in Nat
      /\ queue \in Nat /\ oldQueue \in Nat /\ oldQueue # queue /\ null \in Nat
  BY InFlightSplit, SizeAssumption DEF TypeOK, Queues, null, Fresh
<1>Q. \A q \in Queues : q \in Nat /\ q # null
  BY SizeAssumption DEF Queues, null
<1>T. Holding \in Nat /\ Unsignalled \in Nat /\ ReleaseTicket \in Nat
  BY DEF Holding, Unsignalled, ReleaseTicket
<1>1. CASE PopWait
  <2> USE <1>1 DEF PopWait, producer
  <2>1. OldLen' = OldLen /\ Consecutive'
    BY SameQueues
  <2>2. TypeOK'
    BY <1>0 DEF TypeOK
  <2>3. Covered'
    <3>1. /\ tickets = tickets' + 1 /\ (Len(buf[queue]))' = Len(buf[queue])
          /\ Holding = 0 /\ Holding' = 1 /\ tickets' \in Nat
          /\ ReleaseTicket' = ReleaseTicket /\ Unsignalled' = Unsignalled
      BY <1>0 DEF Holding, Unsignalled, ReleaseTicket
    <3> QED
      BY ONLY <1>0, <1>T, <2>1, <3>1, Covered DEF Covered
  <2>4. Fresh'
    BY DEF Fresh
  <2>5. StaleProducer' /\ ProducerSteps' /\ ConsumerSteps'
    BY DEF StaleProducer, ProducerSteps, ConsumerSteps
  <2> QED
    BY <2>1, <2>2, <2>3, <2>4, <2>5
<1>2. CASE PopOld
  <2> USE <1>2 DEF PopOld, Dequeue, producer
  <2>1. /\ oldQueue \in Queues /\ oldQueue < queue
        /\ Contents(oldQueue) = buf[oldQueue]
        /\ buf[oldQueue] \in Seq(1 .. MaxPushes) /\ buf[oldQueue] # <<>>
        /\ Run(buf[oldQueue], popped)
    BY <1>0 DEF ConsumerSteps, TypeOK, Fresh, Consecutive, Contents
  <2>2. /\ Head(buf[oldQueue]) = popped + 1
        /\ Len(buf[oldQueue]) \in Nat \ {0}
        /\ Tail(buf[oldQueue]) \in Seq(1 .. MaxPushes)
        /\ Len(Tail(buf[oldQueue])) = Len(buf[oldQueue]) - 1
        /\ Run(Tail(buf[oldQueue]), popped + 1)
    BY <1>0, <2>1, TailRun
  <2>3. /\ UNCHANGED <<queue, oldQueue, live, currentNumElements, tickets,
                       released, ppc, pqueue, newSize, accepted>>
        /\ popped' = popped + 1 /\ cpc = "tryOld" /\ cpc' = "idle"
        /\ data' = popped + 1
        /\ buf'[oldQueue] = Tail(buf[oldQueue])
        /\ \A q \in Queues : q # oldQueue => buf'[q] = buf[q]
    BY <2>1, <2>2 DEF TypeOK
  <2>4. /\ OldLen = Len(buf[oldQueue]) /\ OldLen # 0 /\ OldLen' = OldLen - 1
        /\ (Contents(oldQueue))' = Tail(buf[oldQueue])
        /\ (buf[queue])' = buf[queue] /\ (Len(buf[queue]))' = Len(buf[queue])
    BY <1>0, <2>1, <2>2, <2>3 DEF OldLen, Contents
  <2>5. /\ accepted = (popped + 1) + (OldLen - 1) + Len(buf[queue])
        /\ popped + OldLen = (popped + 1) + (OldLen - 1)
    <3>1. accepted = popped + OldLen + Len(buf[queue])
      BY DEF Consecutive
    <3>2. popped + OldLen + Len(buf[queue])
             = (popped + 1) + (OldLen - 1) + Len(buf[queue])
      <4>1. popped \in Nat /\ OldLen \in Nat /\ Len(buf[queue]) \in Nat /\ OldLen # 0
        BY <1>0, <2>4
      <4> QED
        BY <4>1, SumPopOld, Zenon
    <3>3. \A a, b \in Nat : b # 0 => a + b = (a + 1) + (b - 1)
      OBVIOUS
    <3> QED
      BY <1>0, <2>4, <3>1, <3>2, <3>3
  <2>6. popped + 1 \in 0 .. MaxPushes
    <3>1. popped + 1 <= accepted
      <4>1. \A p, o, l \in Nat : o # 0 => p + 1 <= p + o + l
        OBVIOUS
      <4> QED
        BY <1>0, <2>4, <4>1 DEF Consecutive
    <3> QED
      BY <1>0, <3>1, SizeAssumption DEF TypeOK
  <2>7. TypeOK'
    BY <2>1, <2>2, <2>6 DEF TypeOK
  <2> HIDE <1>2 DEF PopOld, Dequeue, producer
  <2>8. Consecutive'
    <3>1. (accepted = popped + OldLen + Len(buf[queue]))'
      BY <2>3, <2>4, <2>5
    <3>2. (Run(Contents(oldQueue), popped))'
      BY <2>2, <2>3, <2>4
    <3>3. (Run(buf[queue], popped + OldLen))'
      BY <2>3, <2>4, <2>5 DEF Consecutive
    <3> QED
      BY <3>1, <3>2, <3>3 DEF Consecutive
  <2>9. Covered'
    <3>1. /\ tickets' = tickets /\ Holding = 1 /\ Holding' = 0
          /\ ReleaseTicket' = ReleaseTicket /\ Unsignalled' = Unsignalled
      BY <2>3 DEF Holding, Unsignalled, ReleaseTicket
    <3>2. tickets + 1 + Unsignalled = OldLen + Len(buf[queue]) + ReleaseTicket
      BY <3>1 DEF Covered
    <3>3. tickets + 0 + Unsignalled = (OldLen - 1) + Len(buf[queue]) + ReleaseTicket
      <4> DEFINE t == tickets
                 u == Unsignalled
                 o == OldLen
                 l == Len(buf[queue])
                 r == ReleaseTicket
      <4>1. /\ t \in Nat /\ u \in Nat /\ o \in Nat /\ l \in Nat /\ r \in Nat
            /\ t + 1 + u = o + l + r
        BY <1>0, <1>T, <3>2
      <4> HIDE DEF t, u, o, l, r
      <4>2. t + 0 + u = (o - 1) + l + r
        BY ONLY <4>1
      <4> QED
        BY <4>2 DEF t, u, o, l, r
    <3> QED
      BY <2>4, <3>1, <3>3 DEF Covered
  <2>10. Fresh'
    BY <1>0, <1>Q, <2>1, <2>3 DEF Fresh
  <2>11. StaleProducer' /\ ProducerSteps'
    BY <2>3, <2>4 DEF StaleProducer, ProducerSteps
  <2>12. ConsumerSteps'
    BY <2>3 DEF ConsumerSteps
  <2> QED
    BY <2>7, <2>8, <2>9, <2>10, <2>11, <2>12
<1>3. CASE PopOldEmpty
  <2> USE <1>3 DEF PopOldEmpty, shared, producer
  <2>1. OldLen' = OldLen /\ Consecutive'
    BY SameQueues
  <2>2. TypeOK'
    BY <1>0 DEF TypeOK
  <2>3. Covered'
    BY <2>1 DEF Covered, Holding, Unsignalled, ReleaseTicket
  <2>4. Fresh'
    BY DEF Fresh
  <2>5. StaleProducer' /\ ProducerSteps' /\ ConsumerSteps'
    BY DEF StaleProducer, ProducerSteps, ConsumerSteps
  <2> QED
    BY <2>1, <2>2, <2>3, <2>4, <2>5
<1>4. CASE PopNew
  <2> USE <1>4 DEF PopNew, Dequeue, producer
  <2>1. /\ Contents(oldQueue) = <<>> /\ OldLen = 0
        /\ oldQueue # null => buf[oldQueue] = <<>>
        /\ buf[queue] \in Seq(1 .. MaxPushes) /\ buf[queue] # <<>>
    BY <1>0 DEF ConsumerSteps, TypeOK, Contents, OldLen
  <2>2. Run(buf[queue], popped) /\ accepted = popped + 0 + Len(buf[queue])
    BY <1>0, <2>1 DEF Consecutive
  <2>3. /\ Head(buf[queue]) = popped + 1
        /\ Len(buf[queue]) \in Nat \ {0}
        /\ Tail(buf[queue]) \in Seq(1 .. MaxPushes)
        /\ Len(Tail(buf[queue])) = Len(buf[queue]) - 1
        /\ Run(Tail(buf[queue]), popped + 1)
    <3>1. buf[queue] \in Seq(1 .. MaxPushes) /\ popped \in Nat
      BY <1>0, <2>1
    <3>2. buf[queue] # <<>> /\ Run(buf[queue], popped)
      BY <2>1, <2>2
    <3> QED
      BY <3>1, <3>2, TailRun, Zenon
  <2>4. /\ UNCHANGED <<queue, oldQueue, live, currentNumElements, tickets,
                       released, ppc, pqueue, newSize, accepted>>
        /\ popped' = popped + 1 /\ cpc = "tryNew"
        /\ cpc' = IF oldQueue # null THEN "delete" ELSE "idle"
        /\ data' = popped + 1
        /\ buf'[queue] = Tail(buf[queue])
        /\ \A q \in Queues : q # queue => buf'[q] = buf[q]
    BY <1>0, <2>3 DEF TypeOK
  <2>5. /\ oldQueue \in Queues \cup {null}
        /\ (Contents(oldQueue))' = <<>> /\ OldLen' = 0
        /\ (buf[queue])' = Tail(buf[queue])
        /\ (Len(buf[queue]))' = Len(buf[queue]) - 1
    BY <1>0, <2>1, <2>3, <2>4 DEF Contents, OldLen, TypeOK
  <2>6. popped + 1 \in 0 .. MaxPushes
    <3>1. \A p, l \in Nat : l # 0 => p + 1 <= p + 0 + l
      OBVIOUS
    <3>2. popped + 1 <= accepted
      BY <1>0, <2>2, <2>3, <3>1
    <3> QED
      BY <1>0, <3>2, SizeAssumption DEF TypeOK
  <2>7. TypeOK'
    BY <1>0, <2>3, <2>4, <2>6 DEF TypeOK
  <2> HIDE <1>4 DEF PopNew, Dequeue, producer
  <2>8. Consecutive'
    <3>1. (popped + 1) + 0 + (Len(buf[queue]) - 1) = popped + 0 + Len(buf[queue])
      BY <1>0, <2>3, SumPopNew
    <3>2. (accepted = popped + OldLen + Len(buf[queue]))'
      BY <2>2, <2>4, <2>5, <3>1
    <3>3. (Run(Contents(oldQueue), popped))'
      BY <2>5 DEF Run
    <3>4. (popped + 1) + 0 = popped + 1
      BY <1>0
    <3>5. (Run(buf[queue], popped + OldLen))'
      BY <2>3, <2>4, <2>5, <3>4
    <3> QED
      BY <3>2, <3>3, <3>5 DEF Consecutive
  <2>9. Covered'
    <3>1. /\ tickets' = tickets /\ Holding = 1 /\ Holding' = 0
          /\ ReleaseTicket' = ReleaseTicket /\ Unsignalled' = Unsignalled
      BY <2>4 DEF Holding, Unsignalled, ReleaseTicket
    <3> QED
      BY ONLY <1>0, <1>T, <2>1, <2>5, <3>1, Covered DEF Covered
  <2>10. Fresh'
    BY <1>0, <1>Q, <2>4 DEF Fresh
  <2>11. ppc = "loaded" => pqueue = queue
    BY <2>1 DEF StaleProducer
  <2>12. StaleProducer' /\ ProducerSteps'
    BY <2>4, <2>11 DEF StaleProducer, ProducerSteps
  <2>13. ConsumerSteps'
    <3>1. oldQueue # null => buf'[oldQueue] = <<>>
      BY <1>0, <2>1, <2>4, <2>5
    <3> QED
      BY <2>4, <2>11, <3>1 DEF ConsumerSteps
  <2> QED
    BY <2>7, <2>8, <2>9, <2>10, <2>12, <2>13
<1>5. CASE PopDelete
  <2> USE <1>5 DEF PopDelete, producer
  <2>1. TypeOK'
    BY DEF TypeOK
  <2>2. /\ oldQueue # null /\ buf[oldQueue] = <<>>
        /\ ppc = "loaded" => pqueue = queue
        /\ UNCHANGED <<queue, buf>> /\ oldQueue' = null
    BY DEF ConsumerSteps
  <2>3. /\ Contents(oldQueue) = <<>> /\ OldLen = 0
        /\ (Contents(oldQueue))' = <<>> /\ OldLen' = 0
    BY <2>2 DEF Contents, OldLen
  <2>4. Consecutive'
    BY <2>2, <2>3 DEF Consecutive
  <2>5. Covered'
    <3>1. /\ Holding' = Holding /\ Unsignalled' = Unsignalled
          /\ ReleaseTicket' = ReleaseTicket /\ tickets' = tickets
          /\ (Len(buf[queue]))' = Len(buf[queue])
      BY DEF Holding, Unsignalled, ReleaseTicket
    <3> QED
      BY ONLY <1>0, <1>T, <2>3, <3>1, Covered DEF Covered
  <2>6. Fresh'
    BY <1>0, <1>Q, <2>2 DEF Fresh, null
  <2>7. StaleProducer' /\ ProducerSteps' /\ ConsumerSteps'
    BY <2>2 DEF StaleProducer, ProducerSteps, ConsumerSteps
  <2> QED
    BY <2>1, <2>4, <2>5, <2>6, <2>7
<1>6. CASE PopFalse
  <2> USE <1>6 DEF PopFalse, shared, producer
  <2>1. OldLen' = OldLen /\ Consecutive'
    BY SameQueues
  <2>2. TypeOK'
    BY DEF TypeOK
  <2>3. OldLen = 0 /\ Len(buf[queue]) = 0
    BY <1>0 DEF ConsumerSteps, Contents, OldLen
  <2>4. Holding = 1 /\ Holding' = 0 /\ Unsignalled' = Unsignalled /\ ReleaseTicket' = 0
    BY DEF Holding, Unsignalled, ReleaseTicket
  <2>5. ReleaseTicket = 1 /\ tickets = 0 /\ Unsignalled = 0
    <3>1. tickets + 1 + Unsignalled = 0 + 0 + ReleaseTicket
      BY <2>3, <2>4 DEF Covered
    <3>2. ReleaseTicket \in {0, 1}
      BY DEF ReleaseTicket
    <3> QED
      BY ONLY <1>0, <1>T, <3>1, <3>2
  <2>6. Covered'
    <3>1. (Len(buf[queue]))' = 0 /\ tickets' = 0
      BY <2>3, <2>5
    <3> QED
      BY <2>1, <2>3, <2>4, <2>5, <3>1 DEF Covered
  <2>7. released /\ accepted = popped
    <3>1. accepted = popped + 0 + 0
      BY <2>3 DEF Consecutive
    <3> QED
      BY <1>0, <2>5, <3>1 DEF ReleaseTicket
  <2>8. Fresh'
    BY DEF Fresh
  <2>9. StaleProducer' /\ ProducerSteps' /\ ConsumerSteps'
    BY <2>7 DEF StaleProducer, ProducerSteps, ConsumerSteps
  <2> QED
    BY <2>1, <2>2, <2>6, <2>8, <2>9
<1> QED
  BY <1>1, <1>2, <1>3, <1>4, <1>5, <1>6 DEF Pop

(* Every step keeps the inductive invariant.                                 *)
LEMMA IInvNext == IInv /\ [Next]_vars => IInv'
<1> SUFFICES ASSUME IInv, [Next]_vars PROVE IInv'
  OBVIOUS
<1>1. ASSUME UNCHANGED vars PROVE IInv'
  <2> USE <1>1 DEF vars, shared, producer, consumer, IInv
  <2>1. OldLen' = OldLen /\ Consecutive'
    BY SameQueues
  <2>2. TypeOK'
    BY DEF TypeOK
  <2>3. Covered'
    BY <2>1 DEF Covered, Holding, Unsignalled, ReleaseTicket
  <2>4. Fresh'
    BY DEF Fresh
  <2>5. StaleProducer' /\ ProducerSteps' /\ ConsumerSteps'
    BY DEF StaleProducer, ProducerSteps, ConsumerSteps
  <2> QED
    BY <2>1, <2>2, <2>3, <2>4, <2>5
<1>2. CASE Stopped
  BY <1>1, <1>2 DEF Stopped
<1> QED
  BY <1>1, <1>2, PushPreserves, ReleasePreserves, PopPreserves, GrowPreserves
  DEF Next
-----------------------------------------------------------------------------
(* The inductive invariant holds of every behaviour of the queue.            *)
THEOREM Invariance == Safety => []IInv
<1>1. Init => IInv
  BY IInvInit
<1>2. IInv /\ [Next]_vars => IInv'
  BY IInvNext
<1> QED
  BY <1>1, <1>2, PTL DEF Safety

(* Whatever the interleaving of push, pop and grow: the state has its type.  *)
THEOREM TypeCorrect == Safety => []TypeOK
<1>1. IInv => TypeOK
  BY DEF IInv
<1> QED
  BY <1>1, Invariance, PTL

(* grow() deletes no enqueued element and does not mess up their order (doc  *)
(* of grow(), BlockingLockFreeQueue.h:168), for every size and policy.       *)
THEOREM NothingIsLost == Safety => []NothingLost
  BY Invariance, IInvImplies, PTL

(* The old queue is deleted only when the producer can no longer touch it    *)
(* (comment in popElementBlocking(), BlockingLockFreeQueue.h:134).           *)
THEOREM DeletionIsSafe == Safety => []DeletedNeverUsed
  BY Invariance, IInvImplies, PTL

(* The semaphore never promises an element that is not there.                *)
THEOREM TicketsAreCovered == Safety => []TicketsCovered
  BY Invariance, IInvImplies, PTL

(* The consumer quits only after a release, with nothing left to pop.        *)
THEOREM QuitsDrained == Safety => []FalseOnlyWhenDrained
  BY Invariance, IInvImplies, PTL
-----------------------------------------------------------------------------
(* The elements in flight are a function of the two counters.  With that,    *)
(* each step of the queue is a step of the abstract FIFO or a stutter.       *)
Between(p, a) == [i \in 1 .. (a - p) |-> p + i]

(* What is in flight are the elements after the popped ones.                 *)
LEMMA InFlightBetween ==
    ASSUME IInv
    PROVE  /\ InFlight = Between(popped, accepted)
           /\ popped \in Nat /\ accepted \in Nat /\ popped <= accepted
<1>1. popped \in Nat /\ accepted \in Nat
  BY SizeAssumption DEF IInv, TypeOK
<1>2. NothingLost
  BY IInvImplies
<1>3. InFlight \in Seq(1 .. MaxPushes)
  BY InFlightSplit DEF InFlight, IInv
<1>4. InFlight = [i \in 1 .. Len(InFlight) |-> InFlight[i]]
  BY <1>3
<1>5. Len(InFlight) \in Nat
  BY <1>3
<1> QED
  BY <1>1, <1>2, <1>4, <1>5 DEF NothingLost, Between

(* The same after a step.                                                    *)
LEMMA InFlightBetweenPrime ==
    IInv' => /\ InFlight' = Between(popped', accepted')
             /\ popped' \in Nat /\ accepted' \in Nat /\ popped' <= accepted'
<1>1. IInv => /\ InFlight = Between(popped, accepted)
              /\ popped \in Nat /\ accepted \in Nat /\ popped <= accepted
  BY InFlightBetween
<1>2. (IInv => /\ InFlight = Between(popped, accepted)
               /\ popped \in Nat /\ accepted \in Nat /\ popped <= accepted)'
  BY <1>1, PTL
<1> QED
  BY <1>2

(* Accepting an element appends it.                                          *)
LEMMA BetweenPut ==
    \A p, a \in Nat : p <= a => Between(p, a + 1) = Append(Between(p, a), a + 1)
<1> SUFFICES ASSUME NEW p \in Nat, NEW a \in Nat, p <= a
             PROVE  Between(p, a + 1) = Append(Between(p, a), a + 1)
  OBVIOUS
<1>1. a - p \in Nat /\ (a + 1) - p = (a - p) + 1 /\ p + ((a - p) + 1) = a + 1
  OBVIOUS
<1>2. Between(p, a) \in Seq(Nat) /\ Len(Between(p, a)) = a - p
  BY <1>1 DEF Between
<1>3. Between(p, a + 1) \in Seq(Nat) /\ Len(Between(p, a + 1)) = (a - p) + 1
  BY <1>1 DEF Between
<1>4. /\ Append(Between(p, a), a + 1) \in Seq(Nat)
      /\ Len(Append(Between(p, a), a + 1)) = (a - p) + 1
  BY <1>1, <1>2
<1>5. ASSUME NEW i \in 1 .. (a - p) + 1
      PROVE  Between(p, a + 1)[i] = Append(Between(p, a), a + 1)[i]
  <2>1. Between(p, a + 1)[i] = p + i
    BY <1>1 DEF Between
  <2>2. CASE i = (a - p) + 1
    BY <1>1, <1>2, <2>1, <2>2
  <2>3. CASE i # (a - p) + 1
    <3>1. i \in 1 .. (a - p)
      BY <1>1, <2>3
    <3>2. Between(p, a)[i] = p + i
      BY <3>1 DEF Between
    <3> QED
      BY <1>2, <2>1, <3>1, <3>2
  <2> QED
    BY <2>2, <2>3
<1> QED
  BY SMTT(30), <1>3, <1>4, <1>5

(* Popping an element takes the first.                                       *)
LEMMA BetweenGet ==
    \A p, a \in Nat :
        p + 1 <= a => /\ Between(p, a) # <<>>
                      /\ Head(Between(p, a)) = p + 1
                      /\ Between(p + 1, a) = Tail(Between(p, a))
<1> SUFFICES ASSUME NEW p \in Nat, NEW a \in Nat, p + 1 <= a
             PROVE  /\ Between(p, a) # <<>>
                    /\ Head(Between(p, a)) = p + 1
                    /\ Between(p + 1, a) = Tail(Between(p, a))
  OBVIOUS
<1>1. a - p \in Nat \ {0} /\ a - (p + 1) = (a - p) - 1 /\ (a - p) - 1 \in Nat
  OBVIOUS
<1>2. Between(p, a) \in Seq(Nat) /\ Len(Between(p, a)) = a - p
  BY <1>1 DEF Between
<1>3. Between(p + 1, a) \in Seq(Nat) /\ Len(Between(p + 1, a)) = (a - p) - 1
  BY <1>1 DEF Between
<1>4. Between(p, a) # <<>>
  BY <1>1, <1>2
<1>5. Head(Between(p, a)) = p + 1
  BY <1>1, <1>2 DEF Between
<1>6. Tail(Between(p, a)) \in Seq(Nat) /\ Len(Tail(Between(p, a))) = (a - p) - 1
  BY <1>1, <1>2, <1>4
<1>7. ASSUME NEW i \in 1 .. (a - p) - 1
      PROVE  Between(p + 1, a)[i] = Tail(Between(p, a))[i]
  <2>1. i \in Nat /\ i + 1 \in 1 .. (a - p)
    BY <1>1
  <2>2. Between(p + 1, a)[i] = p + (i + 1)
    BY <1>1, <2>1 DEF Between
  <2>3. Between(p, a)[i + 1] = p + (i + 1)
    BY <2>1 DEF Between
  <2>4. Tail(Between(p, a))[i] = Between(p, a)[i + 1]
    BY <1>2, <1>4, <1>6
  <2> QED
    BY <2>2, <2>3, <2>4
<1>8. Between(p + 1, a) = Tail(Between(p, a))
  <2> DEFINE t == Tail(Between(p, a))
             b == Between(p + 1, a)
             n == (a - p) - 1
  <2>1. /\ b \in Seq(Nat) /\ t \in Seq(Nat) /\ Len(b) = n /\ Len(t) = n
        /\ \A i \in 1 .. n : b[i] = t[i]
    BY <1>3, <1>6, <1>7
  <2> HIDE DEF t, b, n
  <2>2. b = t
    BY ONLY <2>1, SeqEqual
  <2> QED
    BY <2>2 DEF b, t
<1> QED
  BY <1>4, <1>5, <1>8

(* A pop delivers the element after the ones popped before.                  *)
LEMMA PopDelivers == IInv /\ (PopOld \/ PopNew) => data' = popped + 1
<1> SUFFICES ASSUME IInv, PopOld \/ PopNew PROVE data' = popped + 1
  OBVIOUS
<1>1. popped \in Nat /\ queue \in Queues /\ queue # null
  BY SizeAssumption DEF IInv, TypeOK, Queues, null
<1>2. CASE PopOld
  <2>1. /\ oldQueue \in Queues /\ buf[oldQueue] # <<>>
        /\ Contents(oldQueue) = buf[oldQueue]
        /\ data' = Head(buf[oldQueue])
    BY <1>2 DEF PopOld, Dequeue, IInv, ConsumerSteps, TypeOK, Contents
  <2>2. buf[oldQueue] \in Seq(1 .. MaxPushes) /\ Run(buf[oldQueue], popped)
    BY <2>1 DEF IInv, TypeOK, Consecutive
  <2> QED
    BY <1>1, <2>1, <2>2, TailRun
<1>3. CASE PopNew
  <2>1. /\ buf[queue] # <<>> /\ data' = Head(buf[queue])
        /\ OldLen = 0
    BY <1>3 DEF PopNew, Dequeue, IInv, ConsumerSteps, OldLen, Contents
  <2>2. popped + OldLen = popped
    BY <1>1, <2>1
  <2>3. buf[queue] \in Seq(1 .. MaxPushes) /\ Run(buf[queue], popped)
    BY <1>1, <2>2 DEF IInv, TypeOK, Consecutive
  <2> QED
    BY <1>1, <2>1, <2>3, TailRun
<1> QED
  BY <1>2, <1>3

(* A new queue is an empty FIFO.                                             *)
LEMMA FifoInit == Init => Fifo!Init
<1> SUFFICES ASSUME Init PROVE Fifo!Init
  OBVIOUS
<1>1. InFlight = <<>>
  <2>1. IInv
    BY IInvInit
  <2>2. accepted - popped = 0
    BY DEF Init
  <2> QED
    BY <2>1, <2>2, InFlightBetween, InFlightSplit DEF Between, IInv
<1>2. 0 \in 0 .. MaxPushes
  BY SizeAssumption
<1> QED
  BY <1>1, <1>2 DEF Init, Fifo!Init

(* Each step is one of the FIFO, or changes nothing of it.                   *)
LEMMA FifoStep == IInv /\ IInv' /\ [Next]_vars => [Fifo!Next]_(Fifo!vars)
<1> SUFFICES ASSUME IInv, IInv', [Next]_vars PROVE [Fifo!Next]_(Fifo!vars)
  OBVIOUS
<1>1. /\ InFlight = Between(popped, accepted)
      /\ popped \in Nat /\ accepted \in Nat /\ popped <= accepted
  BY InFlightBetween
<1>2. /\ InFlight' = Between(popped', accepted')
      /\ popped' \in Nat /\ accepted' \in Nat /\ popped' <= accepted'
  BY InFlightBetweenPrime
<1>3. ASSUME UNCHANGED <<popped, accepted, data, released>>,
             cpc' = "quit" <=> cpc = "quit"
      PROVE  UNCHANGED Fifo!vars
  BY <1>1, <1>2, <1>3 DEF Fifo!vars
<1>4. CASE PushEnqueue
  <2>1. /\ accepted' = accepted + 1 /\ ~released
        /\ UNCHANGED <<popped, data, released, cpc>>
    BY <1>4 DEF PushEnqueue, consumer, IInv, ConsumerSteps
  <2>2. accepted + 1 \in 0 .. MaxPushes
    BY <2>1 DEF IInv, TypeOK
  <2>3. InFlight' = Append(InFlight, accepted + 1)
    BY <1>1, <1>2, <2>1, BetweenPut
  <2> QED
    BY <2>1, <2>2, <2>3 DEF Fifo!Next, Fifo!Put
<1>5. CASE PopOld \/ PopNew
  <2>1. /\ popped' = popped + 1 /\ cpc # "quit" /\ cpc' # "quit"
        /\ UNCHANGED <<accepted, released>>
    BY <1>5 DEF PopOld, PopNew, Dequeue, producer
  <2>2. data' = popped + 1
    BY <1>5, PopDelivers
  <2>3. /\ InFlight # <<>> /\ Head(InFlight) = popped + 1
        /\ InFlight' = Tail(InFlight)
    BY <1>1, <1>2, <2>1, BetweenGet
  <2> QED
    BY <2>1, <2>2, <2>3 DEF Fifo!Next, Fifo!Get
<1>6. CASE ReleaseConsumer
  BY <1>1, <1>2, <1>6 DEF ReleaseConsumer, producer, consumer, Fifo!Next, Fifo!Close
<1>7. CASE PopFalse
  <2>1. /\ cpc' = "quit" /\ UNCHANGED <<popped, accepted, data, released>>
    BY <1>7 DEF PopFalse, shared, producer
  <2>2. released /\ accepted - popped = 0
    BY <1>1, <2>1 DEF IInv, ConsumerSteps
  <2>3. InFlight = <<>> /\ InFlight' = InFlight
    BY <1>1, <1>2, <2>1, <2>2 DEF Between
  <2> QED
    BY <2>1, <2>2, <2>3 DEF Fifo!Next, Fifo!Finish
<1>8. CASE PushLoad \/ PushSignal \/ PushFull \/ PushFail
  BY <1>3, <1>8 DEF PushLoad, PushSignal, PushFull, PushFail, shared, consumer
<1>9. CASE PopWait \/ PopOldEmpty \/ PopDelete
  BY <1>3, <1>9 DEF PopWait, PopOldEmpty, PopDelete, shared, producer
<1>10. CASE Grow
  BY <1>3, <1>10 DEF Grow, GrowDecide, GrowExchange, GrowReset, shared, producer
<1>11. CASE UNCHANGED vars
  BY <1>3, <1>11 DEF vars, shared, producer, consumer
<1> QED
  BY <1>4, <1>5, <1>6, <1>7, <1>8, <1>9, <1>10, <1>11
  DEF Next, Push, Pop, Stopped

(* The queue is a FIFO: every behaviour of push, pop, grow and release is a  *)
(* behaviour of the abstract FifoQueue.                                      *)
THEOREM RefinesFifo == Safety => Fifo!Safety
<1>1. Init => Fifo!Init
  BY FifoInit
<1>2. IInv /\ IInv' /\ [Next]_vars => [Fifo!Next]_(Fifo!vars)
  BY FifoStep
<1> QED
  BY <1>1, <1>2, Invariance, PTL DEF Safety, Fifo!Safety
-----------------------------------------------------------------------------
(***************************************************************************)
(* The background thread of AsyncAudioSystem, which is the consumer.  The  *)
(* argument: the entries that it counts before an inner loop are among     *)
(* those accepted and not yet popped, and nobody else pops (Expected), so  *)
(* that an inner pop always finds one; and the frame that it has in its    *)
(* hands is always the last one popped (Handed).                           *)
(***************************************************************************)
LoopTypeOK ==
    /\ loop \in {"outer", "opened", "grow", "submit", "count", "inner", "end", "final", "done"}
    /\ pops \in Nat /\ remaining \in Nat /\ handled \in 0 .. MaxPushes
    /\ owned \in BOOLEAN /\ batch \in BOOLEAN /\ final \in BOOLEAN

(* Where in the queue's code the thread is at each step of its own.          *)
InQueueCode ==
    /\ loop \in {"outer", "inner"} => cpc \in {"idle", "tryOld", "tryNew", "delete"}
    /\ loop = "grow" => cpc \in {"idle", "exchange", "grown"}
    /\ loop \in {"opened", "submit", "count", "end"} => cpc = "idle"
    /\ loop \in {"final", "done"} => cpc = "quit"

Expected ==
    /\ loop \in {"outer", "opened", "grow", "count", "end", "final"} => remaining = 0
    /\ loop = "inner" => remaining >= 1
    /\ loop = "inner" /\ cpc # "delete" => popped + remaining <= accepted
    /\ remaining >= 1 => popped + (remaining - 1) <= accepted

Handed ==
    /\ InHand => data = popped /\ popped # 0
    /\ owned /\ loop \in {"outer", "inner", "count", "end", "final"} /\ cpc # "delete" =>
           handled = popped
    /\ owned /\ loop \in {"opened", "grow", "submit", "count", "inner", "end"} => batch
    /\ final => loop = "done" /\ handled = popped
    /\ loop = "done" /\ owned => final

AsyncInv == IInv /\ LoopTypeOK /\ InQueueCode /\ Expected /\ Handed

(* The numbers of an invariant's state.                                      *)
LEMMA Counters ==
    ASSUME IInv
    PROVE  /\ popped \in Nat /\ accepted \in 0 .. MaxPushes /\ popped <= accepted
           /\ Len(buf[queue]) \in Nat /\ popped + Len(buf[queue]) <= accepted
           /\ cpc = "quit" => accepted = popped
<1>1. popped \in Nat /\ accepted \in 0 .. MaxPushes
  BY SizeAssumption DEF IInv, TypeOK
<1>2. OldLen \in Nat /\ Len(buf[queue]) \in Nat /\ accepted = popped + OldLen + Len(buf[queue])
  BY InFlightSplit DEF IInv, Consecutive
<1>3. \A p, o, l \in Nat : p + l <= p + o + l /\ p <= p + o + l
  OBVIOUS
<1> QED
  BY <1>1, <1>2, <1>3 DEF IInv, ConsumerSteps

(* What the producer's steps and the release do to the counters.             *)
LEMMA ProducerCounts ==
    ASSUME IInv, Push \/ ReleaseConsumer
    PROVE  accepted' \in {accepted, accepted + 1} /\ UNCHANGED <<cpc, data, popped>>
BY DEF Push, PushLoad, PushEnqueue, PushSignal, PushFull, PushFail, ReleaseConsumer,
       shared, producer, consumer

(* What a pop does to them: an element that it delivers was there.           *)
LEMMA PopCounts ==
    ASSUME IInv, Pop
    PROVE  /\ accepted' = accepted
           /\ \/ cpc = "idle" /\ cpc' \in {"tryOld", "tryNew"} /\ UNCHANGED <<popped, data>>
              \/ cpc = "tryOld" /\ cpc' = "tryNew" /\ UNCHANGED <<popped, data>>
              \/ cpc = "delete" /\ cpc' = "idle" /\ UNCHANGED <<popped, data>>
              \/ cpc = "tryNew" /\ cpc' = "quit" /\ UNCHANGED <<popped, data>> /\ accepted = popped
              \/ /\ cpc \in {"tryOld", "tryNew"} /\ cpc' \in {"idle", "delete"}
                 /\ popped' = popped + 1 /\ data' = popped'
<1>1. CASE PopOld \/ PopNew
  <2>1. data' = popped + 1
    BY <1>1, PopDelivers
  <2> QED
    BY <1>1, <2>1 DEF PopOld, PopNew, Dequeue, producer
<1>2. CASE PopFalse
  <2>1. IInv'
    BY <1>2, PopPreserves DEF Pop
  <2>2. (released /\ accepted = popped)'
    BY <1>2, <2>1 DEF PopFalse, IInv, ConsumerSteps
  <2> QED
    BY <1>2, <2>2 DEF PopFalse, shared, producer
<1>3. CASE PopWait \/ PopOldEmpty \/ PopDelete
  BY <1>3 DEF PopWait, PopOldEmpty, PopDelete, shared, producer
<1> QED
  BY <1>1, <1>2, <1>3 DEF Pop

(* A thread that has begun, with a new queue.                                *)
LEMMA AsyncInvInit == AsyncInit => AsyncInv
<1> SUFFICES ASSUME AsyncInit PROVE AsyncInv
  OBVIOUS
<1>1. IInv
  BY IInvInit DEF AsyncInit
<1>2. cpc = "idle" /\ popped = 0 /\ accepted = 0
  BY DEF AsyncInit, Init
<1>3. LoopTypeOK
  <2>1. 0 \in 0 .. MaxPushes
    BY SizeAssumption
  <2>2. owned \in BOOLEAN /\ batch \in BOOLEAN /\ final \in BOOLEAN
    BY DEF AsyncInit
  <2> QED
    BY <2>1, <2>2, PopsAssumption DEF AsyncInit, LoopTypeOK
<1>4. InQueueCode /\ Expected /\ Handed
  BY <1>2 DEF AsyncInit, InQueueCode, Expected, Handed, InHand
<1> QED
  BY <1>1, <1>3, <1>4 DEF AsyncInv

(* A push or a release: there can only be more.                              *)
LEMMA ProducerKeepsAsync ==
    ASSUME AsyncInv, Push \/ ReleaseConsumer, UNCHANGED loopVars
    PROVE  AsyncInv'
<1>1. IInv' /\ IInv
  BY PushPreserves, ReleasePreserves DEF AsyncInv
<1>2. accepted' \in {accepted, accepted + 1} /\ UNCHANGED <<cpc, data, popped>>
  BY <1>1, ProducerCounts
<1>3. popped \in Nat /\ accepted \in Nat
  BY <1>1, Counters, SizeAssumption
<1>4. UNCHANGED <<loop, pops, remaining, owned, batch, handled, final>>
  BY DEF loopVars
<1>5. LoopTypeOK' /\ InQueueCode'
  BY <1>2, <1>4 DEF AsyncInv, LoopTypeOK, InQueueCode
<1>6. Expected'
  BY <1>2, <1>3, <1>4 DEF AsyncInv, Expected, LoopTypeOK
<1>7. Handed'
  BY <1>2, <1>4 DEF AsyncInv, Handed, InHand
<1> QED
  BY <1>1, <1>5, <1>6, <1>7 DEF AsyncInv

(* The outer pop, whose end opens a batch or is the last one.                *)
LEMMA OuterPopKeeps ==
    ASSUME AsyncInv, OuterPop
    PROVE  AsyncInv'
<1>1. /\ loop = "outer" /\ Pop
      /\ loop' = CASE cpc' = "idle" -> "opened" [] cpc' = "quit" -> "final" [] OTHER -> "outer"
      /\ batch' = (loop' = "opened" /\ owned)
      /\ UNCHANGED <<pops, remaining, owned, handled, final>>
  BY DEF OuterPop, PopThen
<1>2. IInv' /\ IInv
  BY <1>1, PopPreserves DEF AsyncInv
<1>3. /\ accepted' = accepted
      /\ \/ cpc = "idle" /\ cpc' \in {"tryOld", "tryNew"} /\ UNCHANGED <<popped, data>>
         \/ cpc = "tryOld" /\ cpc' = "tryNew" /\ UNCHANGED <<popped, data>>
         \/ cpc = "delete" /\ cpc' = "idle" /\ UNCHANGED <<popped, data>>
         \/ cpc = "tryNew" /\ cpc' = "quit" /\ UNCHANGED <<popped, data>> /\ accepted = popped
         \/ /\ cpc \in {"tryOld", "tryNew"} /\ cpc' \in {"idle", "delete"}
            /\ popped' = popped + 1 /\ data' = popped'
  BY <1>1, <1>2, PopCounts
<1>4. /\ cpc' = "idle" => loop' = "opened"
      /\ cpc' = "quit" => loop' = "final"
      /\ cpc' \in {"tryOld", "tryNew", "delete"} => loop' = "outer"
      /\ cpc' \in {"idle", "quit", "tryOld", "tryNew", "delete"}
  BY <1>1, <1>3
<1>5. remaining = 0 /\ ~final
  BY <1>1 DEF AsyncInv, Expected, Handed, InHand, LoopTypeOK
<1>6. LoopTypeOK'
  BY <1>1, <1>4 DEF AsyncInv, LoopTypeOK
<1>7. InQueueCode'
  BY <1>4 DEF InQueueCode
<1>8. Expected'
  BY <1>1, <1>4, <1>5 DEF Expected
<1>9. Handed'
  <2>1. popped \in Nat /\ (cpc' \in {"idle", "delete"} => data' = popped' /\ popped' # 0)
    <3>1. popped \in Nat
      BY <1>2, Counters
    <3>2. cpc = "delete" => data = popped /\ popped # 0
      BY DEF AsyncInv, Handed, InHand
    <3> QED
      BY <1>3, <3>1, <3>2
  <2>2. InHand' <=> cpc' \in {"idle", "delete"}
    BY <1>4 DEF InHand
  <2> QED
    BY <1>1, <1>3, <1>4, <1>5, <2>1, <2>2 DEF AsyncInv, Handed
<1> QED
  BY <1>2, <1>6, <1>7, <1>8, <1>9 DEF AsyncInv

(* An inner pop, which finds what was counted.                               *)
LEMMA InnerPopKeeps ==
    ASSUME AsyncInv, InnerPop
    PROVE  AsyncInv'
<1>1. /\ loop = "inner" /\ Pop
      /\ loop' = CASE cpc' = "idle" -> "submit" [] cpc' = "quit" -> "done" [] OTHER -> "inner"
      /\ batch' = IF loop' = "done" THEN FALSE ELSE batch
      /\ UNCHANGED <<pops, remaining, owned, handled, final>>
  BY DEF InnerPop, PopThen
<1>2. IInv' /\ IInv
  BY <1>1, PopPreserves DEF AsyncInv
<1>3. /\ accepted' = accepted
      /\ \/ cpc = "idle" /\ cpc' \in {"tryOld", "tryNew"} /\ UNCHANGED <<popped, data>>
         \/ cpc = "tryOld" /\ cpc' = "tryNew" /\ UNCHANGED <<popped, data>>
         \/ cpc = "delete" /\ cpc' = "idle" /\ UNCHANGED <<popped, data>>
         \/ cpc = "tryNew" /\ cpc' = "quit" /\ UNCHANGED <<popped, data>> /\ accepted = popped
         \/ /\ cpc \in {"tryOld", "tryNew"} /\ cpc' \in {"idle", "delete"}
            /\ popped' = popped + 1 /\ data' = popped'
  BY <1>1, <1>2, PopCounts
<1>4. /\ popped \in Nat /\ accepted \in Nat /\ remaining \in Nat /\ remaining >= 1
      /\ cpc # "delete" => popped + remaining <= accepted
      /\ popped + (remaining - 1) <= accepted
  BY <1>1, <1>2, Counters, SizeAssumption DEF AsyncInv, Expected, LoopTypeOK
<1>5. cpc' # "quit"
  BY <1>3, <1>4
<1>6. /\ cpc' = "idle" => loop' = "submit"
      /\ cpc' \in {"tryOld", "tryNew", "delete"} => loop' = "inner"
      /\ cpc' \in {"idle", "tryOld", "tryNew", "delete"}
  BY <1>1, <1>3, <1>5
<1>7. LoopTypeOK'
  <2>1. batch' = batch
    BY <1>1, <1>6
  <2> QED
    BY <1>1, <1>6, <2>1 DEF AsyncInv, LoopTypeOK
<1>8. InQueueCode'
  BY <1>6 DEF InQueueCode
<1>9. Expected'
  BY <1>1, <1>3, <1>4, <1>6 DEF Expected
<1>10. Handed'
  <2>1. batch' = batch
    BY <1>1, <1>6
  <2> QED
    BY <1>1, <1>3, <1>4, <1>6, <2>1 DEF AsyncInv, Handed, InHand
<1> QED
  BY <1>2, <1>7, <1>8, <1>9, <1>10 DEF AsyncInv

(* A step of grow(), which touches none of the counters.                     *)
LEMMA GrowQueueKeeps ==
    ASSUME AsyncInv, GrowQueue
    PROVE  AsyncInv'
<1>1. /\ loop = "grow" /\ Grow /\ loop' = IF cpc' = "idle" THEN "submit" ELSE "grow"
      /\ UNCHANGED <<pops, remaining, owned, batch, handled, final>>
  BY DEF GrowQueue
<1>2. IInv'
  BY <1>1, GrowPreserves DEF AsyncInv
<1>3. UNCHANGED <<accepted, popped, data>> /\ cpc' \in {"idle", "exchange", "grown"}
  BY <1>1 DEF Grow, GrowDecide, GrowExchange, GrowReset, shared, producer
<1>4. LoopTypeOK' /\ InQueueCode'
  BY <1>1, <1>3 DEF AsyncInv, LoopTypeOK, InQueueCode
<1>5. Expected' /\ Handed'
  BY <1>1, <1>3 DEF AsyncInv, Expected, Handed, InHand
<1> QED
  BY <1>2, <1>4, <1>5 DEF AsyncInv

(* The thread's own steps, which leave the queue alone.                      *)
LEMMA LoopKeeps ==
    ASSUME AsyncInv, UNCHANGED vars,
           \/ ConsiderGrow \/ GrowRefused \/ Submit \/ CountExtra \/ EndBatch \/ FinalBatch
           \/ DropOutput \/ UNCHANGED loopVars
    PROVE  AsyncInv'
<1>1. IInv' /\ IInv
  BY IInvNext DEF AsyncInv
<1>2. UNCHANGED <<accepted, popped, data, cpc, buf, queue>>
  BY DEF vars, shared, producer, consumer
<1>3. /\ popped \in Nat /\ accepted \in 0 .. MaxPushes /\ popped <= accepted
      /\ Len(buf[queue]) \in Nat /\ popped + Len(buf[queue]) <= accepted
      /\ cpc = "quit" => accepted = popped
  BY <1>1, Counters
<1>4. data \in 0 .. MaxPushes
  BY <1>1 DEF IInv, TypeOK
<1>5. CASE ConsiderGrow \/ GrowRefused
  BY <1>1, <1>2, <1>5 DEF AsyncInv, ConsiderGrow, GrowRefused, LoopTypeOK, InQueueCode,
                          Expected, Handed, InHand
<1>6. CASE Submit
  <2>1. /\ loop = "submit" /\ cpc = "idle" /\ remaining \in Nat
        /\ handled' = IF batch THEN data ELSE handled
        /\ remaining' = IF remaining > 0 THEN remaining - 1 ELSE 0
        /\ loop' = IF remaining > 1 THEN "inner" ELSE "count"
        /\ UNCHANGED <<pops, owned, batch, final>>
    BY <1>6 DEF AsyncInv, Submit, LoopTypeOK, InQueueCode
  <2>2. LoopTypeOK' /\ InQueueCode'
    BY <1>2, <1>4, <2>1 DEF AsyncInv, LoopTypeOK, InQueueCode
  <2>3. Expected'
    BY <1>2, <1>3, <2>1, SizeAssumption DEF AsyncInv, Expected
  <2>4. Handed'
    BY <1>2, <2>1 DEF AsyncInv, Handed, InHand
  <2> QED
    BY <1>1, <2>2, <2>3, <2>4 DEF AsyncInv
<1>7. CASE CountExtra
  <2>1. /\ loop = "count" /\ cpc = "idle" /\ remaining' = Len(buf[queue]) /\ remaining' \in Nat
        /\ loop' = IF remaining' > 0 THEN "inner" ELSE "end"
        /\ UNCHANGED <<pops, owned, batch, handled, final>>
    BY <1>3, <1>7 DEF AsyncInv, CountExtra, InQueueCode
  <2>2. LoopTypeOK' /\ InQueueCode'
    BY <1>2, <2>1 DEF AsyncInv, LoopTypeOK, InQueueCode
  <2>3. Expected'
    BY <1>2, <1>3, <2>1, SizeAssumption DEF AsyncInv, Expected
  <2>4. Handed'
    BY <1>2, <2>1 DEF AsyncInv, Handed, InHand
  <2> QED
    BY <1>1, <2>2, <2>3, <2>4 DEF AsyncInv
<1>8. CASE EndBatch
  BY <1>1, <1>2, <1>8 DEF AsyncInv, EndBatch, LoopTypeOK, InQueueCode, Expected, Handed, InHand
<1>9. CASE FinalBatch
  <2>1. /\ loop = "final" /\ cpc = "quit" /\ final' = owned /\ loop' = "done"
        /\ UNCHANGED <<pops, remaining, owned, batch, handled>>
    BY <1>9 DEF AsyncInv, FinalBatch, InQueueCode
  <2>2. LoopTypeOK' /\ InQueueCode' /\ Expected'
    BY <1>2, <2>1 DEF AsyncInv, LoopTypeOK, InQueueCode, Expected
  <2>3. Handed'
    BY <1>2, <2>1 DEF AsyncInv, Handed, InHand
  <2> QED
    BY <1>1, <2>2, <2>3 DEF AsyncInv
<1>10. CASE DropOutput
  BY <1>1, <1>2, <1>10 DEF AsyncInv, DropOutput, LoopTypeOK, InQueueCode, Expected, Handed, InHand
<1>11. CASE UNCHANGED loopVars
  BY <1>1, <1>2, <1>11 DEF AsyncInv, loopVars, LoopTypeOK, InQueueCode, Expected, Handed, InHand
<1> QED
  BY <1>5, <1>6, <1>7, <1>8, <1>9, <1>10, <1>11

(* Every step of the thread's system is one of the queue or leaves it alone, *)
(* and keeps the invariant.                                                  *)
LEMMA AsyncInvNext ==
    AsyncInv /\ [AsyncNext]_asyncVars => AsyncInv' /\ [Next]_vars
<1> SUFFICES ASSUME AsyncInv, [AsyncNext]_asyncVars PROVE AsyncInv' /\ [Next]_vars
  OBVIOUS
<1>1. CASE (Push \/ ReleaseConsumer) /\ UNCHANGED loopVars
  BY <1>1, ProducerKeepsAsync DEF Next
<1>2. CASE OuterPop \/ InnerPop
  BY <1>2, OuterPopKeeps, InnerPopKeeps DEF OuterPop, InnerPop, PopThen, Next
<1>3. CASE GrowQueue
  BY <1>3, GrowQueueKeeps DEF GrowQueue, Next
<1>4. CASE \/ ConsiderGrow \/ GrowRefused \/ Submit \/ CountExtra \/ EndBatch \/ FinalBatch
           \/ DropOutput \/ UNCHANGED asyncVars
  <2>1. UNCHANGED vars
    BY <1>4 DEF ConsiderGrow, GrowRefused, Submit, CountExtra, EndBatch, FinalBatch, DropOutput,
                asyncVars
  <2>2. AsyncInv'
    BY <1>4, <2>1, LoopKeeps DEF asyncVars
  <2> QED
    BY <2>1, <2>2
<1> QED
  BY <1>1, <1>2, <1>3, <1>4 DEF AsyncNext, Thread, Done

(* The thread uses the queue as the queue's specification says it may be     *)
(* used, so that what is proved of the queue holds here.                     *)
THEOREM AsyncInvariance == AsyncSpec => Safety /\ []AsyncInv
<1>1. AsyncInit => Init /\ AsyncInv
  BY AsyncInvInit DEF AsyncInit
<1>2. AsyncInv /\ [AsyncNext]_asyncVars => AsyncInv' /\ [Next]_vars
  BY AsyncInvNext
<1> QED
  BY <1>1, <1>2, PTL DEF AsyncSpec, Safety

(* The frames that asyncAudioSystem() pops are a FIFO's.                     *)
THEOREM AsyncRefinesFifo == AsyncSpec => Fifo!Safety
  BY AsyncInvariance, RefinesFifo, PTL

(* No inner pop returns false, so that the thread never ends without its     *)
(* final batch (asyncAudioSystem()).                                         *)
THEOREM NoInnerPopFails == AsyncSpec => []EndsWithFinalBatch
<1>1. AsyncInv => EndsWithFinalBatch
  BY DEF AsyncInv, InQueueCode, Handed, EndsWithFinalBatch
<1> QED
  BY <1>1, AsyncInvariance, PTL

(* Before the final batch the Output was given every accepted frame.         *)
THEOREM AllFramesAreHandled == AsyncSpec => []NothingUnhandled
<1>1. AsyncInv => NothingUnhandled
  BY DEF AsyncInv, InQueueCode, Handed, NothingUnhandled, IInv, ConsumerSteps
<1> QED
  BY <1>1, AsyncInvariance, PTL

-----------------------------------------------------------------------------
(***************************************************************************)
(* The frames on their way to the Output are those between two counters,   *)
(* like the ones in the queue, but for the frame in hand.  With that, each *)
(* step of the thread and of the producer is one of FrameLoop or a         *)
(* stutter.                                                                *)
(***************************************************************************)
Passed == IF InHand THEN popped - 1 ELSE popped

(* What is between two counters begins with the first.                       *)
LEMMA BetweenHand ==
    ASSUME NEW p \in Nat, NEW a \in Nat, p + 1 <= a
    PROVE  <<p + 1>> \o Between(p + 1, a) = Between(p, a)
<1> DEFINE b == Between(p + 1, a)
           c == Between(p, a)
           d == <<p + 1>> \o b
           n == (a - p) - 1
<1>1. /\ n \in Nat /\ a - p = n + 1 /\ a - (p + 1) = n
      /\ b \in Seq(Nat) /\ Len(b) = n /\ \A i \in 1 .. n : b[i] = p + 1 + i
      /\ c \in Seq(Nat) /\ Len(c) = n + 1 /\ \A i \in 1 .. n + 1 : c[i] = p + i
  BY DEF Between
<1>2. <<p + 1>> \in Seq(Nat) /\ Len(<<p + 1>>) = 1 /\ <<p + 1>>[1] = p + 1
  OBVIOUS
<1> HIDE DEF b, c, n
<1>3. /\ d \in Seq(Nat) /\ Len(d) = 1 + Len(b)
      /\ \A i \in 1 .. 1 + Len(b) : d[i] = IF i <= 1 THEN <<p + 1>>[i] ELSE b[i - 1]
  BY <1>1, <1>2, ConcatProperties
<1> HIDE DEF d
<1>4. ASSUME NEW i \in 1 .. n + 1 PROVE d[i] = c[i]
  <2>1. CASE i = 1
    BY <1>1, <1>2, <1>3, <2>1
  <2>2. CASE i # 1
    <3>1. i - 1 \in 1 .. n /\ ~(i <= 1) /\ i \in 1 .. 1 + Len(b)
      BY <1>1, <2>2
    <3>2. d[i] = b[i - 1]
      BY <1>3, <3>1
    <3> QED
      BY <1>1, <3>1, <3>2
  <2> QED
    BY <2>1, <2>2
<1>5. d \in Seq(Nat) /\ c \in Seq(Nat) /\ Len(d) = n + 1 /\ Len(c) = n + 1
  BY <1>1, <1>3
<1>6. d = c
  BY <1>4, <1>5, SeqEqual
<1> QED
  BY <1>6 DEF b, c, d

(* What is yet to be handled.                                                *)
LEMMA UnhandledBetween ==
    ASSUME AsyncInv
    PROVE  /\ Unhandled = Between(Passed, accepted)
           /\ Passed \in Nat /\ accepted \in Nat /\ Passed <= popped /\ popped <= accepted
<1>1. /\ InFlight = Between(popped, accepted)
      /\ popped \in Nat /\ accepted \in Nat /\ popped <= accepted
  BY InFlightBetween DEF AsyncInv
<1>2. CASE InHand
  <2>1. data = popped /\ popped # 0 /\ Passed = popped - 1
    BY <1>2 DEF AsyncInv, Handed, Passed
  <2>2. Passed \in Nat /\ Passed + 1 = popped
    BY <1>1, <2>1
  <2>3. <<Passed + 1>> \o Between(Passed + 1, accepted) = Between(Passed, accepted)
    BY <1>1, <2>2, BetweenHand
  <2> QED
    BY <1>1, <1>2, <2>1, <2>2, <2>3 DEF Unhandled
<1>3. CASE ~InHand
  <2>1. Between(popped, accepted) \in Seq(Nat)
    BY <1>1 DEF Between
  <2>2. Unhandled = Between(popped, accepted)
    BY <1>1, <1>3, <2>1, ConcatEmptySeq DEF Unhandled
  <2> QED
    BY <1>1, <1>3, <2>2 DEF Passed
<1> QED
  BY <1>2, <1>3

(* The same after a step.                                                    *)
LEMMA UnhandledBetweenPrime ==
    AsyncInv' => /\ Unhandled' = Between(Passed', accepted')
                 /\ Passed' \in Nat /\ accepted' \in Nat /\ Passed' <= popped'
                 /\ popped' <= accepted'
<1>1. AsyncInv => /\ Unhandled = Between(Passed, accepted)
                  /\ Passed \in Nat /\ accepted \in Nat /\ Passed <= popped
                  /\ popped <= accepted
  BY UnhandledBetween
<1>2. (AsyncInv => /\ Unhandled = Between(Passed, accepted)
                   /\ Passed \in Nat /\ accepted \in Nat /\ Passed <= popped
                   /\ popped <= accepted)'
  BY <1>1, PTL
<1> QED
  BY <1>2

(* The producer puts frames in, and releases the thread.                     *)
LEMMA ProducerFollowsLoop ==
    ASSUME AsyncInv, AsyncInv', Push \/ ReleaseConsumer, UNCHANGED loopVars
    PROVE  [Frames!QueueNext(1 .. MaxPushes)]_(Frames!queueVars)
<1>1. /\ Unhandled = Between(Passed, accepted)
      /\ Passed \in Nat /\ accepted \in Nat /\ Passed <= accepted
      /\ Unhandled' = Between(Passed', accepted')
  <2>1. /\ Unhandled = Between(Passed, accepted)
        /\ Passed \in Nat /\ accepted \in Nat /\ Passed <= popped /\ popped <= accepted
    BY UnhandledBetween
  <2>2. popped \in Nat
    BY Counters DEF AsyncInv
  <2> QED
    BY <2>1, <2>2, UnhandledBetweenPrime
<1>2. UNCHANGED <<Passed, Stage>>
  <2>1. UNCHANGED <<cpc, popped, loop, remaining>>
    BY ProducerCounts DEF AsyncInv, loopVars
  <2> QED
    BY <2>1 DEF Passed, InHand, Stage
<1>3. CASE PushEnqueue
  <2>1. accepted' = accepted + 1 /\ UNCHANGED released /\ ~released /\ accepted < MaxPushes
    BY <1>3 DEF PushEnqueue, AsyncInv, IInv, ConsumerSteps, ProducerSteps
  <2>2. Unhandled' = Append(Unhandled, accepted + 1)
    BY <1>1, <1>2, <2>1, BetweenPut
  <2>3. Len(Unhandled) = accepted - Passed
    BY <1>1 DEF Between
  <2>4. Len(Unhandled) < MaxPushes /\ accepted + 1 \in 1 .. MaxPushes
    BY <1>1, <2>1, <2>3, SizeAssumption
  <2> QED
    BY <1>2, <2>1, <2>2, <2>4 DEF Frames!QueueNext, Frames!Put
<1>4. CASE ReleaseConsumer
  BY <1>1, <1>2, <1>4 DEF ReleaseConsumer, producer, Frames!QueueNext, Frames!Release
<1>5. CASE PushLoad \/ PushSignal \/ PushFull \/ PushFail
  <2>1. UNCHANGED <<accepted, released>>
    BY <1>5 DEF PushLoad, PushSignal, PushFull, PushFail, shared
  <2> QED
    BY <1>1, <1>2, <2>1 DEF Frames!queueVars
<1> QED
  BY <1>3, <1>4, <1>5 DEF Push

(* The thread takes them out.                                                *)
LEMMA ThreadFollowsLoop ==
    ASSUME AsyncInv, AsyncInv', Thread
    PROVE  [Frames!QueueNext(1 .. MaxPushes)]_(Frames!queueVars)
<1>1. /\ Unhandled = Between(Passed, accepted)
      /\ Passed \in Nat /\ accepted \in Nat /\ popped \in Nat
      /\ Passed <= popped /\ popped <= accepted
      /\ Unhandled' = Between(Passed', accepted')
  BY UnhandledBetween, UnhandledBetweenPrime, Counters DEF AsyncInv
<1>2. IInv /\ LoopTypeOK /\ InQueueCode /\ Expected /\ Handed /\ Expected' /\ remaining \in Nat
  BY DEF AsyncInv, LoopTypeOK
<1>3. UNCHANGED <<accepted, released>>
  BY DEF Thread, OuterPop, ConsiderGrow, GrowQueue, GrowRefused, Submit, CountExtra, InnerPop,
         EndBatch, FinalBatch, PopThen, Pop, PopWait, PopOld, PopOldEmpty, PopNew, PopDelete,
         PopFalse, Dequeue, Grow, GrowDecide, GrowExchange, GrowReset, vars, shared, producer
<1>4. ASSUME UNCHANGED <<Passed, Stage>> PROVE UNCHANGED Frames!queueVars
  BY <1>1, <1>3, <1>4 DEF Frames!queueVars
<1>5. CASE OuterPop
  <2>1. /\ loop = "outer" /\ Pop
        /\ loop' = CASE cpc' = "idle" -> "opened" [] cpc' = "quit" -> "final" [] OTHER -> "outer"
    BY <1>5 DEF OuterPop, PopThen
  <2>2. \/ cpc = "idle" /\ cpc' \in {"tryOld", "tryNew"} /\ UNCHANGED popped
        \/ cpc = "tryOld" /\ cpc' = "tryNew" /\ UNCHANGED popped
        \/ cpc = "delete" /\ cpc' = "idle" /\ UNCHANGED popped
        \/ cpc = "tryNew" /\ cpc' = "quit" /\ UNCHANGED popped /\ accepted = popped
        \/ cpc \in {"tryOld", "tryNew"} /\ cpc' \in {"idle", "delete"} /\ popped' = popped + 1
    BY <1>2, <2>1, PopCounts
  <2>3. Stage = "waiting" /\ (InHand <=> cpc = "delete")
    BY <2>1 DEF Stage, InHand
  <2>4. CASE cpc' \in {"tryOld", "tryNew", "delete"}
    <3>1. loop' = "outer"
      BY <2>1, <2>4
    <3>2. Stage' = "waiting" /\ (InHand' <=> cpc' = "delete")
      BY <3>1 DEF Stage, InHand
    <3>3. Passed' = Passed
      BY <1>1, <2>2, <2>3, <2>4, <3>2 DEF Passed
    <3> QED
      BY <1>4, <2>3, <3>2, <3>3
  <2>5. CASE cpc' = "idle"
    <3>1. loop' = "opened"
      BY <2>1, <2>5
    <3>2. Stage' = "opened" /\ InHand'
      BY <3>1 DEF Stage, InHand
    <3>3. Passed' = Passed
      BY <1>1, <2>2, <2>3, <2>5, <3>2 DEF Passed
    <3>4. Unhandled' = Unhandled
      BY <1>1, <1>3, <3>3
    <3>5. Unhandled # <<>>
      <4>1. AsyncInv' => data' = popped' /\ popped' # 0 /\ popped' \in Nat
        BY <3>2, <2>2, <1>1 DEF AsyncInv, Handed
      <4>2. Passed' + 1 <= accepted'
        BY <1>1, <3>2, <4>1, UnhandledBetweenPrime DEF Passed
      <4> QED
        BY <1>1, <1>3, <3>3, <4>2, BetweenGet
    <3> QED
      BY <1>3, <2>3, <3>2, <3>4, <3>5 DEF Frames!QueueNext, Frames!OpenBatch
  <2>6. CASE cpc' = "quit"
    <3>1. loop' = "final" /\ ~InHand /\ popped' = popped /\ accepted = popped
      BY <2>1, <2>2, <2>3, <2>6
    <3>2. Stage' = "final" /\ ~InHand'
      BY <2>6, <3>1 DEF Stage, InHand
    <3>3. Passed' = Passed /\ Passed = accepted
      BY <3>1, <3>2 DEF Passed
    <3>4. Unhandled' = Unhandled /\ Unhandled = <<>>
      <4>1. accepted - accepted = 0
        BY <1>1
      <4> QED
        BY <1>1, <1>3, <3>3, <4>1 DEF Between
    <3>5. released
      BY <1>3, <2>6 DEF AsyncInv, IInv, ConsumerSteps
    <3> QED
      BY <1>3, <2>3, <3>2, <3>4, <3>5 DEF Frames!QueueNext, Frames!LeaveLoop
  <2> QED
    BY <2>2, <2>4, <2>5, <2>6
<1>6. CASE InnerPop
  <2>1. /\ loop = "inner" /\ Pop /\ UNCHANGED remaining /\ remaining >= 1
        /\ loop' = CASE cpc' = "idle" -> "submit" [] cpc' = "quit" -> "done" [] OTHER -> "inner"
    BY <1>2, <1>6 DEF InnerPop, PopThen, Expected
  <2>2. \/ cpc = "idle" /\ cpc' \in {"tryOld", "tryNew"} /\ UNCHANGED popped
        \/ cpc = "tryOld" /\ cpc' = "tryNew" /\ UNCHANGED popped
        \/ cpc = "delete" /\ cpc' = "idle" /\ UNCHANGED popped
        \/ cpc = "tryNew" /\ cpc' = "quit" /\ UNCHANGED popped /\ accepted = popped
        \/ cpc \in {"tryOld", "tryNew"} /\ cpc' \in {"idle", "delete"} /\ popped' = popped + 1
    BY <1>2, <2>1, PopCounts
  <2>3. cpc # "delete" => popped + remaining <= accepted
    BY <1>2, <2>1 DEF Expected
  <2>4. cpc' # "quit"
    BY <1>1, <1>2, <2>1, <2>2, <2>3
  <2>5. Stage = "open" /\ (InHand <=> cpc = "delete")
    BY <2>1 DEF Stage, InHand
  <2>6. Stage' = "open" /\ (InHand' <=> cpc' \in {"idle", "delete"})
    BY <1>2, <2>1, <2>2, <2>4 DEF Stage, InHand
  <2>7. Passed' = Passed
    BY <1>1, <2>2, <2>4, <2>5, <2>6 DEF Passed
  <2> QED
    BY <1>4, <2>5, <2>6, <2>7
<1>7. CASE Submit
  <2>1. /\ loop = "submit" /\ cpc = "idle"
        /\ loop' \in {"inner", "count"}
        /\ UNCHANGED <<popped, cpc>>
    BY <1>2, <1>7 DEF Submit, InQueueCode, vars, consumer
  <2>2. InHand /\ ~InHand' /\ popped # 0
    BY <1>2, <2>1 DEF InHand, Handed
  <2>3. Stage \in {"opened", "open"} /\ Stage' = "open"
    BY <2>1 DEF Stage
  <2>4. Passed + 1 <= accepted /\ Passed' = Passed + 1
    BY <1>1, <2>1, <2>2 DEF Passed
  <2>5. Unhandled # <<>> /\ Unhandled' = Tail(Unhandled)
    BY <1>1, <1>3, <2>4, BetweenGet
  <2> QED
    BY <1>3, <2>3, <2>5 DEF Frames!QueueNext, Frames!Take
<1>8. CASE EndBatch
  <2>1. loop = "end" /\ loop' = "outer" /\ UNCHANGED <<popped, cpc>>
    BY <1>8 DEF EndBatch, vars, consumer
  <2>2. Stage = "open" /\ Stage' = "waiting" /\ Passed' = Passed
    BY <2>1 DEF Stage, Passed, InHand
  <2> QED
    BY <1>1, <1>3, <2>2 DEF Frames!QueueNext, Frames!CloseBatch
<1>9. CASE FinalBatch
  <2>1. loop = "final" /\ loop' = "done" /\ UNCHANGED <<popped, cpc>>
    BY <1>9 DEF FinalBatch, vars, consumer
  <2>2. Stage = "final" /\ Stage' = "done" /\ Passed' = Passed
    BY <2>1 DEF Stage, Passed, InHand
  <2> QED
    BY <1>1, <1>3, <2>2 DEF Frames!QueueNext, Frames!Return
<1>10. CASE ConsiderGrow \/ GrowQueue \/ GrowRefused
  <2>1. /\ loop \in {"opened", "grow"} /\ loop' \in {"grow", "submit"}
        /\ remaining = 0 /\ UNCHANGED <<popped, remaining>>
    BY <1>2, <1>10 DEF ConsiderGrow, GrowQueue, GrowRefused, Grow, GrowDecide, GrowExchange,
                       GrowReset, vars, consumer, Expected
  <2>2. Stage = "opened" /\ Stage' = "opened" /\ Passed' = Passed
    BY <2>1 DEF Stage, Passed, InHand
  <2> QED
    BY <1>4, <2>2
<1>11. CASE CountExtra
  <2>1. loop = "count" /\ loop' \in {"inner", "end"} /\ UNCHANGED <<popped, cpc>>
    BY <1>11 DEF CountExtra, vars, consumer
  <2>2. Stage = "open" /\ Stage' = "open" /\ Passed' = Passed
    BY <2>1 DEF Stage, Passed, InHand
  <2> QED
    BY <1>4, <2>2
<1> QED
  BY <1>5, <1>6, <1>7, <1>8, <1>9, <1>10, <1>11 DEF Thread

(* The thread with its queue implements the loop that AudioStream is built   *)
(* on, for all sizes, growth policies and numbers of frames: the frames come *)
(* in order, in batches of at least one, and when the thread leaves the      *)
(* Input is gone and none is left.                                           *)
THEOREM AsyncRefinesLoop == AsyncSpec => ImplementsLoop
<1>1. ASSUME AsyncInit PROVE Frames!QueueInit
  <2>1. AsyncInv
    BY <1>1, AsyncInvInit
  <2>2. loop = "outer" /\ cpc = "idle" /\ popped = 0 /\ accepted = 0 /\ released = FALSE
    BY <1>1 DEF AsyncInit, Init
  <2>3. Passed = 0 /\ Stage = "waiting"
    BY <2>2 DEF Passed, InHand, Stage
  <2>4. Unhandled = <<>>
    BY <2>1, <2>2, <2>3, UnhandledBetween DEF Between
  <2> QED
    BY <2>2, <2>3, <2>4 DEF Frames!QueueInit
<1>2. ASSUME AsyncInv, AsyncInv', [AsyncNext]_asyncVars
      PROVE  [Frames!QueueNext(1 .. MaxPushes)]_(Frames!queueVars)
  <2>1. CASE (Push \/ ReleaseConsumer) /\ UNCHANGED loopVars
    BY <1>2, <2>1, ProducerFollowsLoop
  <2>2. CASE Thread
    BY <1>2, <2>2, ThreadFollowsLoop
  <2>3. CASE DropOutput \/ UNCHANGED asyncVars
    <3>1. UNCHANGED <<cpc, popped, accepted, released, loop, remaining>>
      BY <2>3 DEF DropOutput, asyncVars, loopVars, vars, shared, producer, consumer
    <3>2. UNCHANGED <<Passed, Stage>>
      BY <3>1 DEF Passed, InHand, Stage
    <3>3. Unhandled' = Unhandled
      BY <1>2, <3>1, <3>2, UnhandledBetween, UnhandledBetweenPrime
    <3> QED
      BY <3>1, <3>2, <3>3 DEF Frames!queueVars
  <2> QED
    BY <1>2, <2>1, <2>2, <2>3 DEF AsyncNext, Done
<1>3. AsyncInv /\ AsyncInv' /\ [AsyncNext]_asyncVars
          => [Frames!QueueNext(1 .. MaxPushes)]_(Frames!queueVars)
  BY <1>2
<1>4. AsyncInit => Frames!QueueInit
  BY <1>1
<1> QED
  BY <1>3, <1>4, AsyncInvariance, PTL DEF AsyncSpec, ImplementsLoop

(* A push that fails finds a ring full, all of which is yet to be handled.   *)
THEOREM OnlyFullQueuesRefuse == AsyncSpec => RefusalsAreFull
<1>1. ASSUME AsyncInv, PushFull PROVE Len(Unhandled) >= Capacity(InitialSize)
  <2>1. /\ ppc = "loaded" /\ Len(buf[pqueue]) >= Capacity(pqueue)
        /\ pqueue \in Queues /\ buf \in [Queues -> Seq(1 .. MaxPushes)]
    BY <1>1 DEF PushFull, AsyncInv, IInv, TypeOK
  <2>2. Capacity(pqueue) \in Nat /\ Capacity(InitialSize) \in Nat
        /\ Capacity(InitialSize) <= Capacity(pqueue)
    BY <2>1, CapacityAssumption DEF Queues
  <2>3. /\ OldLen \in Nat /\ Len(buf[queue]) \in Nat /\ accepted = popped + OldLen + Len(buf[queue])
    BY <1>1, InFlightSplit DEF AsyncInv, IInv, Consecutive
  <2>4. Len(buf[pqueue]) \in {OldLen, Len(buf[queue])}
    <3>1. CASE pqueue = queue
      BY <3>1
    <3>2. CASE pqueue # queue
      <4>1. pqueue = oldQueue
        BY <1>1, <2>1, <3>2 DEF AsyncInv, IInv, StaleProducer
      <4>2. pqueue # null
        BY <2>1, SizeAssumption DEF Queues, null
      <4> QED
        BY <4>1, <4>2 DEF OldLen, Contents
    <3> QED
      BY <3>1, <3>2
  <2>5. Len(Unhandled) = accepted - Passed /\ Passed <= popped /\ Passed \in Nat /\ popped \in Nat
    BY <1>1, UnhandledBetween, Counters DEF Between, AsyncInv
  <2>6. Len(buf[pqueue]) \in Nat /\ accepted - Passed >= Len(buf[pqueue])
    <3>1. PICK old, new, n, p \in Nat : old = OldLen /\ new = Len(buf[queue])
                                      /\ n = Len(buf[pqueue]) /\ p = Passed
      BY <2>3, <2>4, <2>5
    <3>2. accepted = popped + old + new /\ p <= popped /\ n \in {old, new} /\ popped \in Nat
      BY <2>3, <2>4, <2>5, <3>1
    <3>3. accepted - p >= n
      BY <3>2
    <3> QED
      BY <3>1, <3>3
  <2>7. accepted - Passed >= Capacity(InitialSize)
    <3> DEFINE least == Capacity(InitialSize)
               room == Capacity(pqueue)
    <3>1. least \in Nat /\ room \in Nat /\ least <= room /\ Len(buf[pqueue]) >= room
      BY <2>1, <2>2
    <3>2. accepted - Passed \in Int
      BY <1>1, UnhandledBetween
    <3> HIDE DEF least, room
    <3>3. accepted - Passed >= least
      BY <2>6, <3>1, <3>2
    <3> QED
      BY <3>3 DEF least
  <2> QED
    BY <2>5, <2>7
<1>2. AsyncInv /\ [AsyncNext]_asyncVars
          => [PushFull => Len(Unhandled) >= Capacity(InitialSize)]_asyncVars
  BY <1>1
<1> QED
  BY <1>2, AsyncInvariance, PTL DEF AsyncSpec, RefusalsAreFull
=============================================================================
