---------------------------- MODULE RecorderProofs ----------------------------
(***************************************************************************)
(* Proofs about Pipeline: what Push and PopBatch do to the buffered events *)
(* for every capacity, the invariants of the runs, and that the ring       *)
(* implements DropOldestQueue.                                             *)
(*                                                                         *)
(* And about Daemon, for every set of collectors and every capacity: a     *)
(* step of the daemon is a step of the pipeline or leaves it alone, so     *)
(* that what is proved of Pipeline holds of the daemon's pipeline; no      *)
(* event is lost between the collectors and the ring; and the shutdown     *)
(* keeps the order that makes its final flush the last word.               *)
(*                                                                         *)
(* And about Store: the table is always an unbroken run of the newest rows *)
(* within the cap, and the store implements RowRing, for every set of caps, *)
(* every batch size and every placement of errors and crashes.             *)
(***************************************************************************)
EXTENDS Daemon, Store, FiniteSetTheorems, SequenceTheorems, TLAPS

(* Where the i-th oldest event lies when the oldest is in slot h.          *)
Pos(h, i) == IF h + i - 1 < cap THEN h + i - 1 ELSE h + i - 1 - cap

(* The s events that start in slot h of the slots b, oldest first.         *)
Ring(b, h, s) == [i \in 1..s |-> b[(h + (i - 1)) % cap]]

(* NewBuffer's clamp leaves a ring of at least one slot.                     *)
LEMMA CapPositive == cap \in Nat /\ cap >= 1
BY BufferAssumption DEF cap

(* A step of at most one turn lands in a slot, one turn back if it wraps.    *)
LEMMA Wrap ==
  ASSUME NEW h \in Slot, NEW k \in 0..cap
  PROVE  /\ (h + k) % cap \in Slot
         /\ (h + k) % cap = IF h + k < cap THEN h + k ELSE h + k - cap
<1>1. CASE h + k < cap
  BY <1>1, CapPositive DEF Slot
<1>2. CASE h + k >= cap
  BY <1>2, CapPositive DEF Slot
<1>q. QED BY <1>1, <1>2, CapPositive DEF Slot

(* The i-th event of a ring is in the slot Pos says, modulo the capacity.    *)
LEMMA PosInSlot ==
  ASSUME NEW h \in Slot, NEW i \in 1..cap
  PROVE  Pos(h, i) \in Slot /\ Pos(h, i) = (h + (i - 1)) % cap
<1>1. i - 1 \in 0..cap /\ h \in Int /\ i \in Int
  BY CapPositive DEF Slot
<1>2. /\ (h + (i - 1)) % cap \in Slot
      /\ (h + (i - 1)) % cap = IF h + (i - 1) < cap THEN h + (i - 1) ELSE h + (i - 1) - cap
  BY <1>1, Wrap
<1>3. Pos(h, i) = IF h + (i - 1) < cap THEN h + (i - 1) ELSE h + (i - 1) - cap
  BY <1>1, CapPositive DEF Pos
<1>q. QED BY <1>2, <1>3

(* The slots from the head on, read as a sequence of the buffered size.      *)
LEMMA RingIsSeq ==
  ASSUME NEW b \in [Slot -> Nat], NEW h \in Slot, NEW s \in 0..cap
  PROVE  /\ Ring(b, h, s) \in Seq(Nat)
         /\ Len(Ring(b, h, s)) = s
         /\ \A i \in 1..s : Ring(b, h, s)[i] = b[Pos(h, i)]
<1>1. \A i \in 1..s : i \in 1..cap
  BY CapPositive
<1>2. \A i \in 1..s : Pos(h, i) \in Slot /\ Pos(h, i) = (h + (i - 1)) % cap
  BY <1>1, PosInSlot
<1>3. Ring(b, h, s) = [i \in 1..s |-> b[Pos(h, i)]]
  BY <1>2 DEF Ring
<1>4. s \in Nat
  BY CapPositive
<1>5. [i \in 1..s |-> b[Pos(h, i)]] \in [1..s -> Nat]
  BY <1>2
<1> HIDE DEF Pos
<1>q. QED BY <1>3, <1>4, <1>5

(* PopBatch takes no more than is buffered.                                  *)
LEMMA PopCountBounds ==
  ASSUME TypeOK
  PROVE  PopCount \in 0..size /\ PopCount \in 0..cap
BY CapPositive, BufferAssumption DEF TypeOK, PopCount

(* The buffered events are a sequence as long as the size field says.        *)
LEMMA ContentsType ==
  ASSUME TypeOK
  PROVE  /\ Contents = Ring(buf, head, size)
         /\ Contents \in Seq(Nat)
         /\ Len(Contents) = size
         /\ \A i \in 1..size : Contents[i] = buf[Pos(head, i)]
<1>1. Contents = Ring(buf, head, size)
  BY DEF Contents, Ring
<1>q. QED BY <1>1, RingIsSeq DEF TypeOK

(* A Push, wrapping or not, leaves head, size and slots in range.            *)
LEMMA PushType ==
  ASSUME TypeOK, NEW w \in Ingester, NEW e \in Nat, Push(w, e)
  PROVE  /\ buf' \in [Slot -> Nat] /\ head' \in Slot /\ size' \in 0..cap
         /\ uncounted' \subseteq Ingester
<1>1. (head + 1) % cap \in Slot /\ (head + size) % cap \in Slot
  BY CapPositive, Wrap DEF TypeOK
<1>2. /\ buf \in [Slot -> Nat] /\ head \in Slot /\ size \in 0..cap /\ uncounted \subseteq Ingester
  BY DEF TypeOK
<1>3. CASE size = cap
  <2>1. /\ buf' = [buf EXCEPT ![head] = e] /\ head' = (head + 1) % cap
        /\ uncounted' = uncounted \cup {w} /\ size' = size
    BY <1>3 DEF Push
  <2>q. QED BY <1>1, <1>2, <2>1
<1>4. CASE size # cap
  <2>1. /\ buf' = [buf EXCEPT ![(head + size) % cap] = e] /\ size' = size + 1
        /\ head' = head /\ uncounted' = uncounted
    BY <1>4 DEF Push
  <2>2. size' \in 0..cap
    BY <1>2, <1>4, <2>1, CapPositive
  <2>q. QED BY <1>1, <1>2, <2>1, <2>2
<1>q. QED BY <1>3, <1>4

(* PopBatch leaves head and size in range and returns what it says.          *)
LEMMA PopType ==
  ASSUME TypeOK, PopBatch
  PROVE  /\ head' \in Slot /\ size' \in 0..cap /\ batch' \in Seq(Nat)
         /\ Len(batch') = PopCount
<1>1. (head + PopCount) % cap \in Slot
  BY PopCountBounds, Wrap DEF TypeOK
<1>2. ASSUME NEW i \in 1..PopCount PROVE (head + (i - 1)) % cap \in Slot
  <2>1. i - 1 \in 0..cap /\ head \in Slot
    BY PopCountBounds, CapPositive DEF TypeOK
  <2>q. QED BY <2>1, Wrap
<1>3. batch' \in [1..PopCount -> Nat]
  BY <1>2 DEF PopBatch, TypeOK
<1>4. size' \in 0..cap
  BY PopCountBounds, CapPositive DEF PopBatch, TypeOK
<1>5. PopCount \in Nat
  BY PopCountBounds, CapPositive
<1>6. batch' \in Seq(Nat) /\ Len(batch') = PopCount
  BY <1>3, <1>5 DEF PopBatch
<1>q. QED BY <1>1, <1>4, <1>6 DEF PopBatch

(* The ring's fields stay in range: Push and PopBatch never index outside it. *)
THEOREM TypeCorrect == Spec => []TypeOK
<1>1. Init => TypeOK
  <2>1. 0 \in Slot /\ 0 \in 0..cap
    BY CapPositive DEF Slot
  <2>2. <<>> \in Seq(Nat)
    OBVIOUS
  <2>q. QED BY <2>1, <2>2 DEF Init, NewBuffer, TypeOK
<1>2. TypeOK /\ [Next]_pipelineVars => TypeOK'
  <2> SUFFICES ASSUME TypeOK, [Next]_pipelineVars PROVE TypeOK'
    OBVIOUS
  <2> USE DEF TypeOK
  <2>1. ASSUME NEW w \in Ingester, Ingest(w) PROVE TypeOK'
    <3>1. Push(w, ingested + 1) /\ ingested + 1 \in Nat
      BY <2>1 DEF Ingest
    <3>2. /\ buf' \in [Slot -> Nat] /\ head' \in Slot /\ size' \in 0..cap
          /\ uncounted' \subseteq Ingester
      BY <3>1, PushType
    <3>q. QED BY <2>1, <3>1, <3>2 DEF Ingest, Push, drainVars
  <2>2. ASSUME NEW w \in Ingester, FinishIngest(w) PROVE TypeOK'
    BY <2>2 DEF FinishIngest, CountEviction, drainVars, historyVars
  <2>3. CASE Cancel
    BY <2>3 DEF Cancel, bufferVars
  <2>4. CASE Tick
    BY <2>4 DEF Tick, bufferVars, historyVars
  <2>5. CASE Stop
    BY <2>5 DEF Stop, bufferVars, historyVars
  <2>6. CASE Pop
    <3>1. head' \in Slot /\ size' \in 0..cap /\ batch' \in Seq(Nat)
      BY <2>6, PopType DEF Pop
    <3>q. QED BY <2>6, <3>1 DEF Pop, PopBatch, historyVars
  <2>7. CASE WriteOk
    BY <2>7 DEF WriteOk
  <2>8. CASE WriteError
    BY <2>8 DEF WriteError, historyVars
  <2>9. CASE UNCHANGED pipelineVars
    BY <2>9 DEF pipelineVars, bufferVars, drainVars, historyVars
  <2>q. QED BY <2>1, <2>2, <2>3, <2>4, <2>5, <2>6, <2>7, <2>8, <2>9 DEF Next, Run
<1>q. QED BY <1>1, <1>2, PTL DEF Spec

(* What a Push does to the buffered events, wherever the ring wraps: a full  *)
(* buffer loses its oldest event, and the new one goes last.                 *)
LEMMA PushContents ==
  ASSUME TypeOK, NEW w \in Ingester, NEW e \in Nat, Push(w, e)
  PROVE  Contents' = IF size = cap THEN Append(Tail(Contents), e) ELSE Append(Contents, e)
<1> USE CapPositive
<1>1. /\ head \in Slot /\ size \in 0..cap /\ buf \in [Slot -> Nat]
      /\ head' \in Slot /\ size' \in 0..cap /\ buf' \in [Slot -> Nat]
  BY PushType DEF TypeOK
<1>2. /\ Contents \in Seq(Nat) /\ Len(Contents) = size
      /\ \A i \in 1..size : Contents[i] = buf[Pos(head, i)]
  BY ContentsType
<1>3. /\ Contents' = Ring(buf', head', size')
      /\ Contents' \in Seq(Nat) /\ Len(Contents') = size'
      /\ \A i \in 1..size' : Contents'[i] = buf'[Pos(head', i)]
  <2>1. Contents' = Ring(buf', head', size')
    BY DEF Contents, Ring
  <2>q. QED BY <2>1, <1>1, RingIsSeq
<1>4. CASE size = cap
  <2>1. buf' = [buf EXCEPT ![head] = e] /\ head' = (head + 1) % cap /\ size' = size
    BY <1>4 DEF Push
  <2>2. head' = IF head + 1 < cap THEN head + 1 ELSE head + 1 - cap
    BY <1>1, <2>1, Wrap
  <2>3. \A i \in 1..(cap - 1) : Pos(head', i) = Pos(head, i + 1) /\ Pos(head', i) # head
    BY <1>1, <2>2 DEF Pos, Slot
  <2>4. Pos(head', cap) = head
    BY <1>1, <2>2 DEF Pos, Slot
  <2>5. /\ Tail(Contents) \in Seq(Nat) /\ Len(Tail(Contents)) = cap - 1
        /\ \A i \in 1..(cap - 1) : Tail(Contents)[i] = Contents[i + 1]
    BY <1>2, <1>4, HeadTailProperties, EmptySeq
  <2>6. /\ Append(Tail(Contents), e) \in Seq(Nat) /\ Len(Append(Tail(Contents), e)) = cap
        /\ \A i \in 1..(cap - 1) : Append(Tail(Contents), e)[i] = Contents[i + 1]
        /\ Append(Tail(Contents), e)[cap] = e
    BY <2>5, AppendProperties
  <2>7. ASSUME NEW i \in 1..cap PROVE Contents'[i] = Append(Tail(Contents), e)[i]
    <3>1. CASE i = cap
      BY <3>1, <1>1, <1>3, <1>4, <2>1, <2>4, <2>6
    <3>2. CASE i # cap
      <4>1. i \in 1..(cap - 1) /\ i + 1 \in 1..cap
        BY <3>2
      <4>2. Pos(head', i) \in Slot
        BY <1>1, PosInSlot
      <4>3. buf'[Pos(head', i)] = buf[Pos(head, i + 1)]
        BY <4>1, <4>2, <1>1, <2>1, <2>3
      <4>q. QED BY <4>1, <4>3, <1>2, <1>3, <1>4, <2>1, <2>6
    <3>q. QED BY <3>1, <3>2
  <2>8. Contents' = Append(Tail(Contents), e)
    BY <2>6, <2>7, <1>3, <1>4, <2>1, SeqEqual
  <2>q. QED BY <2>8, <1>4
<1>5. CASE size # cap
  <2>1. buf' = [buf EXCEPT ![(head + size) % cap] = e] /\ head' = head /\ size' = size + 1
    BY <1>5 DEF Push
  <2>2. size + 1 \in 1..cap
    BY <1>1, <1>5
  <2>3. Pos(head, size + 1) = (head + size) % cap
    <3>1. (head + ((size + 1) - 1)) % cap = (head + size) % cap
      BY <1>1
    <3>q. QED BY <2>2, <1>1, <3>1, PosInSlot
  <2>4. \A i \in 1..size : Pos(head, i) # Pos(head, size + 1)
    BY <1>1, <2>2 DEF Pos, Slot
  <2>5. /\ Append(Contents, e) \in Seq(Nat) /\ Len(Append(Contents, e)) = size + 1
        /\ \A i \in 1..size : Append(Contents, e)[i] = Contents[i]
        /\ Append(Contents, e)[size + 1] = e
    BY <1>2, AppendProperties
  <2>6. ASSUME NEW i \in 1..(size + 1) PROVE Contents'[i] = Append(Contents, e)[i]
    <3>1. i \in 1..cap /\ Pos(head, i) \in Slot
      BY <1>1, <2>2, PosInSlot
    <3>2. CASE i = size + 1
      BY <3>1, <3>2, <1>1, <1>3, <2>1, <2>3, <2>5
    <3>3. CASE i # size + 1
      <4>1. i \in 1..size
        BY <3>3, <1>1
      <4>2. buf'[Pos(head, i)] = buf[Pos(head, i)]
        BY <4>1, <3>1, <1>1, <2>1, <2>3, <2>4
      <4>q. QED BY <4>1, <4>2, <1>2, <1>3, <2>1, <2>5
    <3>q. QED BY <3>2, <3>3
  <2>7. Contents' = Append(Contents, e)
    BY <2>5, <2>6, <1>3, <2>1, SeqEqual
  <2>q. QED BY <2>7, <1>5
<1>q. QED BY <1>4, <1>5

(* PopBatch hands over the oldest events in order and keeps the others.      *)
LEMMA PopContents ==
  ASSUME TypeOK, PopBatch
  PROVE  /\ batch' = SubSeq(Contents, 1, PopCount)
         /\ Contents' = SubSeq(Contents, PopCount + 1, size)
<1> USE CapPositive, PopCountBounds
<1>1. /\ head \in Slot /\ size \in 0..cap /\ buf \in [Slot -> Nat] /\ PopCount \in 0..size
      /\ head' \in Slot /\ size' \in 0..cap
      /\ batch' \in Seq(Nat) /\ Len(batch') = PopCount
      /\ size' = size - PopCount /\ buf' = buf /\ head' = (head + PopCount) % cap
  BY PopType DEF TypeOK, PopBatch
<1>2. /\ Contents \in Seq(Nat) /\ Len(Contents) = size
      /\ \A i \in 1..size : Contents[i] = buf[Pos(head, i)]
  BY ContentsType
<1>3. /\ Contents' \in Seq(Nat) /\ Len(Contents') = size'
      /\ \A i \in 1..size' : Contents'[i] = buf[Pos(head', i)]
  <2>1. Contents' = Ring(buf', head', size')
    BY DEF Contents, Ring
  <2>2. buf' = buf /\ buf' \in [Slot -> Nat] /\ head' \in Slot /\ size' \in 0..cap
    BY <1>1
  <2>q. QED BY ONLY <2>1, <2>2, RingIsSeq
<1>4. head' = IF head + PopCount < cap THEN head + PopCount ELSE head + PopCount - cap
  BY <1>1, Wrap
<1>5. ASSUME NEW i \in 1..(size - PopCount)
      PROVE  Pos(head', i) = Pos(head, i + PopCount) /\ i + PopCount \in 1..size
  <2>1. /\ i \in Nat /\ i >= 1 /\ i + PopCount \in 1..size
        /\ head \in 0..(cap - 1) /\ size \in Nat /\ size <= cap /\ PopCount \in Nat
    BY <1>1 DEF Slot
  <2>2. CASE head + PopCount < cap
    BY <2>1, <2>2, <1>4 DEF Pos
  <2>3. CASE ~(head + PopCount < cap)
    BY <2>1, <2>3, <1>4 DEF Pos
  <2>q. QED BY <2>1, <2>2, <2>3
<1>6. \A i \in 1..size : Contents[i] \in Nat
  BY <1>2, ElementOfSeq
<1>7. batch' = SubSeq(Contents, 1, PopCount)
  <2>1. /\ SubSeq(Contents, 1, PopCount) \in Seq(Nat) /\ Len(SubSeq(Contents, 1, PopCount)) = PopCount
        /\ \A i \in 1..PopCount : SubSeq(Contents, 1, PopCount)[i] = Contents[i]
    BY <1>1, <1>2, <1>6, SubSeqProperties
  <2>2. batch' = Ring(buf, head, PopCount)
    BY DEF PopBatch, Ring
  <2>3. \A i \in 1..PopCount : batch'[i] = buf[Pos(head, i)]
    BY <2>2, <1>1, RingIsSeq
  <2>4. ASSUME NEW i \in 1..PopCount PROVE batch'[i] = SubSeq(Contents, 1, PopCount)[i]
    <3>1. i \in 1..size
      BY <1>1
    <3>q. QED BY <3>1, <2>1, <2>3, <1>2
  <2>q. QED BY <2>1, <2>4, <1>1, SeqEqual
<1>8. Contents' = SubSeq(Contents, PopCount + 1, size)
  <2>1. /\ SubSeq(Contents, PopCount + 1, size) \in Seq(Nat)
        /\ Len(SubSeq(Contents, PopCount + 1, size)) = size - PopCount
        /\ \A i \in 1..(size - PopCount) : SubSeq(Contents, PopCount + 1, size)[i] = Contents[i + PopCount]
    BY <1>1, <1>2, <1>6, SubSeqProperties
  <2>2. ASSUME NEW i \in 1..(size - PopCount) PROVE Contents'[i] = Contents[i + PopCount]
    <3>1. Contents'[i] = buf[Pos(head', i)]
      BY <1>1, <1>3
    <3>2. Contents[i + PopCount] = buf[Pos(head, i + PopCount)]
      BY <1>5, <1>2
    <3>q. QED BY <3>1, <3>2, <1>5
  <2>3. \A i \in 1..(size - PopCount) : Contents'[i] = SubSeq(Contents, PopCount + 1, size)[i]
    BY <2>1, <2>2
  <2>q. QED BY <2>1, <2>3, <1>1, <1>3, SeqEqual
<1>q. QED BY <1>7, <1>8

-----------------------------------------------------------------------------

(* Run holds a batch only while it is writing it.                           *)
BatchFree == drain # "write" => batch = <<>>

(* Only the ingesters can be between a Push and its count.                   *)
LEMMA UncountedFinite == ASSUME TypeOK PROVE IsFiniteSet(uncounted)
BY BufferAssumption, FS_Subset DEF TypeOK

(* A Push on a full ring evicts one event, any other Push none.              *)
LEMMA PushEvictions ==
  ASSUME TypeOK, NEW w \in Ingester, NEW e \in Nat, Push(w, e)
  PROVE  /\ Evictions \in Nat
         /\ Evictions' = IF size = cap THEN Evictions + 1 ELSE Evictions
         /\ size' = IF size = cap THEN size ELSE size + 1
<1>1. /\ IsFiniteSet(uncounted) /\ w \notin uncounted
      /\ droppedOverflow' = droppedOverflow /\ droppedOverflow \in Nat
  BY UncountedFinite DEF Push, TypeOK
<1>2. Cardinality(uncounted) \in Nat
  BY <1>1, FS_CardinalityType
<1>3. Cardinality(uncounted \cup {w}) = Cardinality(uncounted) + 1
  BY <1>1, FS_AddElement
<1>4. uncounted' = IF size = cap THEN uncounted \cup {w} ELSE uncounted
  BY DEF Push
<1>5. size' = IF size = cap THEN size ELSE size + 1
  BY DEF Push
<1>q. QED BY <1>1, <1>2, <1>3, <1>4, <1>5 DEF Evictions

(* Counting an eviction after the unlock does not change how many there were. *)
LEMMA CountEvictions ==
  ASSUME TypeOK, NEW w \in Ingester, CountEviction(w)
  PROVE  Evictions' = Evictions
<1>1. /\ IsFiniteSet(uncounted) /\ w \in uncounted /\ uncounted' = uncounted \ {w}
      /\ droppedOverflow' = droppedOverflow + 1 /\ droppedOverflow \in Nat
  BY UncountedFinite DEF CountEviction, TypeOK
<1>2. Cardinality(uncounted) \in Nat /\ Cardinality(uncounted \ {w}) = Cardinality(uncounted) - 1
  BY <1>1, FS_CardinalityType, FS_RemoveElement
<1>q. QED BY <1>1, <1>2 DEF Evictions

(* No event is lost without being counted: at every step the events ingested *)
(* equal those buffered, held, committed, evicted and refused.  BatchFree is *)
(* what keeps Pop from overwriting a batch that was never disposed of.       *)
THEOREM ConservationHolds == Spec => []Conservation
<1> DEFINE I == TypeOK /\ BatchFree /\ Conservation
<1>1. Init => BatchFree /\ Conservation
  BY FS_EmptySet DEF Init, NewBuffer, BatchFree, Conservation, Evictions
<1>2. TypeOK /\ TypeOK' /\ BatchFree /\ Conservation /\ [Next]_pipelineVars
        => BatchFree' /\ Conservation'
  <2> SUFFICES ASSUME TypeOK, TypeOK', BatchFree, Conservation, [Next]_pipelineVars
               PROVE  BatchFree' /\ Conservation'
    OBVIOUS
  <2>0. /\ Len(batch) \in Nat /\ Len(stored) \in Nat /\ size \in Nat /\ ingested \in Nat
        /\ droppedWriteError \in Nat /\ Evictions \in Nat
    <3>1. Len(batch) \in Nat /\ Len(stored) \in Nat /\ ingested \in Nat /\ droppedWriteError \in Nat
      BY DEF TypeOK
    <3>2. size \in Nat
      <4>1. size \in 0..cap
        BY DEF TypeOK
      <4>q. QED BY <4>1, CapPositive
    <3>3. Cardinality(uncounted) \in Nat
      BY UncountedFinite, FS_CardinalityType
    <3>4. Evictions \in Nat
      <4>1. droppedOverflow \in Nat
        BY DEF TypeOK
      <4>q. QED BY <4>1, <3>3 DEF Evictions
    <3>q. QED BY <3>1, <3>2, <3>4
  <2>1. ASSUME NEW w \in Ingester, Ingest(w) PROVE BatchFree' /\ Conservation'
    <3>1. Push(w, ingested + 1) /\ ingested + 1 \in Nat /\ batch' = batch
      BY <2>1 DEF Ingest, TypeOK, Push
    <3>2. /\ Evictions' = IF size = cap THEN Evictions + 1 ELSE Evictions
          /\ size' = IF size = cap THEN size ELSE size + 1
      BY <3>1, PushEvictions
    <3>q. QED BY <2>0, <2>1, <3>1, <3>2 DEF Ingest, drainVars, BatchFree, Conservation
  <2>2. ASSUME NEW w \in Ingester, FinishIngest(w) PROVE BatchFree' /\ Conservation'
    <3>1. Evictions' = Evictions
      BY <2>2, CountEvictions DEF FinishIngest
    <3>q. QED BY <2>2, <3>1 DEF FinishIngest, CountEviction, drainVars, historyVars, BatchFree, Conservation
  <2>3. CASE Cancel \/ Tick \/ Stop \/ UNCHANGED pipelineVars
    BY <2>3 DEF Cancel, Tick, Stop, pipelineVars, bufferVars, drainVars, historyVars,
                BatchFree, Conservation, Evictions
  <2>4. CASE Pop
    <3>1. /\ PopBatch /\ batch = <<>> /\ Len(batch) = 0
      BY <2>4 DEF Pop, BatchFree
    <3>2. Len(batch') = PopCount /\ size' = size - PopCount /\ Evictions' = Evictions
      BY <3>1, PopType DEF PopBatch, Evictions
    <3>3. PopCount \in Nat /\ PopCount <= size
      BY PopCountBounds, <2>0
    <3>4. ingested' = ingested /\ stored' = stored /\ droppedWriteError' = droppedWriteError
      BY <2>4 DEF Pop, historyVars
    <3>5. Conservation'
      BY <2>0, <3>1, <3>2, <3>3, <3>4 DEF Conservation
    <3>6. batch' \in Seq(Nat) /\ (PopCount = 0 => batch' = <<>>)
      BY <3>1, <3>2, PopType, EmptySeq
    <3>q. QED BY <2>4, <3>5, <3>6 DEF Pop, BatchFree
  <2>5. CASE WriteOk
    <3>1. Len(stored') = Len(stored) + Len(batch) /\ Len(batch') = 0
      BY <2>5 DEF WriteOk, TypeOK
    <3>q. QED BY <2>0, <2>5, <3>1 DEF WriteOk, BatchFree, Conservation, Evictions
  <2>6. CASE WriteError
    BY <2>0, <2>6 DEF WriteError, historyVars, BatchFree, Conservation, Evictions
  <2>q. QED BY <2>1, <2>2, <2>3, <2>4, <2>5, <2>6 DEF Next, Run
<1>q. QED BY <1>1, <1>2, TypeCorrect, PTL DEF Spec

(* Between two writes Run holds no batch.                                    *)
LEMMA BatchFreeHolds == Spec => []BatchFree
<1>1. Init => BatchFree
  BY DEF Init, NewBuffer, BatchFree
<1>2. TypeOK /\ BatchFree /\ [Next]_pipelineVars => BatchFree'
  <2> SUFFICES ASSUME TypeOK, BatchFree, [Next]_pipelineVars PROVE BatchFree'
    OBVIOUS
  <2>1. ASSUME NEW w \in Ingester, Ingest(w) \/ FinishIngest(w) PROVE BatchFree'
    BY <2>1 DEF Ingest, FinishIngest, Push, CountEviction, drainVars, BatchFree
  <2>2. CASE Cancel \/ Tick \/ Stop \/ WriteOk \/ WriteError \/ UNCHANGED pipelineVars
    BY <2>2 DEF Cancel, Tick, Stop, WriteOk, WriteError, pipelineVars, bufferVars, drainVars, BatchFree
  <2>3. CASE Pop
    <3>1. Len(batch') = PopCount /\ batch' \in Seq(Nat)
      BY <2>3, PopType DEF Pop
    <3>q. QED BY <2>3, <3>1, EmptySeq DEF Pop, BatchFree
  <2>q. QED BY <2>1, <2>2, <2>3 DEF Next, Run
<1>q. QED BY <1>1, <1>2, TypeCorrect, PTL DEF Spec

(* The buffer holds exactly the newest events, for every capacity and every  *)
(* interleaving of pushes and pops.                                         *)
THEOREM NewestRetainedHolds == Spec => []NewestRetained
<1>1. Init => NewestRetained
  BY DEF Init, NewBuffer, NewestRetained
<1>2. TypeOK /\ NewestRetained /\ [Next]_pipelineVars => NewestRetained'
  <2> SUFFICES ASSUME TypeOK, NewestRetained, [Next]_pipelineVars PROVE NewestRetained'
    OBVIOUS
  <2>0. /\ size \in Nat /\ ingested \in Nat /\ cap \in Nat /\ cap >= 1 /\ size <= cap
        /\ Contents \in Seq(Nat) /\ Len(Contents) = size
    BY CapPositive, ContentsType DEF TypeOK
  <2>1. ASSUME NEW w \in Ingester, Ingest(w) PROVE NewestRetained'
    <3>1. Push(w, ingested + 1) /\ ingested + 1 \in Nat /\ ingested' = ingested + 1
      BY <2>1 DEF Ingest, TypeOK
    <3>2. Contents' = IF size = cap THEN Append(Tail(Contents), ingested + 1)
                                    ELSE Append(Contents, ingested + 1)
      BY <3>1, PushContents
    <3>3. size' = IF size = cap THEN size ELSE size + 1
      BY <3>1 DEF Push
    <3>4. CASE size = cap
      <4>1. /\ Tail(Contents) \in Seq(Nat) /\ Len(Tail(Contents)) = size - 1
            /\ \A i \in 1..(size - 1) : Tail(Contents)[i] = Contents[i + 1]
        BY <2>0, <3>4, HeadTailProperties, EmptySeq
      <4>2. /\ \A i \in 1..(size - 1) : Contents'[i] = Contents[i + 1]
            /\ Contents'[size] = ingested + 1
        BY <4>1, <3>2, <3>4, <3>1, <2>0, AppendProperties
      <4>3. ASSUME NEW i \in 1..size PROVE Contents'[i] = ingested + 1 - size + i
        <5>1. CASE i = size
          BY <5>1, <4>2, <2>0
        <5>2. CASE i # size
          <6>1. i \in 1..(size - 1) /\ i + 1 \in 1..size
            BY <5>2, <2>0
          <6>2. Contents[i + 1] = ingested - size + (i + 1)
            BY <6>1 DEF NewestRetained
          <6>q. QED BY <6>1, <6>2, <4>2, <2>0
        <5>q. QED BY <5>1, <5>2
      <4>4. size' = size /\ ingested' = ingested + 1
        BY <3>1, <3>3, <3>4
      <4>q. QED BY <4>3, <4>4, <2>0 DEF NewestRetained
    <3>5. CASE size # cap
      <4>1. /\ \A i \in 1..size : Contents'[i] = Contents[i]
            /\ Contents'[size + 1] = ingested + 1
        BY SMTT(30), <3>2, <3>5, <3>1, <2>0, AppendProperties
      <4>2. ASSUME NEW i \in 1..(size + 1) PROVE Contents'[i] = ingested + 1 - (size + 1) + i
        <5>1. CASE i = size + 1
          BY <5>1, <4>1, <2>0
        <5>2. CASE i # size + 1
          <6>1. i \in 1..size
            BY <5>2, <2>0
          <6>2. Contents[i] = ingested - size + i
            BY <6>1 DEF NewestRetained
          <6>q. QED BY <6>1, <6>2, <4>1, <2>0
        <5>q. QED BY <5>1, <5>2
      <4>3. size' = size + 1 /\ ingested' = ingested + 1
        BY <3>1, <3>3, <3>5
      <4>q. QED BY <4>2, <4>3, <2>0 DEF NewestRetained
    <3>q. QED BY <3>4, <3>5
  <2>2. ASSUME NEW w \in Ingester, FinishIngest(w) PROVE NewestRetained'
    BY <2>2 DEF FinishIngest, CountEviction, historyVars, NewestRetained, Contents
  <2>3. CASE Cancel \/ Tick \/ Stop \/ WriteOk \/ WriteError \/ UNCHANGED pipelineVars
    BY <2>3 DEF Cancel, Tick, Stop, WriteOk, WriteError, pipelineVars, bufferVars, historyVars,
                NewestRetained, Contents
  <2>4. CASE Pop
    <3>1. /\ PopBatch /\ ingested' = ingested /\ size' = size - PopCount
      BY <2>4 DEF Pop, historyVars, PopBatch
    <3>2. PopCount \in Nat /\ PopCount <= size
      BY PopCountBounds, <2>0
    <3>3. Contents' = SubSeq(Contents, PopCount + 1, size)
      BY <3>1, PopContents
    <3>4. \A i \in 1..size : Contents[i] \in Nat
      BY <2>0, ElementOfSeq
    <3>5. \A i \in 1..(size - PopCount) : Contents'[i] = Contents[PopCount + i]
      BY SMTT(30), <2>0, <3>2, <3>3, <3>4, SubSeqProperties
    <3>6. ASSUME NEW i \in 1..(size - PopCount) PROVE Contents'[i] = ingested - (size - PopCount) + i
      <4>1. PopCount + i \in 1..size
        BY <2>0, <3>2
      <4>2. Contents[PopCount + i] = ingested - size + (PopCount + i)
        BY <4>1 DEF NewestRetained
      <4>q. QED BY <4>1, <4>2, <3>5, <3>2, <2>0
    <3>q. QED BY <3>1, <3>6 DEF NewestRetained
  <2>q. QED BY <2>1, <2>2, <2>3, <2>4 DEF Next, Run
<1>q. QED BY <1>1, <1>2, TypeCorrect, PTL DEF Spec

-----------------------------------------------------------------------------

(* The strengthening of StoredInOrder that a step preserves: committed events *)
(* and the held batch are increasing and lie below everything buffered.       *)
OrderInv ==
  /\ \A i, j \in 1..Len(stored) : i < j => stored[i] < stored[j]
  /\ \A i, j \in 1..Len(batch) : i < j => batch[i] < batch[j]
  /\ \A i \in 1..Len(stored) : \A j \in 1..Len(batch) : stored[i] < batch[j]
  /\ \A i \in 1..Len(stored) : stored[i] <= ingested - size
  /\ \A j \in 1..Len(batch) : batch[j] <= ingested - size

(* The two halves of the order invariant join into StoredInOrder.            *)
LEMMA OrderImplies ==
  ASSUME TypeOK, NewestRetained, OrderInv
  PROVE  StoredInOrder
<1> DEFINE sb == stored \o batch
           seen == sb \o Contents
<1>1. /\ stored \in Seq(Nat) /\ batch \in Seq(Nat) /\ Contents \in Seq(Nat) /\ Len(Contents) = size
      /\ size \in Nat /\ ingested \in Nat /\ Len(stored) \in Nat /\ Len(batch) \in Nat
  BY ContentsType, CapPositive DEF TypeOK
<1>2. /\ sb \in Seq(Nat) /\ Len(sb) = Len(stored) + Len(batch)
      /\ \A i \in 1..Len(sb) : sb[i] = IF i <= Len(stored) THEN stored[i] ELSE batch[i - Len(stored)]
  BY <1>1, ConcatProperties
<1>3. \A i \in 1..Len(sb) : sb[i] <= ingested - size /\ sb[i] \in Nat
  <2> SUFFICES ASSUME NEW i \in 1..Len(sb) PROVE sb[i] <= ingested - size /\ sb[i] \in Nat
    OBVIOUS
  <2>1. sb[i] \in Nat
    BY <1>2, ElementOfSeq
  <2>2. CASE i <= Len(stored)
    BY <2>1, <2>2, <1>1, <1>2 DEF OrderInv
  <2>3. CASE ~(i <= Len(stored))
    <3>1. i - Len(stored) \in 1..Len(batch)
      BY <2>3, <1>1, <1>2
    <3>q. QED BY <3>1, <2>1, <2>3, <1>2 DEF OrderInv
  <2>q. QED BY <2>2, <2>3
<1>4. \A i, j \in 1..Len(sb) : i < j => sb[i] < sb[j]
  <2> SUFFICES ASSUME NEW i \in 1..Len(sb), NEW j \in 1..Len(sb), i < j PROVE sb[i] < sb[j]
    OBVIOUS
  <2>1. CASE j <= Len(stored)
    <3>1. i \in 1..Len(stored) /\ j \in 1..Len(stored)
      BY <2>1, <1>1, <1>2
    <3>q. QED BY <3>1, <2>1, <1>2 DEF OrderInv
  <2>2. CASE i <= Len(stored) /\ ~(j <= Len(stored))
    <3>1. i \in 1..Len(stored) /\ j - Len(stored) \in 1..Len(batch)
      BY <2>2, <1>1, <1>2
    <3>q. QED BY <3>1, <2>2, <1>2 DEF OrderInv
  <2>3. CASE ~(i <= Len(stored))
    <3>1. /\ i - Len(stored) \in 1..Len(batch) /\ j - Len(stored) \in 1..Len(batch)
          /\ i - Len(stored) < j - Len(stored) /\ ~(j <= Len(stored))
      BY <2>3, <1>1, <1>2
    <3>q. QED BY <3>1, <2>3, <1>2 DEF OrderInv
  <2>q. QED BY <2>1, <2>2, <2>3, <1>1, <1>2
<1> HIDE DEF sb
<1>5. /\ seen \in Seq(Nat) /\ Len(seen) = Len(sb) + size
      /\ \A i \in 1..Len(seen) : seen[i] = IF i <= Len(sb) THEN sb[i] ELSE Contents[i - Len(sb)]
  <2>1. sb \in Seq(Nat) /\ Contents \in Seq(Nat) /\ Len(Contents) = size
    BY <1>1, <1>2
  <2>q. QED BY <2>1, ConcatProperties
<1>6. Len(sb) \in Nat
  BY <1>2
<1>7. \A i, j \in 1..Len(seen) : i < j => seen[i] < seen[j]
  <2> SUFFICES ASSUME NEW i \in 1..Len(seen), NEW j \in 1..Len(seen), i < j PROVE seen[i] < seen[j]
    OBVIOUS
  <2> HIDE DEF seen
  <2>1. CASE j <= Len(sb)
    <3>1. i \in 1..Len(sb) /\ j \in 1..Len(sb)
      BY <2>1, <1>5, <1>6
    <3>2. seen[i] = sb[i] /\ seen[j] = sb[j]
      BY <3>1, <1>5, <1>6
    <3>3. sb[i] < sb[j]
      BY <3>1, <1>4
    <3>q. QED BY <3>2, <3>3
  <2>2. CASE i <= Len(sb) /\ ~(j <= Len(sb))
    <3>1. i \in 1..Len(sb) /\ j - Len(sb) \in 1..size /\ j - Len(sb) >= 1
      BY <2>2, <1>1, <1>5, <1>6
    <3>2. seen[j] = ingested - size + (j - Len(sb))
      BY <3>1, <2>2, <1>5 DEF NewestRetained
    <3>3. seen[i] <= ingested - size /\ seen[i] \in Nat
      BY <3>1, <2>2, <1>3, <1>5
    <3>q. QED BY <3>1, <3>2, <3>3, <1>1, <1>6
  <2>3. CASE ~(i <= Len(sb))
    <3>1. /\ i - Len(sb) \in 1..size /\ j - Len(sb) \in 1..size
          /\ i - Len(sb) < j - Len(sb) /\ ~(j <= Len(sb))
      BY SMTT(30), <2>3, <1>1, <1>5, <1>6
    <3>2. /\ seen[i] = ingested - size + (i - Len(sb))
          /\ seen[j] = ingested - size + (j - Len(sb))
      BY <3>1, <2>3, <1>5 DEF NewestRetained
    <3>q. QED BY <3>1, <3>2, <1>1, <1>6
  <2>q. QED BY <2>1, <2>2, <2>3, <1>5, <1>6
<1>8. DOMAIN seen = 1..Len(seen)
  BY <1>5
<1>q. QED BY <1>7, <1>8 DEF StoredInOrder, sb

(* Events are committed in the order they were ingested, each at most once.  *)
THEOREM StoredInOrderHolds == Spec => []StoredInOrder
<1>1. Init => OrderInv
  BY DEF Init, NewBuffer, OrderInv
<1>2. TypeOK /\ TypeOK' /\ BatchFree /\ NewestRetained /\ OrderInv /\ [Next]_pipelineVars => OrderInv'
  <2> SUFFICES ASSUME TypeOK, TypeOK', BatchFree, NewestRetained, OrderInv, [Next]_pipelineVars
               PROVE  OrderInv'
    OBVIOUS
  <2>0. /\ stored \in Seq(Nat) /\ batch \in Seq(Nat) /\ Contents \in Seq(Nat) /\ Len(Contents) = size
        /\ size \in Nat /\ ingested \in Nat /\ Len(stored) \in Nat /\ Len(batch) \in Nat
        /\ \A i \in 1..Len(stored) : stored[i] \in Nat
        /\ \A i \in 1..Len(batch) : batch[i] \in Nat
    <3>1. stored \in Seq(Nat) /\ batch \in Seq(Nat) /\ size \in Nat /\ ingested \in Nat
      BY CapPositive DEF TypeOK
    <3>2. \A i \in 1..Len(stored) : stored[i] \in Nat
      BY <3>1, ElementOfSeq
    <3>3. \A i \in 1..Len(batch) : batch[i] \in Nat
      BY <3>1, ElementOfSeq
    <3>q. QED BY <3>1, <3>2, <3>3, ContentsType
  <2>1. ASSUME NEW w \in Ingester, Ingest(w) PROVE OrderInv'
    <3>1. /\ stored' = stored /\ batch' = batch /\ ingested' = ingested + 1
          /\ size' = size \/ size' = size + 1
      BY <2>1 DEF Ingest, Push
    <3>2. ASSUME NEW n \in Nat, n <= ingested - size PROVE n <= ingested' - size'
      BY <3>1, <3>2, <2>0
    <3>q. QED BY <3>1, <3>2, <2>0 DEF OrderInv
  <2>2. ASSUME NEW w \in Ingester, FinishIngest(w) PROVE OrderInv'
    BY <2>2 DEF FinishIngest, CountEviction, historyVars, OrderInv
  <2>3. CASE Cancel \/ Tick \/ Stop \/ UNCHANGED pipelineVars
    BY <2>3 DEF Cancel, Tick, Stop, pipelineVars, bufferVars, historyVars, OrderInv
  <2>4. CASE Pop
    <3>1. /\ PopBatch /\ batch = <<>> /\ stored' = stored /\ ingested' = ingested /\ size' = size - PopCount
      BY <2>4 DEF Pop, BatchFree, historyVars, PopBatch
    <3>2. PopCount \in Nat /\ PopCount <= size
      BY PopCountBounds, <2>0
    <3>3. batch' = SubSeq(Contents, 1, PopCount) /\ Len(batch') = PopCount
      BY <3>1, PopContents, PopType
    <3>4. \A i \in 1..size : Contents[i] \in Nat
      BY <2>0, ElementOfSeq
    <3>5. \A i \in 1..PopCount : batch'[i] = Contents[i]
      BY <2>0, <3>2, <3>3, <3>4, SubSeqProperties
    <3>6. ASSUME NEW i \in 1..PopCount PROVE batch'[i] = ingested - size + i
      <4>1. i \in 1..size
        BY <2>0, <3>2
      <4>q. QED BY <4>1, <3>5 DEF NewestRetained
    <3>7. \A i, j \in 1..Len(batch') : i < j => batch'[i] < batch'[j]
      <4> SUFFICES ASSUME NEW i \in 1..PopCount, NEW j \in 1..PopCount, i < j
                   PROVE  batch'[i] < batch'[j]
        BY <3>3
      <4>q. QED BY <3>6, <3>2, <2>0
    <3>8. \A i \in 1..Len(stored') : \A j \in 1..Len(batch') : stored'[i] < batch'[j]
      <4> SUFFICES ASSUME NEW i \in 1..Len(stored), NEW j \in 1..PopCount PROVE stored[i] < batch'[j]
        BY <3>1, <3>3
      <4>1. stored[i] <= ingested - size /\ stored[i] \in Nat
        BY <2>0 DEF OrderInv
      <4>q. QED BY SMTT(30), <4>1, <3>6, <3>2, <2>0
    <3>9. \A i \in 1..Len(stored') : stored'[i] <= ingested' - size'
      BY <3>1, <3>2, <2>0 DEF OrderInv
    <3>10. \A i \in 1..Len(batch') : batch'[i] <= ingested' - size'
      BY <3>1, <3>2, <3>3, <3>6, <2>0
    <3>q. QED BY <3>1, <3>7, <3>8, <3>9, <3>10 DEF OrderInv
  <2>5. CASE WriteOk
    <3>1. /\ stored' = stored \o batch /\ batch' = <<>> /\ size' = size /\ ingested' = ingested
      BY <2>5 DEF WriteOk
    <3>2. /\ Len(stored') = Len(stored) + Len(batch) /\ Len(batch') = 0
          /\ \A i \in 1..Len(stored') :
               stored'[i] = IF i <= Len(stored) THEN stored[i] ELSE batch[i - Len(stored)]
      BY <3>1, <2>0, ConcatProperties
    <3>3. ASSUME NEW i \in 1..Len(stored'), ~(i <= Len(stored))
          PROVE  i - Len(stored) \in 1..Len(batch)
      BY <3>2, <3>3, <2>0
    <3>4. ASSUME NEW i \in 1..Len(stored') PROVE stored'[i] <= ingested - size
      <4>1. CASE i <= Len(stored)
        <5>1. i \in 1..Len(stored) /\ stored'[i] = stored[i]
          BY <4>1, <3>2, <2>0
        <5>q. QED BY <5>1 DEF OrderInv
      <4>2. CASE ~(i <= Len(stored))
        BY <4>2, <3>2, <3>3 DEF OrderInv
      <4>q. QED BY <4>1, <4>2
    <3>5. ASSUME NEW i \in 1..Len(stored'), NEW j \in 1..Len(stored'), i < j
          PROVE  stored'[i] < stored'[j]
      <4>1. CASE j <= Len(stored)
        <5>1. i \in 1..Len(stored) /\ j \in 1..Len(stored)
          BY <4>1, <3>2, <3>5, <2>0
        <5>q. QED BY <5>1, <4>1, <3>2, <3>5 DEF OrderInv
      <4>2. CASE i <= Len(stored) /\ ~(j <= Len(stored))
        <5>1. i \in 1..Len(stored) /\ j - Len(stored) \in 1..Len(batch)
          BY <4>2, <3>3, <2>0
        <5>q. QED BY <5>1, <4>2, <3>2 DEF OrderInv
      <4>3. CASE ~(i <= Len(stored))
        <5>1. /\ i - Len(stored) \in 1..Len(batch) /\ j - Len(stored) \in 1..Len(batch)
              /\ i - Len(stored) < j - Len(stored) /\ ~(j <= Len(stored))
          BY <4>3, <3>2, <3>5, <2>0
        <5>q. QED BY <5>1, <4>3, <3>2 DEF OrderInv
      <4>q. QED BY <4>1, <4>2, <4>3
    <3>6. 1..Len(batch') = {}
      BY <3>2
    <3>7. \A i \in 1..Len(stored') : stored'[i] <= ingested' - size'
      BY <3>1, <3>4
    <3>q. QED BY <3>5, <3>6, <3>7 DEF OrderInv
  <2>6. CASE WriteError
    <3>1. /\ stored' = stored /\ batch' = <<>> /\ size' = size /\ ingested' = ingested /\ Len(batch') = 0
      BY <2>6 DEF WriteError, historyVars
    <3>q. QED BY <3>1, <2>0 DEF OrderInv
  <2>q. QED BY <2>1, <2>2, <2>3, <2>4, <2>5, <2>6 DEF Next, Run
<1>3. Spec => []OrderInv
  BY <1>1, <1>2, TypeCorrect, BatchFreeHolds, NewestRetainedHolds, PTL DEF Spec
<1>q. QED BY <1>3, OrderImplies, TypeCorrect, NewestRetainedHolds, PTL

-----------------------------------------------------------------------------

(* Once Run has returned, nothing buffered dates from before the cancellation. *)
FlushInv ==
  /\ flushing => cancelled
  /\ cancelled => ingestedAtCancel <= ingested
  /\ drain = "returned" => flushing /\ ingestedAtCancel <= ingested - size

(* Once Run returns, all that was ingested before the cancel has left the ring. *)
LEMMA FlushInvHolds == BatchSize >= 1 => (Spec => []FlushInv)
<1> SUFFICES ASSUME BatchSize >= 1 PROVE Spec => []FlushInv
  OBVIOUS
<1>1. Init => FlushInv
  BY DEF Init, FlushInv
<1>2. TypeOK /\ FlushInv /\ [Next]_pipelineVars => FlushInv'
  <2> SUFFICES ASSUME TypeOK, FlushInv, [Next]_pipelineVars PROVE FlushInv'
    OBVIOUS
  <2>0. size \in Nat /\ ingested \in Nat /\ ingestedAtCancel \in Nat
    BY CapPositive DEF TypeOK
  <2>1. ASSUME NEW w \in Ingester, Ingest(w) PROVE FlushInv'
    <3>1. /\ drain' = drain /\ flushing' = flushing /\ cancelled' = cancelled
          /\ ingestedAtCancel' = ingestedAtCancel /\ ingested' = ingested + 1
          /\ size' = size \/ size' = size + 1
      BY <2>1 DEF Ingest, Push, drainVars
    <3>2. ASSUME ingestedAtCancel <= ingested - size PROVE ingestedAtCancel <= ingested' - size'
      BY <3>1, <3>2, <2>0
    <3>3. ASSUME ingestedAtCancel <= ingested PROVE ingestedAtCancel <= ingested'
      BY <3>1, <3>3, <2>0
    <3>q. QED BY <3>1, <3>2, <3>3 DEF FlushInv
  <2>2. ASSUME NEW w \in Ingester, FinishIngest(w) PROVE FlushInv'
    BY <2>2 DEF FinishIngest, CountEviction, drainVars, historyVars, FlushInv
  <2>3. CASE Cancel
    BY <2>3, <2>0 DEF Cancel, FlushInv
  <2>4. CASE Tick \/ Stop \/ WriteOk \/ WriteError \/ UNCHANGED pipelineVars
    BY <2>4 DEF Tick, Stop, WriteOk, WriteError, pipelineVars, bufferVars, drainVars, historyVars, FlushInv
  <2>5. CASE Pop
    <3>1. /\ drain = "pop" /\ size' = size - PopCount
          /\ flushing' = flushing /\ cancelled' = cancelled
          /\ ingestedAtCancel' = ingestedAtCancel /\ ingested' = ingested
          /\ drain' = IF PopCount = 0 THEN IF flushing THEN "returned" ELSE "select" ELSE "write"
      BY <2>5 DEF Pop, PopBatch, historyVars
    <3>2. PopCount = 0 => size = 0
      BY <2>0, BufferAssumption DEF PopCount
    <3>3. CASE PopCount = 0 /\ flushing
      BY <3>1, <3>2, <3>3, <2>0 DEF FlushInv
    <3>4. CASE ~(PopCount = 0 /\ flushing)
      BY <3>1, <3>4 DEF FlushInv
    <3>q. QED BY <3>3, <3>4
  <2>q. QED BY <2>1, <2>2, <2>3, <2>4, <2>5 DEF Next, Run
<1>q. QED BY <1>1, <1>2, TypeCorrect, PTL DEF Spec

(* "A clean shutdown loses nothing already buffered", for every ring and every *)
(* batch size that can hold an event.                                          *)
THEOREM FlushedOnReturnHolds == BatchSize >= 1 => (Spec => []FlushedOnReturn)
<1> SUFFICES ASSUME BatchSize >= 1 PROVE Spec => []FlushedOnReturn
  OBVIOUS
<1>1. TypeOK /\ NewestRetained /\ FlushInv => FlushedOnReturn
  <2> SUFFICES ASSUME TypeOK, NewestRetained, FlushInv, drain = "returned", NEW i \in 1..size
               PROVE  Contents[i] > ingestedAtCancel
    BY DEF FlushedOnReturn
  <2>1. /\ size \in Nat /\ ingested \in Nat /\ ingestedAtCancel \in Nat
        /\ ingestedAtCancel <= ingested - size
        /\ Contents[i] = ingested - size + i
    BY CapPositive DEF TypeOK, NewestRetained, FlushInv
  <2>q. QED BY <2>1
<1>q. QED BY <1>1, TypeCorrect, NewestRetainedHolds, FlushInvHolds, PTL

-----------------------------------------------------------------------------

(* The ring buffer and its drain loop implement the drop-oldest queue.       *)
THEOREM Refinement == Spec => ImplementsDropOldestQueue
<1> USE DEF Queue!dvars
<1>1. Init => Queue!DQInit
  <2> SUFFICES ASSUME Init PROVE Queue!DQInit
    OBVIOUS
  <2>1. Contents = <<>>
    BY DEF Init, NewBuffer, Contents
  <2>2. Evictions = 0
    BY FS_EmptySet DEF Init, NewBuffer, Evictions
  <2>q. QED BY <2>1, <2>2 DEF Init, NewBuffer, Queue!DQInit
<1>2. TypeOK /\ TypeOK' /\ BatchFree /\ [Next]_pipelineVars => [Queue!DQNext]_(Queue!dvars)
  <2> SUFFICES ASSUME TypeOK, TypeOK', BatchFree, [Next]_pipelineVars
               PROVE  Queue!DQNext \/ UNCHANGED <<Contents, batch, ingested, Evictions>>
    OBVIOUS
  <2>0. /\ size \in Nat /\ cap \in Nat /\ size <= cap
        /\ Contents \in Seq(Nat) /\ Len(Contents) = size
    BY CapPositive, ContentsType DEF TypeOK
  <2>1. ASSUME NEW w \in Ingester, Ingest(w) PROVE Queue!Put
    <3>1. /\ Push(w, ingested + 1) /\ ingested + 1 \in Nat
          /\ ingested' = ingested + 1 /\ batch' = batch
      BY <2>1 DEF Ingest, TypeOK, Push
    <3>2. Contents' = IF size = cap THEN Append(Tail(Contents), ingested + 1)
                                    ELSE Append(Contents, ingested + 1)
      BY <3>1, PushContents
    <3>3. Evictions' = IF size = cap THEN Evictions + 1 ELSE Evictions
      BY <3>1, PushEvictions
    <3>4. CASE size = cap
      BY <3>1, <3>2, <3>3, <3>4, <2>0 DEF Queue!Put
    <3>5. CASE size # cap
      BY <3>1, <3>2, <3>3, <3>5, <2>0 DEF Queue!Put
    <3>q. QED BY <3>4, <3>5
  <2>2. ASSUME NEW w \in Ingester, FinishIngest(w)
        PROVE  UNCHANGED <<Contents, batch, ingested, Evictions>>
    BY <2>2, CountEvictions DEF FinishIngest, CountEviction, historyVars, Contents
  <2>3. CASE Cancel \/ Tick \/ Stop \/ UNCHANGED pipelineVars
    BY <2>3 DEF Cancel, Tick, Stop, pipelineVars, bufferVars, historyVars, Contents, Evictions
  <2>4. CASE Pop
    <3>1. /\ PopBatch /\ batch = <<>> /\ ingested' = ingested /\ Evictions' = Evictions
      BY <2>4 DEF Pop, BatchFree, historyVars, PopBatch, Evictions
    <3>2. /\ batch' = SubSeq(Contents, 1, PopCount) /\ Contents' = SubSeq(Contents, PopCount + 1, size)
      BY <3>1, PopContents
    <3>3. CASE PopCount = 0
      <4>1. batch' = <<>>
        BY <3>3, <3>2, SubSeqEmpty
      <4>2. Contents' = Contents
        BY <3>3, <3>2, <2>0, SubSeqFull
      <4>q. QED BY <4>1, <4>2, <3>1
    <3>4. CASE PopCount # 0
      <4>1. /\ PopCount \in 1..Len(Contents) /\ PopCount <= BatchSize
            /\ PopCount = Len(Contents) \/ PopCount = BatchSize
        BY <3>4, <2>0, BufferAssumption DEF PopCount
      <4>2. Queue!Take
        BY <4>1, <3>1, <3>2, <2>0 DEF Queue!Take
      <4>q. QED BY <4>2 DEF Queue!DQNext
    <3>q. QED BY <3>3, <3>4
  <2>5. CASE WriteOk \/ WriteError
    BY <2>5 DEF WriteOk, WriteError, historyVars, Contents, Evictions, Queue!DQNext, Queue!Release
  <2>q. QED BY <2>1, <2>2, <2>3, <2>4, <2>5 DEF Next, Run, Queue!DQNext
<1>q. QED BY <1>1, <1>2, TypeCorrect, BatchFreeHolds, PTL DEF Spec, ImplementsDropOldestQueue, Queue!DQSpec

-----------------------------------------------------------------------------
(* The pipeline in the daemon. *)

(* The goroutines that ingest are the bridge and the heartbeat.            *)
LEMMA IngestersAre == bridgeG \in Ingester /\ heartbeatG \in Ingester /\ bridgeG # heartbeatG
BY DaemonAssumption

(* The pipeline inside the daemon is the pipeline of the module Pipeline:   *)
(* the goroutines around it only restrict when it is called and cancelled.  *)
THEOREM PipelineInDaemon == DaemonSpec => Spec
<1>1. DaemonInit => Init
  BY DEF DaemonInit
<1>2. [DaemonNext]_daemonVars => [Next]_pipelineVars
  <2> SUFFICES ASSUME [DaemonNext]_daemonVars PROVE [Next]_pipelineVars
    OBVIOUS
  <2>1. ASSUME NEW c \in Collector, CollectorStep(c) PROVE UNCHANGED pipelineVars
    BY <2>1 DEF CollectorStep, Collect, Send, Abandon, ReturnCollector
  <2>2. CASE Signal \/ CloseOut
    BY <2>2 DEF Signal, CloseOut
  <2>3. CASE BridgeStep
    <3>1. CASE BridgeIngest \/ BridgeCount
      BY <3>1, IngestersAre DEF BridgeIngest, BridgeCount, Next
    <3>2. CASE BridgeReceive \/ BridgeDone
      BY <3>2 DEF BridgeReceive, BridgeDone
    <3>q. QED BY <2>3, <3>1, <3>2 DEF BridgeStep
  <2>4. CASE HeartbeatStep
    <3>1. CASE HeartbeatEmit \/ HeartbeatCount
      BY <3>1, IngestersAre DEF HeartbeatEmit, HeartbeatCount, Next
    <3>2. CASE HeartbeatTick \/ HeartbeatDone
      BY <3>2 DEF HeartbeatTick, HeartbeatDone
    <3>q. QED BY <2>4, <3>1, <3>2 DEF HeartbeatStep
  <2>5. CASE MainStep
    <3>1. CASE MainHeartbeat
      BY <3>1 DEF MainHeartbeat, Next
    <3>2. CASE MainCtx \/ MainBridge \/ MainPipe
      BY <3>2 DEF MainCtx, MainBridge, MainPipe
    <3>q. QED BY <2>5, <3>1, <3>2 DEF MainStep
  <2>6. CASE PipeStep
    BY <2>6 DEF PipeStep, Next
  <2>7. CASE UNCHANGED daemonVars
    BY <2>7 DEF daemonVars
  <2>q. QED BY <2>1, <2>2, <2>3, <2>4, <2>5, <2>6, <2>7 DEF DaemonNext
<1>q. QED BY <1>1, <1>2, PTL DEF DaemonSpec, Spec

-----------------------------------------------------------------------------

(* The daemon's own variables keep their types.                             *)
GoTypeOK ==
  /\ ctxDone \in BOOLEAN
  /\ collector \in [Collector -> {"select", "send", "returned"}]
  /\ out \in 0..ChanSize
  /\ outClosed \in BOOLEAN
  /\ bridge \in {"range", "ingest", "done"}
  /\ heartbeat \in {"emit", "select", "done"}
  /\ main \in {"ctx", "bridge", "heartbeat", "pipe", "returned"}
  /\ produced \in Nat
  /\ abandoned \in Nat
  /\ reported \in {NotReported} \cup (Nat \X Nat)

(* The channel never holds more than its capacity, and the two counters of  *)
(* the shutdown line are numbers once it is logged.                         *)
THEOREM DaemonTypeCorrect == DaemonSpec => []DaemonTypeOK
<1> USE DEF GoTypeOK
<1>1. DaemonInit => GoTypeOK
  <2> SUFFICES ASSUME DaemonInit PROVE GoTypeOK
    OBVIOUS
  <2>1. 0 \in 0..ChanSize
    BY DaemonAssumption
  <2>2. reported \in {NotReported} \cup (Nat \X Nat)
    BY Zenon DEF DaemonInit
  <2>q. QED BY <2>1, <2>2 DEF DaemonInit
<1>2. TypeOK /\ GoTypeOK /\ [DaemonNext]_daemonVars => GoTypeOK'
  <2> SUFFICES ASSUME TypeOK, GoTypeOK, [DaemonNext]_daemonVars PROVE GoTypeOK'
    OBVIOUS
  <2>1. ASSUME NEW c \in Collector, CollectorStep(c) PROVE GoTypeOK'
    <3>1. CASE Collect(c)
      BY <3>1 DEF Collect
    <3>2. CASE Send(c)
      BY <3>2, DaemonAssumption DEF Send
    <3>3. CASE Abandon(c)
      BY <3>3 DEF Abandon
    <3>4. CASE ReturnCollector(c)
      BY <3>4 DEF ReturnCollector
    <3>q. QED BY <2>1, <3>1, <3>2, <3>3, <3>4 DEF CollectorStep
  <2>2. CASE Signal \/ CloseOut
    BY <2>2 DEF Signal, CloseOut
  <2>3. CASE BridgeStep
    BY <2>3, DaemonAssumption DEF BridgeStep, BridgeReceive, BridgeIngest, BridgeCount, BridgeDone, goVars
  <2>4. CASE HeartbeatStep
    BY <2>4 DEF HeartbeatStep, HeartbeatEmit, HeartbeatCount, HeartbeatTick, HeartbeatDone, goVars
  <2>5. CASE MainStep
    <3>1. CASE MainPipe
      <4>1. reported' \in Nat \X Nat
        BY <3>1 DEF MainPipe, TypeOK
      <4>2. reported' \in {NotReported} \cup (Nat \X Nat)
        BY <4>1, Zenon
      <4>q. QED BY <3>1, <4>2 DEF MainPipe
    <3>2. CASE MainCtx \/ MainBridge \/ MainHeartbeat
      BY <3>2 DEF MainCtx, MainBridge, MainHeartbeat
    <3>q. QED BY <2>5, <3>1, <3>2 DEF MainStep
  <2>6. CASE PipeStep \/ UNCHANGED daemonVars
    BY <2>6 DEF PipeStep, daemonVars, goVars
  <2>q. QED BY <2>1, <2>2, <2>3, <2>4, <2>5, <2>6 DEF DaemonNext
<1>3. DaemonTypeOK <=> TypeOK /\ GoTypeOK
  BY DEF DaemonTypeOK
<1>q. QED BY <1>1, <1>2, <1>3, PipelineInDaemon, TypeCorrect, PTL DEF DaemonSpec

-----------------------------------------------------------------------------

Sending == {c \in Collector : collector[c] = "send"}

(* As many events are being sent as there are collectors in send.           *)
LEMMA SendingFinite == IsFiniteSet(Sending) /\ Cardinality(Sending) \in Nat
BY DaemonAssumption, FS_Subset, FS_CardinalityType DEF Sending

(* A collector enters send with one event in hand.                          *)
LEMMA EntersSend ==
  ASSUME DaemonTypeOK, NEW c \in Collector, collector[c] # "send",
         collector' = [collector EXCEPT ![c] = "send"]
  PROVE  Cardinality(Sending') = Cardinality(Sending) + 1
<1>1. Sending' = Sending \cup {c} /\ c \notin Sending
  BY DEF DaemonTypeOK, Sending
<1>q. QED BY <1>1, SendingFinite, FS_AddElement

(* And leaves it without.                                                   *)
LEMMA LeavesSend ==
  ASSUME DaemonTypeOK, NEW c \in Collector, collector[c] = "send",
         NEW s \in {"select", "returned"}, collector' = [collector EXCEPT ![c] = s]
  PROVE  Cardinality(Sending') = Cardinality(Sending) - 1
<1>1. Sending' = Sending \ {c} /\ c \in Sending
  BY DEF DaemonTypeOK, Sending
<1>q. QED BY <1>1, SendingFinite, FS_RemoveElement

(* No event disappears between the collectors and the ring, whatever the    *)
(* number of collectors and the capacity of the channel.                    *)
THEOREM DeliveryConservationHolds == DaemonSpec => []DeliveryConservation
<1>0. DeliveryConservation <=>
        produced =   Cardinality(Sending) + out + InHand(bridge = "ingest")
                   + InHand(heartbeat = "emit") + ingested + abandoned
  BY DEF DeliveryConservation, Sending
<1>1. DaemonInit => DeliveryConservation
  <2> SUFFICES ASSUME DaemonInit PROVE DeliveryConservation
    OBVIOUS
  <2>1. Sending = {}
    BY DEF DaemonInit, Sending
  <2>2. Cardinality(Sending) = 0
    BY <2>1, FS_EmptySet
  <2>q. QED BY <1>0, <2>2 DEF DaemonInit, Init, InHand
<1>2. DaemonTypeOK /\ DeliveryConservation /\ [DaemonNext]_daemonVars => DeliveryConservation'
  <2> SUFFICES ASSUME DaemonTypeOK, DeliveryConservation, [DaemonNext]_daemonVars
               PROVE  DeliveryConservation'
    OBVIOUS
  <2>0. /\ produced \in Nat /\ out \in Nat /\ ingested \in Nat /\ abandoned \in Nat
        /\ Cardinality(Sending) \in Nat
    BY SendingFinite DEF DaemonTypeOK, TypeOK
  <2>1. /\ produced =   Cardinality(Sending) + out + InHand(bridge = "ingest")
                      + InHand(heartbeat = "emit") + ingested + abandoned
        /\ InHand(bridge = "ingest") \in Nat /\ InHand(heartbeat = "emit") \in Nat
    BY <1>0 DEF InHand
  <2>2. collector' = collector => Cardinality(Sending') = Cardinality(Sending)
    <3>1. collector' = collector => Sending' = Sending
      BY DEF Sending
    <3>q. QED BY <3>1
  <2> SUFFICES produced' =   Cardinality(Sending') + out' + InHand(bridge' = "ingest")
                           + InHand(heartbeat' = "emit") + ingested' + abandoned'
    BY DEF DeliveryConservation, Sending
  <2> USE DEF pipelineVars, historyVars
  <2>3. ASSUME NEW c \in Collector, CollectorStep(c)
        PROVE  produced' =   Cardinality(Sending') + out' + InHand(bridge' = "ingest")
                           + InHand(heartbeat' = "emit") + ingested' + abandoned'
    <3>1. CASE Collect(c)
      <4>1. Cardinality(Sending') = Cardinality(Sending) + 1
        BY <3>1, EntersSend DEF Collect
      <4>q. QED BY <3>1, <4>1, <2>0, <2>1 DEF Collect
    <3>2. CASE Send(c)
      <4>1. CASE collector' = [collector EXCEPT ![c] = "select"] /\ produced' = produced
        <5>1. Cardinality(Sending') = Cardinality(Sending) - 1
          BY <3>2, <4>1, LeavesSend DEF Send
        <5>q. QED BY <3>2, <4>1, <5>1, <2>0, <2>1 DEF Send
      <4>2. CASE collector' = collector /\ produced' = produced + 1
        BY <3>2, <4>2, <2>0, <2>1, <2>2 DEF Send
      <4>q. QED BY <3>2, <4>1, <4>2 DEF Send
    <3>3. CASE Abandon(c)
      <4>1. Cardinality(Sending') = Cardinality(Sending) - 1
        BY <3>3, LeavesSend DEF Abandon
      <4>q. QED BY <3>3, <4>1, <2>0, <2>1 DEF Abandon
    <3>4. CASE ReturnCollector(c)
      <4>1. Sending' = Sending
        BY <3>4 DEF ReturnCollector, Sending, DaemonTypeOK
      <4>q. QED BY <3>4, <4>1, <2>0, <2>1 DEF ReturnCollector
    <3>q. QED BY <2>3, <3>1, <3>2, <3>3, <3>4 DEF CollectorStep
  <2>4. CASE Signal \/ CloseOut \/ UNCHANGED daemonVars
    BY <2>4, <2>1, <2>2 DEF Signal, CloseOut, daemonVars, goVars
  <2>5. CASE BridgeStep
    <3>1. CASE BridgeReceive
      BY <3>1, <2>0, <2>1, <2>2 DEF BridgeReceive, InHand
    <3>2. CASE BridgeIngest
      BY <3>2, <2>0, <2>1, <2>2 DEF BridgeIngest, Ingest, InHand
    <3>3. CASE BridgeCount \/ BridgeDone
      BY <3>3, <2>1, <2>2 DEF BridgeCount, BridgeDone, FinishIngest, goVars, InHand
    <3>q. QED BY <2>5, <3>1, <3>2, <3>3 DEF BridgeStep
  <2>6. CASE HeartbeatStep
    <3>1. CASE HeartbeatEmit
      BY <3>1, <2>0, <2>1, <2>2 DEF HeartbeatEmit, Ingest, InHand
    <3>2. CASE HeartbeatTick
      BY <3>2, <2>0, <2>1, <2>2 DEF HeartbeatTick, InHand
    <3>3. CASE HeartbeatCount \/ HeartbeatDone
      BY <3>3, <2>1, <2>2 DEF HeartbeatCount, HeartbeatDone, FinishIngest, goVars, InHand
    <3>q. QED BY <2>6, <3>1, <3>2, <3>3 DEF HeartbeatStep
  <2>7. CASE MainStep
    BY <2>7, <2>1, <2>2 DEF MainStep, MainCtx, MainBridge, MainHeartbeat, MainPipe, Cancel
  <2>8. CASE PipeStep
    BY <2>8, <2>1, <2>2 DEF PipeStep, Run, Tick, Stop, Pop, WriteOk, WriteError, goVars
  <2>q. QED BY <2>3, <2>4, <2>5, <2>6, <2>7, <2>8 DEF DaemonNext
<1>q. QED BY <1>1, <1>2, DaemonTypeCorrect, PTL DEF DaemonSpec

-----------------------------------------------------------------------------

(* The inductive invariant of the shutdown: each goroutine that is done has *)
(* nothing left behind it, and main has waited for all those before it.     *)
ShutdownInv ==
  /\ outClosed => \A c \in Collector : collector[c] = "returned"
  /\ bridge = "done" => outClosed /\ out = 0 /\ bridgeG \notin uncounted
  /\ heartbeat = "done" => heartbeatG \notin uncounted
  /\ main \in {"heartbeat", "pipe", "returned"} => bridge = "done"
  /\ main \in {"pipe", "returned"} => heartbeat = "done"
  /\ cancelled <=> main \in {"pipe", "returned"}
  /\ cancelled => ingested = ingestedAtCancel
  /\ main = "returned" => /\ drain = "returned"
                          /\ reported = <<droppedOverflow, droppedWriteError>>

(* Every goroutine that has ended stays ended, and leaves nothing to do.    *)
LEMMA ShutdownInvHolds == DaemonSpec => []ShutdownInv
<1>1. DaemonInit => ShutdownInv
  BY DEF DaemonInit, Init, ShutdownInv
<1>2. DaemonTypeOK /\ ShutdownInv /\ [DaemonNext]_daemonVars => ShutdownInv'
  <2> SUFFICES ASSUME DaemonTypeOK, ShutdownInv, [DaemonNext]_daemonVars PROVE ShutdownInv'
    OBVIOUS
  <2> USE DEF ShutdownInv, pipelineVars, drainVars, historyVars, bufferVars
  <2>1. ASSUME NEW c \in Collector, CollectorStep(c) PROVE ShutdownInv'
    BY <2>1 DEF CollectorStep, Collect, Send, Abandon, ReturnCollector, DaemonTypeOK
  <2>2. CASE Signal \/ CloseOut \/ UNCHANGED daemonVars
    BY <2>2 DEF Signal, CloseOut, daemonVars, goVars
  <2>3. CASE BridgeStep
    <3>1. CASE BridgeIngest
      BY <3>1, IngestersAre DEF BridgeIngest, Ingest, Push
    <3>2. CASE BridgeCount
      BY <3>2, IngestersAre DEF BridgeCount, FinishIngest, CountEviction, goVars
    <3>3. CASE BridgeReceive \/ BridgeDone
      BY <3>3 DEF BridgeReceive, BridgeDone
    <3>q. QED BY <2>3, <3>1, <3>2, <3>3 DEF BridgeStep
  <2>4. CASE HeartbeatStep
    <3>1. CASE HeartbeatEmit
      BY <3>1, IngestersAre DEF HeartbeatEmit, Ingest, Push
    <3>2. CASE HeartbeatCount
      BY <3>2, IngestersAre DEF HeartbeatCount, FinishIngest, CountEviction, goVars
    <3>3. CASE HeartbeatTick \/ HeartbeatDone
      BY <3>3 DEF HeartbeatTick, HeartbeatDone
    <3>q. QED BY <2>4, <3>1, <3>2, <3>3 DEF HeartbeatStep
  <2>5. CASE MainStep
    BY <2>5 DEF MainStep, MainCtx, MainBridge, MainHeartbeat, MainPipe, Cancel
  <2>6. CASE PipeStep
    BY <2>6 DEF PipeStep, Run, Tick, Stop, Pop, PopBatch, WriteOk, WriteError, goVars
  <2>q. QED BY <2>1, <2>2, <2>3, <2>4, <2>5, <2>6 DEF DaemonNext
<1>q. QED BY <1>1, <1>2, DaemonTypeCorrect, PTL DEF DaemonSpec

(* No collector sends on the closed channel, and nothing is on its way to   *)
(* the buffer once the final flush has been triggered.                      *)
THEOREM ShutdownInOrderHolds == DaemonSpec => []ShutdownInOrder
<1>1. DaemonTypeOK /\ ShutdownInv => ShutdownInOrder
  BY DaemonAssumption DEF DaemonTypeOK, TypeOK, ShutdownInv, ShutdownInOrder
<1>q. QED BY <1>1, DaemonTypeCorrect, ShutdownInvHolds, PTL

(* When run has returned the channel, the hands, the ring and the batch are *)
(* all empty: what was produced is committed, counted or abandoned.  (With  *)
(* a batch size below one PopBatch returns nothing, ever.)                  *)
THEOREM ShutdownAccountsForAllHolds ==
  BatchSize >= 1 => (DaemonSpec => []ShutdownAccountsForAll)
<1> SUFFICES ASSUME BatchSize >= 1 PROVE DaemonSpec => []ShutdownAccountsForAll
  OBVIOUS
<1>1. /\ DaemonTypeOK /\ DeliveryConservation /\ ShutdownInv
      /\ Conservation /\ BatchFree /\ FlushInv
      => ShutdownAccountsForAll
  <2> SUFFICES ASSUME DaemonTypeOK, DeliveryConservation, ShutdownInv,
                      Conservation, BatchFree, FlushInv, main = "returned"
               PROVE  produced = abandoned + Len(stored) + reported[1] + reported[2]
    BY DEF ShutdownAccountsForAll
  <2>1. /\ bridge = "done" /\ heartbeat = "done" /\ outClosed /\ out = 0
        /\ uncounted = {} /\ cancelled /\ ingested = ingestedAtCancel /\ drain = "returned"
        /\ reported = <<droppedOverflow, droppedWriteError>>
    BY DaemonAssumption DEF ShutdownInv, DaemonTypeOK, TypeOK
  <2>2. Cardinality({c \in Collector : collector[c] = "send"}) = 0
    <3>1. {c \in Collector : collector[c] = "send"} = {}
      BY <2>1 DEF ShutdownInv
    <3>q. QED BY <3>1, FS_EmptySet
  <2>3. Cardinality(uncounted) = 0
    BY <2>1, FS_EmptySet
  <2>4. size = 0 /\ Len(batch) = 0
    BY <2>1, CapPositive DEF FlushInv, BatchFree, DaemonTypeOK, TypeOK
  <2>5. /\ ingested \in Nat /\ abandoned \in Nat /\ Len(stored) \in Nat
        /\ droppedOverflow \in Nat /\ droppedWriteError \in Nat
    BY DEF DaemonTypeOK, TypeOK
  <2>6. produced = ingested + abandoned
    BY <2>1, <2>2, <2>5 DEF DeliveryConservation, InHand
  <2>7. ingested = Len(stored) + droppedOverflow + droppedWriteError
    BY <2>3, <2>4, <2>5 DEF Conservation, Evictions
  <2>q. QED BY <2>1, <2>5, <2>6, <2>7
<1>q. QED BY <1>1, PipelineInDaemon, DaemonTypeCorrect, DeliveryConservationHolds, ShutdownInvHolds,
             ConservationHolds, BatchFreeHolds, FlushInvHolds, PTL

-----------------------------------------------------------------------------
(* The store. *)

InTx == pc \in {"insert", "evict", "commit"}

(* The oldest row a commit will leave behind.                               *)
OldestKept == IF Oldest + maxRows > txSeq THEN Oldest ELSE (txSeq - maxRows) + 1

(* What an open transaction has done so far, relative to the committed rows. *)
TxInv ==
  InTx =>
    /\ txSeq + Len(todo) = autoSeq + Len(given)
    /\ Len(todo) <= Len(given) /\ Len(given) >= 1
    /\ \A i \in 1..Len(todo) : todo[i] = given[(Len(given) - Len(todo)) + i]
    /\ pc = "insert" => Len(todo) >= 1
    /\ pc # "insert" => Len(todo) = 0
    /\ pc # "commit" => DOMAIN txTable = Oldest..txSeq
    /\ pc = "commit" => DOMAIN txTable = OldestKept..txSeq
    /\ \A s \in DOMAIN txTable : txTable[s] = (log \o given)[s]

(* Committed and uncommitted rows stay a table keyed by seqs up to the counter. *)
THEOREM StoreTypeCorrect == StoreSpec => []StoreTypeOK
<1>1. StoreInit => StoreTypeOK
  <2>1. IsRows(NoRows)
    BY DEF NoRows, IsRows
  <2>2. <<>> \in Seq(Nat)
    OBVIOUS
  <2> SUFFICES ASSUME StoreInit PROVE StoreTypeOK
    OBVIOUS
  <2>3. IsRows(table) /\ IsRows(txTable)
    BY <2>1 DEF StoreInit
  <2>4. maxRows \in Caps /\ pc = "closed" /\ fits = FALSE /\ handedIn = 0 /\ autoSeq = 0 /\ txSeq = 0
    BY DEF StoreInit
  <2>5. given = <<>> /\ todo = <<>> /\ log = <<>>
    BY DEF StoreInit
  <2>q. QED BY <2>2, <2>3, <2>4, <2>5 DEF StoreTypeOK
<1>2. StoreTypeOK /\ [StoreNext]_vars => StoreTypeOK'
  <2> SUFFICES ASSUME StoreTypeOK, [StoreNext]_vars PROVE StoreTypeOK'
    OBVIOUS
  <2>1. CASE OpenSQLite
    BY <2>1 DEF OpenSQLite, StoreTypeOK, tx
  <2>2. CASE Begin
    <3> PICK n \in 1..BatchMax : given' = [i \in 1..n |-> handedIn + i] /\ handedIn' = handedIn + n
      BY <2>2 DEF Begin
    <3>1. n \in Nat /\ handedIn \in Nat
      BY StoreAssumption DEF StoreTypeOK
    <3>2. given' \in Seq(Nat)
      BY <3>1
    <3>q. QED BY <3>1, <3>2, <2>2 DEF Begin, StoreTypeOK
  <2>3. CASE Insert
    <3>1. /\ todo \in Seq(Nat) /\ todo # <<>> /\ txSeq \in Nat
          /\ DOMAIN txTable \subseteq Nat \ {0} /\ txTable \in [DOMAIN txTable -> Nat]
      BY <2>3 DEF Insert, StoreTypeOK, IsRows
    <3>2. Head(todo) \in Nat /\ Tail(todo) \in Seq(Nat)
      BY <3>1, HeadTailProperties
    <3>3. txTable' = [s \in DOMAIN txTable \cup {txSeq + 1} |->
                        IF s = txSeq + 1 THEN Head(todo) ELSE txTable[s]]
      BY <2>3 DEF Insert
    <3>4. IsRows(txTable)'
      BY <3>1, <3>2, <3>3 DEF IsRows
    <3>q. QED BY <3>1, <3>2, <3>4, <2>3 DEF Insert, StoreTypeOK
  <2>4. CASE Evict
    <3>1. IsRows(txTable)'
      BY <2>4 DEF Evict, StoreTypeOK, Keep, IsRows
    <3>q. QED BY <3>1, <2>4 DEF Evict, StoreTypeOK
  <2>5. CASE Commit
    BY <2>5 DEF Commit, StoreTypeOK, tx
  <2>6. CASE Fail \/ CloseStore \/ UNCHANGED vars
    BY <2>6 DEF Fail, CloseStore, vars, tx, StoreTypeOK
  <2>q. QED BY <2>1, <2>2, <2>3, <2>4, <2>5, <2>6 DEF StoreNext, WriteBatch
<1>q. QED BY <1>1, <1>2, PTL DEF StoreSpec

(* The seqs below and in the window are naturals, and its length is Cardinality. *)
LEMMA OldestBounds ==
  ASSUME StoreTypeOK, UnbrokenNewestRows
  PROVE  /\ autoSeq \in Nat /\ Oldest \in Nat /\ Oldest >= 1 /\ Oldest <= autoSeq + 1
         /\ Cardinality(DOMAIN table) = (autoSeq + 1) - Oldest
<1>1. autoSeq \in Nat /\ DOMAIN table \subseteq Nat \ {0} /\ DOMAIN table = Oldest..autoSeq
  BY DEF StoreTypeOK, IsRows, UnbrokenNewestRows
<1>2. DOMAIN table \subseteq 1..autoSeq
  <2> SUFFICES ASSUME NEW s \in DOMAIN table PROVE s \in 1..autoSeq
    OBVIOUS
  <2>1. s \in Nat \ {0} /\ s \in Oldest..autoSeq
    BY <1>1
  <2>q. QED BY <2>1, <1>1
<1>3. IsFiniteSet(1..autoSeq) /\ Cardinality(1..autoSeq) = autoSeq
  BY <1>1, FS_Interval
<1>4. Cardinality(DOMAIN table) \in Nat /\ Cardinality(DOMAIN table) <= autoSeq
  BY <1>2, <1>3, FS_Subset, FS_CardinalityType
<1>q. QED BY <1>1, <1>4 DEF Oldest

(* A window of consecutive seqs has last - first + 1 rows.                   *)
LEMMA IntervalSize ==
  ASSUME NEW a \in Int, NEW b \in Int, a <= b + 1
  PROVE  Cardinality(a..b) = (b + 1) - a
<1>1. Cardinality(a..b) = IF a > b THEN 0 ELSE (b - a) + 1
  BY FS_Interval
<1>q. QED BY <1>1

(* Cutting a window of seqs at the cap, as Evict's DELETE does.             *)
LEMMA EvictCutsFront ==
  ASSUME StoreTypeOK, UnbrokenNewestRows, TxInv, Evict
  PROVE  /\ DOMAIN txTable' = OldestKept..txSeq
         /\ \A s \in DOMAIN txTable' : s \in DOMAIN txTable /\ txTable'[s] = txTable[s]
<1>1. /\ autoSeq \in Nat /\ Oldest \in Nat /\ Oldest >= 1 /\ Oldest <= autoSeq + 1
      /\ txSeq \in Nat /\ maxRows \in Nat
  BY OldestBounds, StoreAssumption DEF StoreTypeOK
<1>2. /\ DOMAIN txTable = Oldest..txSeq /\ txSeq >= autoSeq + 1
  <2>1. Len(todo) = 0 /\ txSeq + Len(todo) = autoSeq + Len(given) /\ Len(given) >= 1 /\ Len(given) \in Nat
    BY DEF TxInv, InTx, Evict, StoreTypeOK
  <2>2. DOMAIN txTable = Oldest..txSeq
    BY DEF TxInv, InTx, Evict
  <2>q. QED BY <2>1, <2>2, <1>1
<1>3. MaxSeq(txTable) = txSeq
  <2>1. txSeq \in DOMAIN txTable /\ \A s \in DOMAIN txTable : s <= txSeq
    BY <1>1, <1>2
  <2>2. \A m \in DOMAIN txTable : (\A s \in DOMAIN txTable : s <= m) => m = txSeq
    BY <1>1, <1>2, <2>1
  <2>q. QED BY <2>1, <2>2 DEF MaxSeq
<1>4. txTable' = [s \in {s \in DOMAIN txTable : s > txSeq - maxRows} |-> txTable[s]]
  BY <1>3 DEF Evict, Keep
<1>5. {s \in DOMAIN txTable : s > txSeq - maxRows} = OldestKept..txSeq
  <2>1. CASE Oldest + maxRows > txSeq
    <3>1. \A s \in Oldest..txSeq : s > txSeq - maxRows
      BY <2>1, <1>1
    <3>q. QED BY <3>1, <2>1, <1>2 DEF OldestKept
  <2>2. CASE ~(Oldest + maxRows > txSeq)
    <3>1. \A s \in Int : s \in Oldest..txSeq /\ s > txSeq - maxRows
                           <=> s \in ((txSeq - maxRows) + 1)..txSeq
      BY <2>2, <1>1
    <3>q. QED BY <3>1, <2>2, <1>2 DEF OldestKept
  <2>q. QED BY <2>1, <2>2
<1>q. QED BY <1>4, <1>5

(* One INSERT extends the window by the next seq and the next given event.  *)
LEMMA InsertExtends ==
  ASSUME StoreTypeOK, UnbrokenNewestRows, TxInv, Insert
  PROVE  TxInv'
<1>1. /\ autoSeq \in Nat /\ Oldest \in Nat /\ Oldest >= 1 /\ Oldest <= autoSeq + 1
      /\ txSeq \in Nat /\ given \in Seq(Nat) /\ todo \in Seq(Nat) /\ log \in Seq(Nat)
      /\ Len(given) \in Nat /\ Len(todo) \in Nat /\ Len(log) = autoSeq
  BY OldestBounds DEF StoreTypeOK, UnbrokenNewestRows
<1>2. /\ txSeq + Len(todo) = autoSeq + Len(given)
      /\ Len(todo) <= Len(given) /\ Len(given) >= 1
      /\ \A i \in 1..Len(todo) : todo[i] = given[(Len(given) - Len(todo)) + i]
      /\ Len(todo) >= 1 /\ todo # <<>>
      /\ DOMAIN txTable = Oldest..txSeq
      /\ \A s \in DOMAIN txTable : txTable[s] = (log \o given)[s]
  BY DEF TxInv, InTx, Insert
<1>3. /\ txTable' = [s \in DOMAIN txTable \cup {txSeq + 1} |->
                       IF s = txSeq + 1 THEN Head(todo) ELSE txTable[s]]
      /\ txSeq' = txSeq + 1 /\ todo' = Tail(todo)
      /\ pc' = (IF Len(todo) = 1 THEN "evict" ELSE "insert")
      /\ autoSeq' = autoSeq /\ given' = given /\ log' = log /\ Oldest' = Oldest
  BY DEF Insert, Oldest
<1>4. /\ Len(todo') = Len(todo) - 1 /\ Head(todo) = todo[1]
      /\ \A i \in 1..(Len(todo) - 1) : todo'[i] = todo[i + 1]
  BY <1>1, <1>2, <1>3, HeadTailProperties
<1>5. \A i \in 1..Len(todo') : todo'[i] = given'[(Len(given') - Len(todo')) + i]
  <2> SUFFICES ASSUME NEW i \in 1..(Len(todo) - 1)
               PROVE  todo'[i] = given[(Len(given) - (Len(todo) - 1)) + i]
    BY <1>3, <1>4
  <2>1. i + 1 \in 1..Len(todo) /\ (Len(given) - (Len(todo) - 1)) + i = (Len(given) - Len(todo)) + (i + 1)
    BY <1>1
  <2>q. QED BY <2>1, <1>2, <1>4
<1>6. DOMAIN txTable' = Oldest..(txSeq + 1)
  <2>1. DOMAIN txTable' = (Oldest..txSeq) \cup {txSeq + 1}
    BY <1>2, <1>3
  <2>2. Oldest <= txSeq + 1
    BY <1>1, <1>2
  <2>q. QED BY <2>1, <2>2, <1>1
<1>7. ASSUME NEW s \in DOMAIN txTable' PROVE txTable'[s] = (log \o given)[s]
  <2>1. CASE s = txSeq + 1
    <3>1. /\ s = Len(log) + ((Len(given) - Len(todo)) + 1)
          /\ (Len(given) - Len(todo)) + 1 \in 1..Len(given)
      <4>1. /\ txSeq + Len(todo) = Len(log) + Len(given)
            /\ Len(todo) <= Len(given) /\ Len(todo) >= 1
        <5>1. /\ txSeq + Len(todo) = autoSeq + Len(given)
              /\ Len(todo) <= Len(given) /\ Len(todo) >= 1
          BY <1>2
        <5>2. Len(log) = autoSeq
          BY <1>1
        <5>q. QED BY <5>1, <5>2
      <4>2. /\ txSeq \in Nat /\ Len(given) \in Nat /\ Len(todo) \in Nat /\ Len(log) \in Nat
        BY <1>1
      <4>q. QED BY <4>1, <4>2, <2>1
    <3>2. (log \o given)[s] = given[(Len(given) - Len(todo)) + 1]
      <4>1. s \in 1..(Len(log) + Len(given)) /\ ~(s <= Len(log)) /\ s - Len(log) = (Len(given) - Len(todo)) + 1
        BY <3>1, <1>1
      <4>2. (log \o given)[s] = given[s - Len(log)]
        BY <4>1, <1>1, ConcatProperties
      <4>q. QED BY <4>1, <4>2
    <3>3. txTable'[s] = todo[1] /\ 1 \in 1..Len(todo)
      BY <2>1, <1>1, <1>2, <1>3, <1>4
    <3>q. QED BY <3>2, <3>3, <1>2
  <2>2. CASE s # txSeq + 1
    <3>1. s \in DOMAIN txTable /\ txTable'[s] = txTable[s]
      BY <2>2, <1>3
    <3>q. QED BY <3>1, <1>2
  <2>q. QED BY <2>1, <2>2
<1>8. \A s \in DOMAIN txTable' : txTable'[s] = (log' \o given')[s]
  BY <1>3, <1>7
<1>9. /\ txSeq' + Len(todo') = autoSeq' + Len(given')
      /\ Len(todo') <= Len(given') /\ Len(given') >= 1
      /\ pc' = "insert" => Len(todo') >= 1
      /\ pc' # "insert" => Len(todo') = 0
      /\ pc' # "commit"
  <2>1. Len(todo') = Len(todo) - 1 /\ txSeq' = txSeq + 1 /\ autoSeq' = autoSeq /\ Len(given') = Len(given)
    BY <1>3, <1>4
  <2>2. (pc' = "evict" /\ Len(todo) = 1) \/ (pc' = "insert" /\ Len(todo) # 1)
    BY DEF Insert
  <2>3. /\ autoSeq \in Nat /\ txSeq \in Nat /\ Len(given) \in Nat /\ Len(todo) \in Nat
        /\ txSeq + Len(todo) = autoSeq + Len(given)
        /\ Len(todo) <= Len(given) /\ Len(given) >= 1 /\ Len(todo) >= 1
    BY <1>1, <1>2
  <2>4. txSeq' + Len(todo') = autoSeq' + Len(given') /\ Len(todo') <= Len(given') /\ Len(given') >= 1
    BY <2>1, <2>3
  <2>q. QED BY <2>1, <2>2, <2>3, <2>4
<1>10. DOMAIN txTable' = Oldest'..txSeq'
  BY <1>3, <1>6
<1>q. QED BY <1>5, <1>8, <1>9, <1>10 DEF TxInv

(* A commit makes the transaction's window the committed one.               *)
LEMMA CommitWindow ==
  ASSUME StoreTypeOK, UnbrokenNewestRows, TxInv, Commit
  PROVE  /\ UnbrokenNewestRows'
         /\ Oldest' = OldestKept
         /\ autoSeq' = autoSeq + Len(given) /\ Len(given) >= 1 /\ Len(given) \in Nat
         /\ txSeq = autoSeq'
<1>1. /\ autoSeq \in Nat /\ Oldest \in Nat /\ Oldest >= 1 /\ Oldest <= autoSeq + 1
      /\ txSeq \in Nat /\ given \in Seq(Nat) /\ log \in Seq(Nat)
      /\ Len(given) \in Nat /\ Len(log) = autoSeq /\ maxRows \in Nat
  BY OldestBounds, StoreAssumption DEF StoreTypeOK, UnbrokenNewestRows
<1>2. /\ txSeq = autoSeq + Len(given) /\ Len(given) >= 1
      /\ DOMAIN txTable = OldestKept..txSeq
      /\ \A s \in DOMAIN txTable : txTable[s] = (log \o given)[s]
  <2>1. /\ Len(todo) = 0 /\ txSeq + Len(todo) = autoSeq + Len(given) /\ Len(given) >= 1
        /\ DOMAIN txTable = OldestKept..txSeq
        /\ \A s \in DOMAIN txTable : txTable[s] = (log \o given)[s]
    BY DEF TxInv, InTx, Commit
  <2>2. txSeq = autoSeq + Len(given)
    <3>1. Len(todo) = 0 /\ txSeq + Len(todo) = autoSeq + Len(given)
      BY <2>1
    <3>q. QED BY <3>1, <1>1
  <2>q. QED BY <2>1, <2>2
<1>3. table' = txTable /\ autoSeq' = txSeq /\ log' = log \o given
  BY DEF Commit
<1>4. OldestKept \in Int /\ OldestKept <= txSeq + 1
  BY <1>1, <1>2 DEF OldestKept
<1>5. Cardinality(DOMAIN table') = (txSeq + 1) - OldestKept
  BY <1>1, <1>2, <1>3, <1>4, IntervalSize
<1>6. Oldest' = (txSeq + 1) - Cardinality(DOMAIN table')
  BY <1>3 DEF Oldest
<1>7. Oldest' = OldestKept
  BY <1>1, <1>4, <1>5, <1>6
<1>8. Len(log') = autoSeq'
  <2>1. Len(log \o given) = Len(log) + Len(given)
    BY <1>1, ConcatProperties
  <2>q. QED BY <2>1, <1>1, <1>2, <1>3
<1>q. QED BY <1>1, <1>2, <1>3, <1>7, <1>8 DEF UnbrokenNewestRows

(* The window of rows and the transaction on top of it, together inductive.  *)
LEMMA TxAndRows == StoreSpec => [](TxInv /\ UnbrokenNewestRows)
<1>1. StoreInit => TxInv /\ UnbrokenNewestRows
  <2> SUFFICES ASSUME StoreInit PROVE TxInv /\ UnbrokenNewestRows
    OBVIOUS
  <2>1. DOMAIN table = {} /\ autoSeq = 0 /\ Len(log) = 0 /\ pc = "closed"
    BY DEF StoreInit, NoRows
  <2>2. Oldest = 1
    BY <2>1, FS_EmptySet DEF Oldest
  <2>q. QED BY <2>1, <2>2 DEF TxInv, InTx, UnbrokenNewestRows
<1>2. StoreTypeOK /\ StoreTypeOK' /\ TxInv /\ UnbrokenNewestRows /\ [StoreNext]_vars => TxInv' /\ UnbrokenNewestRows'
  <2> SUFFICES ASSUME StoreTypeOK, StoreTypeOK', TxInv, UnbrokenNewestRows, [StoreNext]_vars
               PROVE  TxInv' /\ UnbrokenNewestRows'
    OBVIOUS
  <2>1. CASE OpenSQLite
    BY <2>1 DEF OpenSQLite, TxInv, InTx, UnbrokenNewestRows, Oldest
  <2>2. CASE Begin
    <3> PICK n \in 1..BatchMax : given' = [i \in 1..n |-> handedIn + i]
      BY <2>2 DEF Begin
    <3>1. /\ todo' = given' /\ txTable' = table /\ txSeq' = autoSeq /\ pc' = "insert"
          /\ table' = table /\ autoSeq' = autoSeq /\ log' = log
      BY <2>2 DEF Begin
    <3>2. Len(given') = n /\ n \in Nat /\ n >= 1
      BY StoreAssumption
    <3>3. UnbrokenNewestRows' /\ Oldest' = Oldest
      BY <3>1 DEF UnbrokenNewestRows, Oldest
    <3>4. autoSeq \in Nat /\ log \in Seq(Nat) /\ given' \in Seq(Nat) /\ Len(log) = autoSeq
      BY DEF StoreTypeOK, UnbrokenNewestRows
    <3>5. ASSUME NEW s \in DOMAIN table PROVE table[s] = (log \o given')[s]
      <4>1. table[s] = log[s] /\ s \in Oldest..autoSeq
        BY DEF UnbrokenNewestRows
      <4>2. s \in 1..autoSeq
        BY <4>1, OldestBounds
      <4>q. QED BY <4>1, <4>2, <3>2, <3>4, ConcatProperties
    <3>6. DOMAIN txTable' = Oldest'..txSeq'
      BY <3>1, <3>3 DEF UnbrokenNewestRows
    <3>7. \A s \in DOMAIN txTable' : txTable'[s] = (log' \o given')[s]
      BY <3>1, <3>5
    <3>8. /\ txSeq' + Len(todo') = autoSeq' + Len(given')
          /\ Len(todo') <= Len(given') /\ Len(given') >= 1 /\ Len(todo') >= 1
          /\ \A i \in 1..Len(todo') : todo'[i] = given'[(Len(given') - Len(todo')) + i]
      BY <3>1, <3>2, <3>4
    <3>q. QED BY <3>1, <3>3, <3>6, <3>7, <3>8 DEF TxInv
  <2>3. CASE Insert
    <3>1. UnbrokenNewestRows'
      BY <2>3 DEF Insert, UnbrokenNewestRows, Oldest
    <3>q. QED BY <2>3, <3>1, InsertExtends
  <2>4. CASE Evict
    <3>1. /\ DOMAIN txTable' = OldestKept..txSeq
          /\ \A s \in DOMAIN txTable' : s \in DOMAIN txTable /\ txTable'[s] = txTable[s]
      BY <2>4, EvictCutsFront
    <3>2. /\ UnbrokenNewestRows' /\ Oldest' = Oldest /\ OldestKept' = OldestKept
          /\ txSeq' = txSeq /\ todo' = todo /\ given' = given /\ autoSeq' = autoSeq /\ log' = log
          /\ pc = "evict" /\ pc' = "commit"
      BY <2>4 DEF Evict, UnbrokenNewestRows, Oldest, OldestKept
    <3>q. QED BY <3>1, <3>2 DEF TxInv, InTx
  <2>5. CASE Commit
    <3>1. UnbrokenNewestRows'
      BY <2>5, CommitWindow
    <3>q. QED BY <2>5, <3>1 DEF Commit, TxInv, InTx
  <2>6. CASE Fail \/ CloseStore \/ UNCHANGED vars
    BY <2>6 DEF Fail, CloseStore, vars, tx, TxInv, InTx, UnbrokenNewestRows, Oldest, OldestKept
  <2>q. QED BY <2>1, <2>2, <2>3, <2>4, <2>5, <2>6 DEF StoreNext, WriteBatch
<1>q. QED BY <1>1, <1>2, StoreTypeCorrect, PTL DEF StoreSpec

(* The rows are always an unbroken run of the newest events committed.      *)
THEOREM UnbrokenNewestRowsHolds == StoreSpec => []UnbrokenNewestRows
BY TxAndRows, PTL

(* After its first commit a recorder never leaves more than its cap behind. *)
THEOREM WithinCapHolds == StoreSpec => []WithinCap
<1>1. StoreInit => WithinCap
  BY DEF StoreInit, WithinCap
<1>2. StoreTypeOK /\ TxInv /\ UnbrokenNewestRows /\ WithinCap /\ [StoreNext]_vars => WithinCap'
  <2> SUFFICES ASSUME StoreTypeOK, TxInv, UnbrokenNewestRows, WithinCap, [StoreNext]_vars PROVE WithinCap'
    OBVIOUS
  <2>1. CASE Commit
    <3>1. /\ Oldest' = OldestKept /\ txSeq = autoSeq' /\ maxRows' = maxRows
      BY <2>1, CommitWindow DEF Commit
    <3>2. Cardinality(DOMAIN table') = (autoSeq' + 1) - Oldest'
      <4>1. UnbrokenNewestRows'
        BY <2>1, CommitWindow
      <4>2. autoSeq' \in Nat /\ OldestKept \in Int /\ OldestKept <= autoSeq' + 1
        <5>1. txSeq \in Nat /\ maxRows \in Nat
          BY StoreAssumption DEF StoreTypeOK
        <5>2. Oldest \in Int /\ Oldest <= txSeq + 1
          <6>1. /\ autoSeq \in Nat /\ Oldest \in Int /\ Oldest <= autoSeq + 1
            BY OldestBounds
          <6>2. /\ txSeq = autoSeq + Len(given) /\ Len(given) \in Nat
            BY <2>1, CommitWindow
          <6>q. QED BY <6>1, <6>2
        <5>3. OldestKept \in Int
          BY <5>1, <5>2 DEF OldestKept
        <5>4. OldestKept <= txSeq + 1
          BY <5>1, <5>2 DEF OldestKept
        <5>q. QED BY <5>1, <5>3, <5>4, <3>1
      <4>3. DOMAIN table' = OldestKept..autoSeq'
        BY <4>1, <3>1 DEF UnbrokenNewestRows
      <4>4. Cardinality(OldestKept..autoSeq') = (autoSeq' + 1) - OldestKept
        <5>1. autoSeq' \in Int
          BY <4>2
        <5>q. QED BY <5>1, <4>2, IntervalSize
      <4>q. QED BY <4>3, <4>4, <3>1
    <3>q. QED BY <3>1, <3>2, OldestBounds, StoreAssumption DEF WithinCap, OldestKept, StoreTypeOK
  <2>2. CASE OpenSQLite
    BY <2>2 DEF OpenSQLite, WithinCap
  <2>3. CASE Begin \/ Insert \/ Evict \/ Fail \/ CloseStore \/ UNCHANGED vars
    BY <2>3 DEF Begin, Insert, Evict, Fail, CloseStore, vars, WithinCap
  <2>q. QED BY <2>1, <2>2, <2>3 DEF StoreNext, WriteBatch
<1>q. QED BY <1>1, <1>2, StoreTypeCorrect, TxAndRows, PTL DEF StoreSpec

(* Nothing is evicted that the cap had room for.                            *)
THEOREM EvictsOnlyForCapHolds == StoreSpec => EvictsOnlyForCap
<1> DEFINE A == ~(DOMAIN table \subseteq DOMAIN table') => Cardinality(DOMAIN table') = maxRows
<1>1. StoreTypeOK /\ TxInv /\ UnbrokenNewestRows /\ [StoreNext]_vars => [A]_vars
  <2> SUFFICES ASSUME StoreTypeOK, TxInv, UnbrokenNewestRows, [StoreNext]_vars PROVE A \/ UNCHANGED vars
    OBVIOUS
  <2>1. CASE Commit
    <3>0. /\ autoSeq \in Int /\ Oldest \in Int /\ Oldest >= 1 /\ maxRows \in Nat
          /\ Len(given) \in Nat
      BY <2>1, CommitWindow, OldestBounds, StoreAssumption DEF StoreTypeOK
    <3>1. /\ Oldest' = OldestKept /\ txSeq = autoSeq' /\ autoSeq' = autoSeq + Len(given)
      BY <2>1, CommitWindow
    <3>2. DOMAIN table = Oldest..autoSeq /\ DOMAIN table' = OldestKept..autoSeq'
      BY <2>1, <3>1, CommitWindow DEF UnbrokenNewestRows
    <3>3. CASE Oldest + maxRows > autoSeq'
      <4>1. OldestKept = Oldest
        BY <3>3, <3>1 DEF OldestKept
      <4>q. QED BY <4>1, <3>0, <3>1, <3>2
    <3>4. CASE ~(Oldest + maxRows > autoSeq')
      <4>1. OldestKept = (autoSeq' - maxRows) + 1 /\ autoSeq' \in Int
        BY <3>4, <3>0, <3>1 DEF OldestKept
      <4> DEFINE hi == autoSeq'
                 lo == (hi - maxRows) + 1
      <4>2. /\ hi \in Int /\ maxRows \in Int /\ maxRows >= 0
            /\ DOMAIN table' = lo..hi
        BY <4>1, <3>0, <3>2
      <4> HIDE DEF hi
      <4>3. lo \in Int /\ lo <= hi + 1 /\ (hi + 1) - lo = maxRows
        BY <4>2
      <4>4. Cardinality(lo..hi) = (hi + 1) - lo
        BY <4>2, <4>3, IntervalSize
      <4>q. QED BY <4>2, <4>3, <4>4
    <3>q. QED BY <3>3, <3>4
  <2>2. CASE OpenSQLite \/ Begin \/ Insert \/ Evict \/ Fail \/ CloseStore \/ UNCHANGED vars
    BY <2>2 DEF OpenSQLite, Begin, Insert, Evict, Fail, CloseStore, vars
  <2>q. QED BY <2>1, <2>2 DEF StoreNext, WriteBatch
<1>q. QED BY <1>1, StoreTypeCorrect, TxAndRows, PTL DEF StoreSpec, EvictsOnlyForCap

(* The transactions implement the ring of rows the readers count on.        *)
THEOREM StoreRefinement == StoreSpec => ImplementsRowRing
<1>1. StoreInit => Rows!RRInit
  <2> SUFFICES ASSUME StoreInit PROVE Rows!RRInit
    OBVIOUS
  <2>1. DOMAIN table = {} /\ autoSeq = 0 /\ log = <<>>
    BY DEF StoreInit, NoRows
  <2>q. QED BY <2>1, FS_EmptySet DEF Rows!RRInit, Oldest
<1>2. StoreTypeOK /\ TxInv /\ UnbrokenNewestRows /\ [StoreNext]_vars => [Rows!Write]_(Rows!rrvars)
  <2> SUFFICES ASSUME StoreTypeOK, TxInv, UnbrokenNewestRows, [StoreNext]_vars
               PROVE  Rows!Write \/ UNCHANGED <<log, Oldest>>
    BY DEF Rows!rrvars
  <2>1. CASE Commit
    <3>1. /\ Oldest' = OldestKept /\ txSeq = autoSeq' /\ Len(given) >= 1 /\ Len(given) \in Nat
          /\ Len(log') = autoSeq'
      BY <2>1, CommitWindow DEF UnbrokenNewestRows
    <3>2. log' = log \o given /\ log \in Seq(Nat) /\ given \in Seq(Nat) /\ maxRows \in Caps
      BY <2>1 DEF Commit, StoreTypeOK
    <3>3. /\ Len(log') = Len(log) + Len(given) /\ log' \in Seq(Nat) /\ Len(log) \in Nat
          /\ \A i \in 1..Len(log) : log'[i] = log[i] /\ log'[i] \in Nat
      <4>1. /\ Len(log') = Len(log) + Len(given) /\ log' \in Seq(Nat) /\ Len(log) \in Nat
            /\ \A i \in 1..(Len(log) + Len(given)) : log'[i] = IF i <= Len(log) THEN log[i] ELSE given[i - Len(log)]
        BY <3>2, ConcatProperties
      <4>2. \A i \in 1..Len(log) : log[i] \in Nat
        BY <3>2, ElementOfSeq
      <4>q. QED BY <4>1, <4>2, <3>1
    <3>4. SubSeq(log', 1, Len(log)) = log
      <4>1. /\ SubSeq(log', 1, Len(log)) \in Seq(Nat) /\ Len(SubSeq(log', 1, Len(log))) = Len(log)
            /\ \A i \in 1..Len(log) : SubSeq(log', 1, Len(log))[i] = log'[i]
        BY <3>3, SubSeqProperties
      <4>q. QED BY <4>1, <3>2, <3>3, SeqEqual
    <3>5. Oldest' = IF Oldest + maxRows > Len(log') THEN Oldest ELSE (Len(log') - maxRows) + 1
      BY <3>1 DEF OldestKept
    <3>6. Len(log) < Len(log')
      BY <3>1, <3>3
    <3>q. QED BY <3>2, <3>4, <3>5, <3>6 DEF Rows!Write
  <2>2. CASE OpenSQLite \/ Begin \/ Insert \/ Evict \/ Fail \/ CloseStore \/ UNCHANGED vars
    BY <2>2 DEF OpenSQLite, Begin, Insert, Evict, Fail, CloseStore, vars, Oldest
  <2>q. QED BY <2>1, <2>2 DEF StoreNext, WriteBatch
<1>q. QED BY <1>1, <1>2, StoreTypeCorrect, TxAndRows, PTL DEF StoreSpec, ImplementsRowRing, Rows!RRSpec
=============================================================================
