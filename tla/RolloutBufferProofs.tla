-------------------------- MODULE RolloutBufferProofs --------------------------
(***************************************************************************)
(* Theorems about the rollout buffer under any use, for every capacity,    *)
(* lag bound and set of batches.                                           *)
(***************************************************************************)
EXTENDS RolloutBufferUse, FiniteOrders, SequenceTheorems

Buffers == [batches : Seq(Batches), ids : SUBSET BatchIds, stale : Nat]

TypeOK ==
    /\ buffer \in Buffers
    /\ trainer \in Int
    /\ accepted \in Seq(Batches)
    /\ taken \subseteq Nat
    /\ rejected \in Nat

\* What a queue of batches holds is a tail of what was accepted.
IsTail(queue) ==
    /\ Len(queue) <= Len(accepted)
    /\ \A k \in 1..Len(queue) : queue[k] = accepted[Len(accepted) - Len(queue) + k]

\* The ids are those of the queue, and no two batches of it have the same.
IdsOf(queue) == {queue[k].id : k \in 1..Len(queue)}
Distinct(queue) == \A j, k \in 1..Len(queue) : queue[j].id = queue[k].id => j = k

\* The inductive invariant behind FifoTail and StaleAccounting.
BufferInv ==
    /\ TypeOK
    /\ Len(buffer.batches) <= MaxBatches
    /\ IsTail(buffer.batches)
    /\ buffer.ids = IdsOf(buffer.batches)
    /\ Distinct(buffer.batches)
    /\ StaleAccounting

-------------------------------------------------------------------------------
\* When there is a fresh batch, get() finds the first one.
LEMMA FirstFreshExists ==
    ASSUME NEW buf \in Buffers, NEW version \in Int, GetFinds(buf, version)
    PROVE  /\ FirstFresh(buf, version) \in 1..Len(buf.batches)
           /\ Fresh(buf.batches[FirstFresh(buf, version)], version)
<1>1. Len(buf.batches) \in Nat
    BY DEF Buffers
<1>2. /\ FreshPositions(buf, version) \in SUBSET Int
      /\ FreshPositions(buf, version) \in SUBSET (1..Len(buf.batches))
    BY DEF FreshPositions
<1>3. IsFiniteSet(FreshPositions(buf, version))
    <2>1. IsFiniteSet(1..Len(buf.batches))
        BY <1>1, FS_Interval
    <2> QED
        BY <1>2, <2>1, FS_Subset
<1>4. \E k \in FreshPositions(buf, version) : \A j \in FreshPositions(buf, version) : k <= j
    BY <1>2, <1>3, MinExists DEF GetFinds
<1>5. FirstFresh(buf, version) \in FreshPositions(buf, version)
    BY <1>4 DEF FirstFresh
<1> QED
    BY <1>5 DEF FreshPositions

\* The buffer starts empty.
LEMMA BufferInit == Init => BufferInv
<1> SUFFICES ASSUME Init PROVE BufferInv
    OBVIOUS
<1>1. TypeOK
    BY DEF Init, TypeOK, Buffers, EmptyBuffer
<1>2. Len(buffer.batches) = 0 /\ Len(accepted) = 0 /\ buffer.ids = {}
    BY DEF Init, EmptyBuffer
<1>3. IsTail(buffer.batches) /\ buffer.ids = IdsOf(buffer.batches) /\ Distinct(buffer.batches)
    BY <1>2 DEF IsTail, IdsOf, Distinct
<1>4. StaleAccounting
    <2>1. Cardinality(taken) = 0 /\ taken = {}
        BY FS_EmptySet DEF Init
    <2> QED
        BY <1>2, <2>1 DEF StaleAccounting, Removed, Init, EmptyBuffer
<1> QED
    BY <1>1, <1>2, <1>3, <1>4, BufferAssumption DEF BufferInv

\* put() adds an id it does not hold to the end, or counts a stale batch.
LEMMA PutStep ==
    ASSUME BufferInv, NEW batch \in Batches, Put(batch)
    PROVE  BufferInv'
<1> DEFINE queue == buffer.batches
           result == PutResult(buffer, batch, trainer)
<1>1. /\ queue \in Seq(Batches) /\ buffer.ids \subseteq BatchIds /\ buffer.stale \in Nat
      /\ accepted \in Seq(Batches) /\ rejected \in Nat /\ trainer \in Int /\ taken \subseteq Nat
      /\ Len(queue) \in Nat /\ Len(accepted) \in Nat
    BY DEF BufferInv, TypeOK, Buffers
<1>2. MaxBatches \in Nat
    BY BufferAssumption
<1>3. CASE result = "accepted"
    <2>1. Len(queue) < MaxBatches /\ batch.id \notin buffer.ids
        BY <1>1, <1>2, <1>3 DEF PutResult
    <2>2. /\ buffer' = [batches |-> Append(queue, batch), ids |-> buffer.ids \union {batch.id},
                        stale |-> buffer.stale]
          /\ accepted' = Append(accepted, batch)
          /\ UNCHANGED <<trainer, taken, rejected>>
        BY <1>3 DEF Put, AfterPut, BufferInv, TypeOK, Buffers
    <2>3. TypeOK'
        BY <1>1, <2>2 DEF TypeOK, Buffers, Batches
    <2>4. /\ buffer'.batches = Append(queue, batch) /\ buffer'.ids = buffer.ids \union {batch.id}
          /\ buffer'.stale = buffer.stale
          /\ Len(buffer'.batches) = Len(queue) + 1 /\ Len(accepted') = Len(accepted) + 1
        BY <1>1, <2>2
    <2>5. /\ \A k \in 1..Len(queue) : buffer'.batches[k] = queue[k]
          /\ buffer'.batches[Len(queue) + 1] = batch
          /\ \A k \in 1..Len(accepted) : accepted'[k] = accepted[k]
          /\ accepted'[Len(accepted) + 1] = batch
        BY <1>1, <2>2, <2>4
    <2>6. IsTail(buffer.batches)'
        <3>1. /\ Len(queue) <= Len(accepted)
              /\ \A k \in 1..Len(queue) : queue[k] = accepted[Len(accepted) - Len(queue) + k]
            BY DEF BufferInv, IsTail
        <3>2. ASSUME NEW k \in 1..(Len(queue) + 1)
              PROVE  buffer'.batches[k] = accepted'[Len(accepted) - Len(queue) + k]
            <4>1. CASE k = Len(queue) + 1
                BY <1>1, <2>5, <4>1
            <4>2. CASE k # Len(queue) + 1
                <5>1. k \in 1..Len(queue) /\ Len(accepted) - Len(queue) + k \in 1..Len(accepted)
                    BY <1>1, <3>1, <4>2
                <5> QED
                    BY <2>5, <3>1, <5>1
            <4> QED
                BY <4>1, <4>2
        <3>3. Len(accepted') - Len(buffer'.batches) = Len(accepted) - Len(queue)
            BY <1>1, <2>4
        <3>4. Len(buffer'.batches) <= Len(accepted') /\ Len(buffer'.batches) = Len(queue) + 1
            BY <1>1, <2>4, <3>1
        <3>5. \A k \in 1..Len(buffer'.batches) :
                  buffer'.batches[k] = accepted'[Len(accepted') - Len(buffer'.batches) + k]
            BY <3>2, <3>3, <3>4
        <3> QED
            BY <3>4, <3>5 DEF IsTail
    <2>7. (buffer.ids = IdsOf(buffer.batches))'
        <3>1. buffer.ids = {queue[k].id : k \in 1..Len(queue)}
            BY DEF BufferInv, IdsOf
        <3>2. 1..(Len(queue) + 1) = 1..Len(queue) \union {Len(queue) + 1}
            BY <1>1
        <3>3. {buffer'.batches[k].id : k \in 1..Len(queue)} = {queue[k].id : k \in 1..Len(queue)}
            BY <2>5
        <3>4. {buffer'.batches[k].id : k \in 1..(Len(queue) + 1)} =
                  {buffer'.batches[k].id : k \in 1..Len(queue)} \union {buffer'.batches[Len(queue) + 1].id}
            BY <3>2
        <3>5. IdsOf(buffer'.batches) = buffer.ids \union {batch.id}
            BY <2>4, <2>5, <3>1, <3>3, <3>4 DEF IdsOf
        <3> QED
            BY <2>4, <3>5
    <2>8. Distinct(buffer.batches)'
        <3>1. \A k \in 1..Len(queue) : queue[k].id # batch.id
            BY <2>1 DEF BufferInv, IdsOf
        <3>2. \A k, j \in 1..Len(queue) : k # j => queue[k].id # queue[j].id
            BY DEF BufferInv, Distinct
        <3>3. \A k \in 1..(Len(queue) + 1) : k \in 1..Len(queue) \/ k = Len(queue) + 1
            BY <1>1
        <3> QED
            BY <2>4, <2>5, <3>1, <3>2, <3>3 DEF Distinct
    <2>9. StaleAccounting'
        <3>1. Removed' = Removed
            BY <1>1, <2>4 DEF Removed
        <3>2. taken' = taken /\ rejected' = rejected
            BY <2>2
        <3> QED
            BY <2>4, <3>1, <3>2 DEF BufferInv, StaleAccounting
    <2> QED
        BY <1>1, <1>2, <2>1, <2>3, <2>4, <2>6, <2>7, <2>8, <2>9 DEF BufferInv
<1>4. CASE result = "stale"
    <2>1. /\ buffer' = [batches |-> queue, ids |-> buffer.ids, stale |-> buffer.stale + 1]
          /\ rejected' = rejected + 1
          /\ UNCHANGED <<trainer, taken, accepted>>
        BY <1>4 DEF Put, AfterPut, BufferInv, TypeOK, Buffers
    <2>2. buffer'.batches = queue /\ buffer'.ids = buffer.ids /\ buffer'.stale = buffer.stale + 1
        BY <2>1
    <2>3. TypeOK'
        BY <1>1, <2>1 DEF TypeOK, Buffers
    <2>4. StaleAccounting'
        <3>1. taken \subseteq 1..Removed /\ Removed \in Int /\ Removed' = Removed
            BY <1>1, <2>1, <2>2 DEF BufferInv, StaleAccounting, Removed
        <3>2. Cardinality(taken) \in Nat
            <4>1. IsFiniteSet(1..Removed)
                BY <3>1, FS_Interval
            <4> QED
                BY <3>1, <4>1, FS_Subset, FS_CardinalityType
        <3> QED
            BY <1>1, <2>1, <2>2, <3>1, <3>2 DEF BufferInv, StaleAccounting
    <2> QED
        BY <2>1, <2>2, <2>3, <2>4 DEF BufferInv, IsTail, IdsOf, Distinct
<1>5. CASE result \notin {"accepted", "stale"}
    <2>1. UNCHANGED <<buffer, trainer, accepted, taken, rejected>>
        BY <1>5 DEF Put, AfterPut
    <2> QED
        BY <2>1 DEF BufferInv, TypeOK, IsTail, IdsOf, Distinct, StaleAccounting, Removed
<1> QED
    BY <1>3, <1>4, <1>5

\* What get() does to the queue: it loses a prefix, whose last batch is the one
\* that is returned if there is one.
LEMMA GetEffect ==
    ASSUME BufferInv, Get
    PROVE  \E gone \in 0..Len(buffer.batches) :
               /\ buffer'.batches = SubSeq(buffer.batches, gone + 1, Len(buffer.batches))
               /\ buffer'.ids = buffer.ids \ {buffer.batches[k].id : k \in 1..gone}
               /\ buffer' = [batches |-> buffer'.batches, ids |-> buffer'.ids, stale |-> buffer'.stale]
               /\ \/ /\ buffer'.stale = buffer.stale + gone
                     /\ taken' = taken
                  \/ /\ gone > 0 /\ Fresh(buffer.batches[gone], trainer)
                     /\ buffer'.stale = buffer.stale + (gone - 1)
                     /\ taken' = taken \union {Removed + gone}
<1>1. buffer \in Buffers /\ trainer \in Int /\ Len(buffer.batches) \in Nat
    BY DEF BufferInv, TypeOK, Buffers
<1>2. CASE GetFinds(buffer, trainer)
    <2> DEFINE first == FirstFresh(buffer, trainer)
    <2>1. first \in 1..Len(buffer.batches) /\ Fresh(buffer.batches[first], trainer)
        BY <1>1, <1>2, FirstFreshExists
    <2>2. buffer' = [batches |-> SubSeq(buffer.batches, first + 1, Len(buffer.batches)),
                     ids |-> buffer.ids \ {buffer.batches[k].id : k \in 1..first},
                     stale |-> buffer.stale + (first - 1)]
        BY <1>2 DEF Get, AfterGet
    <2>3. taken' = taken \union {Removed + first}
        BY <1>2 DEF Get
    <2> HIDE DEF first
    <2>4. first \in 0..Len(buffer.batches) /\ first > 0
        BY <1>1, <2>1
    <2> QED
        BY <2>1, <2>2, <2>3, <2>4
<1>3. CASE ~GetFinds(buffer, trainer)
    <2>1. buffer' = [batches |-> SubSeq(buffer.batches, Len(buffer.batches) + 1, Len(buffer.batches)),
                     ids |-> buffer.ids \ {buffer.batches[k].id : k \in 1..Len(buffer.batches)},
                     stale |-> buffer.stale + Len(buffer.batches)]
        BY <1>3 DEF Get, AfterGet
    <2>2. taken' = taken
        BY <1>3 DEF Get
    <2>3. Len(buffer.batches) \in 0..Len(buffer.batches)
        BY <1>1
    <2> QED
        BY <2>1, <2>2, <2>3
<1> QED
    BY <1>2, <1>3

\* get() leaves a shorter tail, its ids, and an exact count.
LEMMA GetStep == ASSUME BufferInv, Get PROVE BufferInv'
<1>1. PICK gone \in 0..Len(buffer.batches) :
               /\ buffer'.batches = SubSeq(buffer.batches, gone + 1, Len(buffer.batches))
               /\ buffer'.ids = buffer.ids \ {buffer.batches[k].id : k \in 1..gone}
               /\ buffer' = [batches |-> buffer'.batches, ids |-> buffer'.ids, stale |-> buffer'.stale]
               /\ \/ /\ buffer'.stale = buffer.stale + gone
                     /\ taken' = taken
                  \/ /\ gone > 0 /\ Fresh(buffer.batches[gone], trainer)
                     /\ buffer'.stale = buffer.stale + (gone - 1)
                     /\ taken' = taken \union {Removed + gone}
    BY GetEffect
<1>a. \/ buffer'.stale = buffer.stale + gone /\ taken' = taken
      \/ /\ gone > 0 /\ buffer'.stale = buffer.stale + (gone - 1)
         /\ taken' = taken \union {Removed + gone}
    BY <1>1
<1>2. UNCHANGED <<trainer, accepted, rejected>>
    BY DEF Get
<1>3. PICK queue \in Seq(Batches) : queue = buffer.batches
    BY DEF BufferInv, TypeOK, Buffers
<1>4. /\ buffer.ids \subseteq BatchIds /\ buffer.stale \in Nat /\ MaxBatches \in Nat
      /\ accepted \in Seq(Batches) /\ rejected \in Nat /\ trainer \in Int /\ taken \subseteq Nat
      /\ Len(queue) \in Nat /\ Len(accepted) \in Nat /\ gone \in Nat /\ gone <= Len(queue)
    BY <1>1, <1>3, BufferAssumption DEF BufferInv, TypeOK, Buffers
<1>5. Removed \in Nat /\ taken \subseteq 1..Removed
    BY <1>3, <1>4 DEF BufferInv, IsTail, Removed, StaleAccounting
<1>6. PICK left \in Seq(Batches) :
         /\ left = buffer'.batches
         /\ Len(left) = Len(queue) - gone
         /\ \A k \in 1..Len(left) : left[k] = queue[gone + k]
    <2> DEFINE rest == SubSeq(queue, gone + 1, Len(queue))
    <2>1. /\ gone + 1 \in Int /\ Len(queue) \in Int
          /\ \A k \in (gone + 1)..Len(queue) : queue[k] \in Batches
        BY <1>4, ElementOfSeq
    <2>2. /\ rest \in Seq(Batches)
          /\ Len(rest) = IF gone + 1 <= Len(queue) THEN Len(queue) - (gone + 1) + 1 ELSE 0
          /\ \A k \in 1..(Len(queue) - (gone + 1) + 1) : rest[k] = queue[gone + 1 + k - 1]
        BY <2>1, SubSeqProperties
    <2>3. rest = buffer'.batches
        BY <1>1, <1>3
    <2> HIDE DEF rest
    <2>4. Len(rest) = Len(queue) - gone
        BY <1>4, <2>2
    <2>5. \A k \in 1..Len(rest) : rest[k] = queue[gone + k]
        BY <1>4, <2>2, <2>4
    <2> QED
        BY <2>2, <2>3, <2>4, <2>5
<1>7. /\ Len(left) = Len(queue) - gone
      /\ \A k \in 1..Len(left) : left[k] = queue[gone + k]
    BY <1>6
<1>8. Removed' = Removed + gone
    BY <1>2, <1>3, <1>4, <1>6, <1>7 DEF Removed
<1>9. TypeOK'
    <2>1. buffer'.stale \in Nat
        BY <1>4, <1>a
    <2>2. taken' \subseteq Nat
        <3>1. Removed + gone \in Nat
            BY <1>4, <1>5
        <3> QED
            BY <1>4, <1>a, <3>1
    <2> QED
        BY <1>1, <1>2, <1>4, <1>6, <2>1, <2>2 DEF TypeOK, Buffers
<1>10. IsTail(buffer.batches)'
    <2>1. /\ Len(queue) <= Len(accepted)
          /\ \A k \in 1..Len(queue) : queue[k] = accepted[Len(accepted) - Len(queue) + k]
        BY <1>3 DEF BufferInv, IsTail
    <2>2. ASSUME NEW k \in 1..Len(left)
          PROVE  left[k] = accepted[Len(accepted) - Len(left) + k]
        <3>1. gone + k \in 1..Len(queue)
            BY <1>4, <1>7
        <3>2. Len(accepted) - Len(queue) + (gone + k) = Len(accepted) - Len(left) + k
            BY <1>4, <1>7
        <3> QED
            BY <1>7, <2>1, <3>1, <3>2
    <2>3. Len(left) <= Len(accepted)
        BY <1>4, <1>7, <2>1
    <2> QED
        BY <1>2, <1>6, <2>2, <2>3 DEF IsTail
<1>11. Distinct(left)
    <2>1. Distinct(queue)
        BY <1>3 DEF BufferInv
    <2>2. \A k \in 1..Len(left) : gone + k \in 1..Len(queue)
        BY <1>4, <1>7
    <2>3. \A j, k \in 1..Len(left) : gone + j = gone + k => j = k
        BY <1>4
    <2>4. \A k \in 1..Len(left) : left[k].id = queue[gone + k].id
        BY <1>7
    <2>5. ASSUME NEW j \in 1..Len(left), NEW k \in 1..Len(left), left[j].id = left[k].id
          PROVE  j = k
        <3>1. /\ gone + j \in 1..Len(queue) /\ gone + k \in 1..Len(queue)
              /\ queue[gone + j].id = queue[gone + k].id
            BY <2>2, <2>4, <2>5
        <3>2. \A m, n \in 1..Len(queue) : queue[m].id = queue[n].id => m = n
            BY <2>1 DEF Distinct
        <3>3. gone + j = gone + k
            BY <3>1, <3>2
        <3> QED
            BY <2>3, <3>3
    <2> QED
        BY <2>5 DEF Distinct
<1>12. buffer'.ids = IdsOf(left)
    <2>1. buffer.ids = IdsOf(queue) /\ Distinct(queue)
        BY <1>3 DEF BufferInv
    <2>2. buffer'.ids = IdsOf(queue) \ {queue[k].id : k \in 1..gone}
        BY <1>1, <1>3, <2>1
    <2>3. ASSUME NEW k \in 1..Len(left) PROVE left[k].id \in buffer'.ids
        <3>1. gone + k \in 1..Len(queue) /\ left[k] = queue[gone + k]
            BY <1>4, <1>7
        <3>2. \A j \in 1..gone : j \in 1..Len(queue) /\ j # gone + k
            BY <1>4
        <3> QED
            BY <2>1, <2>2, <3>1, <3>2 DEF IdsOf, Distinct
    <2>4. ASSUME NEW x \in buffer'.ids PROVE x \in IdsOf(left)
        <3>1. PICK j \in 1..Len(queue) : x = queue[j].id
            BY <2>2, <2>4 DEF IdsOf
        <3>2. j \notin 1..gone
            BY <2>2, <2>4, <3>1
        <3>3. j - gone \in 1..Len(left) /\ left[j - gone] = queue[j]
            BY <1>4, <1>7, <3>2
        <3> QED
            BY <3>1, <3>3 DEF IdsOf
    <2> QED
        BY <2>3, <2>4 DEF IdsOf
<1>13. StaleAccounting'
    <2>1. IsFiniteSet(taken) /\ Cardinality(taken) \in Nat
        <3>1. IsFiniteSet(1..Removed)
            BY <1>5, FS_Interval
        <3> QED
            BY <1>5, <3>1, FS_Subset, FS_CardinalityType
    <2>2. buffer.stale = rejected + Removed - Cardinality(taken)
        BY DEF BufferInv, StaleAccounting
    <2>3. taken' \subseteq 1..Removed'
        <3>1. \A k \in 1..Removed : k \in 1..Removed'
            BY <1>4, <1>5, <1>8
        <3>2. gone > 0 => Removed + gone \in 1..Removed'
            BY <1>4, <1>5, <1>8
        <3> QED
            BY <1>5, <1>a, <3>1, <3>2
    <2>c. ASSUME buffer'.stale = rejected + (Removed + gone) - Cardinality(taken') PROVE StaleAccounting'
        BY <1>2, <1>8, <2>3, <2>c DEF StaleAccounting
    <2>4. CASE buffer'.stale = buffer.stale + gone /\ taken' = taken
        <3>1. buffer'.stale = rejected + (Removed + gone) - Cardinality(taken)
            BY <1>4, <1>5, <2>1, <2>2, <2>4
        <3> QED
            BY <2>4, <2>c, <3>1
    <2>5. CASE /\ gone > 0 /\ buffer'.stale = buffer.stale + (gone - 1)
               /\ taken' = taken \union {Removed + gone}
        <3>1. Removed + gone \notin taken
            BY <1>4, <1>5, <2>5
        <3>2. Cardinality(taken') = Cardinality(taken) + 1
            BY <2>1, <2>5, <3>1, FS_AddElement
        <3>3. buffer'.stale = rejected + (Removed + gone) - (Cardinality(taken) + 1)
            BY <1>4, <1>5, <2>1, <2>2, <2>5
        <3> QED
            BY <2>c, <3>2, <3>3
    <2> QED
        BY <1>a, <2>4, <2>5
<1>14. Len(buffer'.batches) <= MaxBatches
    BY <1>3, <1>4, <1>6, <1>7 DEF BufferInv
<1>15. (buffer.ids = IdsOf(buffer.batches))' /\ Distinct(buffer.batches)'
    BY <1>6, <1>11, <1>12 DEF Distinct, IdsOf
<1> QED
    BY <1>9, <1>10, <1>13, <1>14, <1>15 DEF BufferInv

\* Whatever producers and trainer do, the invariant stays.
LEMMA BufferNext == BufferInv /\ [Next]_vars => BufferInv'
<1> SUFFICES ASSUME BufferInv, [Next]_vars PROVE BufferInv'
    OBVIOUS
<1>1. ASSUME NEW batch \in Batches, Put(batch) PROVE BufferInv'
    BY <1>1, PutStep
<1>2. CASE Get
    BY <1>2, GetStep
<1>3. ASSUME NEW v \in 0..MaxVersion, Move(v) PROVE BufferInv'
    <2>1. UNCHANGED <<buffer, accepted, taken, rejected>> /\ trainer' \in Int
        BY <1>3 DEF Move
    <2> QED
        BY <2>1 DEF BufferInv, TypeOK, IsTail, IdsOf, Distinct, StaleAccounting, Removed
<1>4. CASE UNCHANGED vars
    BY <1>4 DEF vars, BufferInv, TypeOK, IsTail, IdsOf, Distinct, StaleAccounting, Removed
<1> QED
    BY <1>1, <1>2, <1>3, <1>4 DEF Next

\* The invariant says what FifoTail says: distinct ids are as many as batches.
LEMMA InvGivesFifo == BufferInv => FifoTail
<1> SUFFICES ASSUME BufferInv PROVE FifoTail
    OBVIOUS
<1>1. PICK queue \in Seq(Batches) : queue = buffer.batches
    BY DEF BufferInv, TypeOK, Buffers
<1>2. /\ accepted \in Seq(Batches) /\ Len(accepted) \in Nat /\ Len(queue) \in Nat
      /\ Len(queue) <= Len(accepted)
      /\ \A k \in 1..Len(queue) : queue[k] = accepted[Len(accepted) - Len(queue) + k]
    <2>1. accepted \in Seq(Batches) /\ IsTail(queue)
        BY <1>1 DEF BufferInv, TypeOK
    <2> QED
        BY <2>1 DEF IsTail
<1>3. Removed = Len(accepted) - Len(queue) /\ Removed \in Nat
    BY <1>1, <1>2 DEF Removed
<1>4. queue = SubSeq(accepted, Removed + 1, Len(accepted))
    <2> DEFINE tail == SubSeq(accepted, Removed + 1, Len(accepted))
    <2>1. /\ Removed + 1 \in Int /\ Len(accepted) \in Int
          /\ \A k \in (Removed + 1)..Len(accepted) : accepted[k] \in Batches
        BY <1>2, <1>3, ElementOfSeq
    <2>2. /\ tail \in Seq(Batches)
          /\ Len(tail) = IF Removed + 1 <= Len(accepted) THEN Len(accepted) - (Removed + 1) + 1 ELSE 0
          /\ \A k \in 1..(Len(accepted) - (Removed + 1) + 1) : tail[k] = accepted[Removed + 1 + k - 1]
        BY <2>1, SubSeqProperties
    <2> HIDE DEF tail
    <2>3. Len(tail) = Len(queue)
        BY <1>2, <1>3, <2>2
    <2>4. \A k \in 1..Len(queue) : queue[k] = tail[k]
        <3> TAKE k \in 1..Len(queue)
        <3>1. /\ Removed + 1 + k - 1 = Len(accepted) - Len(queue) + k
              /\ k \in 1..(Len(accepted) - (Removed + 1) + 1)
            BY <1>2, <1>3
        <3> QED
            BY <1>2, <2>2, <3>1
    <2>5. queue = tail
        BY <2>2, <2>3, <2>4, SeqEqual
    <2> QED
        BY <2>5 DEF tail
<1>5. Cardinality(buffer.ids) = Len(queue)
    <2> DEFINE id == [k \in 1..Len(queue) |-> queue[k].id]
    <2>1. id \in Bijection(1..Len(queue), buffer.ids)
        BY <1>1 DEF BufferInv, IdsOf, Distinct, Bijection, Injection, Surjection, IsInjective
    <2>2. IsFiniteSet(1..Len(queue)) /\ Cardinality(1..Len(queue)) = Len(queue)
        <3>1. 1 \in Int /\ Len(queue) \in Int
            BY <1>2
        <3>2. /\ IsFiniteSet(1..Len(queue))
              /\ Cardinality(1..Len(queue)) = IF 1 > Len(queue) THEN 0 ELSE Len(queue) - 1 + 1
            BY <3>1, FS_Interval
        <3> QED
            BY <1>2, <3>2
    <2> QED
        BY <2>1, <2>2, FS_Bijection DEF ExistsBijection
<1> QED
    <2>1. Len(queue) <= MaxBatches /\ buffer.ids = {queue[k].id : k \in 1..Len(queue)} /\ Removed >= 0
        BY <1>1, <1>3 DEF BufferInv, IdsOf
    <2> QED
        BY <1>1, <1>4, <1>5, <2>1 DEF FifoTail

\* First in, first out, with distinct ids and within the capacity, for every
\* sequence of put(), get() and moves of the trainer's version.
THEOREM BufferIsFifo == Spec => []FifoTail
BY BufferInit, BufferNext, InvGivesFifo, PTL DEF Spec

\* The summary's count of stale batches is exact: nothing leaves the buffer but
\* to be trained on or to be counted, once.
THEOREM StaleCountIsExact == Spec => []StaleAccounting
<1>1. BufferInv => StaleAccounting
    BY DEF BufferInv
<1> QED
    BY <1>1, BufferInit, BufferNext, PTL DEF Spec

\* A batch that get() returns is newer than all it returned before, and fresh.
LEMMA TakenStep ==
    BufferInv /\ [Next]_vars =>
        \A k \in taken' \ taken : /\ \A j \in taken : j < k
                                  /\ trainer - accepted[k].version \in 0..MaxPolicyLag
<1> SUFFICES ASSUME BufferInv, [Next]_vars, NEW k \in taken' \ taken
             PROVE  (\A j \in taken : j < k) /\ trainer - accepted[k].version \in 0..MaxPolicyLag
    OBVIOUS
<1>1. Get
    BY DEF Next, Put, Move, vars
<1>2. PICK gone \in 0..Len(buffer.batches) :
            gone > 0 /\ Fresh(buffer.batches[gone], trainer) /\ k = Removed + gone
    BY <1>1, GetEffect
<1>3. Removed = Len(accepted) - Len(buffer.batches) /\ Removed \in Nat /\ taken \subseteq 1..Removed
    BY DEF BufferInv, TypeOK, Buffers, IsTail, Removed, StaleAccounting
<1>4. buffer.batches[gone] = accepted[k]
    BY <1>2, <1>3 DEF BufferInv, TypeOK, Buffers, IsTail
<1> QED
    <2>1. trainer - accepted[k].version \in 0..MaxPolicyLag
        BY <1>2, <1>4 DEF Fresh, Lag
    <2>2. \A j \in taken : j < k
        <3> TAKE j \in taken
        <3>1. /\ j \in Int /\ j <= Removed /\ Removed \in Int
              /\ gone \in Int /\ gone > 0 /\ k = Removed + gone
            BY <1>2, <1>3
        <3> QED
            BY <3>1
    <2> QED
        BY <2>1, <2>2

\* The trainer gets each batch at most once, in the order of put(), and within
\* the lag bound for the version it has at that moment.
THEOREM TakenOnceInOrder == Spec => TakenInOrderAndFresh
BY BufferInit, BufferNext, TakenStep, PTL DEF Spec, TakenInOrderAndFresh
===============================================================================
