--------------------------- MODULE RolloutBufferUse ---------------------------
(***************************************************************************)
(* The rollout buffer under any use: producers put any batch, a trainer    *)
(* whose policy version moves (it may fall back, after a restart from an   *)
(* older checkpoint) gets them.  Each method runs under the buffer's lock. *)
(***************************************************************************)
EXTENDS RolloutBuffer, FiniteSets

CONSTANTS BatchIds,    \* batch ids
          MaxVersion,  \* bound on policy versions
          MaxPuts      \* bound on the batches accepted and on those found stale

VARIABLES
    buffer,    \* the buffer
    trainer,   \* the policy version the trainer passes to put and get
    accepted,  \* history: the batches put() accepted, in order
    taken,     \* history: the positions in accepted of the batches get() returned
    rejected   \* history: how many batches put() refused as stale

vars == <<buffer, trainer, accepted, taken, rejected>>

Batches == [id : BatchIds, version : 0..MaxVersion]

Init ==
    /\ buffer = EmptyBuffer
    /\ trainer = 0
    /\ accepted = <<>>
    /\ taken = {}
    /\ rejected = 0

Put(batch) ==
    LET result == PutResult(buffer, batch, trainer)
    IN  /\ Len(accepted) < MaxPuts /\ rejected < MaxPuts
        /\ buffer' = AfterPut(buffer, batch, trainer)
        /\ accepted' = IF result = "accepted" THEN Append(accepted, batch) ELSE accepted
        /\ rejected' = IF result = "stale" THEN rejected + 1 ELSE rejected
        /\ UNCHANGED <<trainer, taken>>

Removed == Len(accepted) - Len(buffer.batches)

Get ==
    /\ buffer' = AfterGet(buffer, trainer)
    /\ taken' = IF GetFinds(buffer, trainer)
                THEN taken \union {Removed + FirstFresh(buffer, trainer)} ELSE taken
    /\ UNCHANGED <<trainer, accepted, rejected>>

Move(version) == trainer' = version /\ UNCHANGED <<buffer, accepted, taken, rejected>>

Next == (\E batch \in Batches : Put(batch)) \/ Get \/ \E v \in 0..MaxVersion : Move(v)

Spec == Init /\ [][Next]_vars

-------------------------------------------------------------------------------
\* First in, first out, nothing lost: what is buffered is the tail of what was
\* accepted, with the ids that guard it against duplicates.
FifoTail ==
    /\ Removed >= 0 /\ Len(buffer.batches) <= MaxBatches
    /\ buffer.batches = SubSeq(accepted, Removed + 1, Len(accepted))
    /\ buffer.ids = {buffer.batches[k].id : k \in 1..Len(buffer.batches)}
    /\ Cardinality(buffer.ids) = Len(buffer.batches)

\* Every batch that left the buffer was either trained on or counted stale, and
\* so was every one refused as stale: the summary's stale count is exact.
StaleAccounting ==
    /\ taken \subseteq 1..Removed
    /\ buffer.stale = rejected + Removed - Cardinality(taken)

\* The trainer gets a batch at most once, in order, within the lag bound for
\* its version at that moment.
TakenInOrderAndFresh ==
    [][\A k \in taken' \ taken :
           /\ \A j \in taken : j < k
           /\ trainer - accepted[k].version \in 0..MaxPolicyLag]_vars
===============================================================================
