---------------------------- MODULE RolloutBuffer ----------------------------
(***************************************************************************)
(* BoundedRolloutBuffer (router/rl/buffer.py) as operators on its value: a *)
(* FIFO of batches, the ids it believes it holds and the batches it has    *)
(* counted stale.  A batch is any record with an id and the version of the *)
(* policy that generated it; payloads and token counts are left out.       *)
(***************************************************************************)
EXTENDS Integers, Sequences

CONSTANTS MaxBatches,   \* max_batches
          MaxPolicyLag  \* max_policy_lag

\* The constructor's check.
ASSUME BufferAssumption == MaxBatches \in Nat \ {0} /\ MaxPolicyLag \in Nat

EmptyBuffer == [batches |-> <<>>, ids |-> {}, stale |-> 0]

Lag(batch, version) == version - batch.version
\* Mutant: a batch from a later policy passes for fresh.
FreshIfNotOld(batch, version) == Lag(batch, version) <= MaxPolicyLag
Fresh(batch, version) == Lag(batch, version) \in 0..MaxPolicyLag

\* What put() answers, in the order of its checks.
PutResult(buffer, batch, version) ==
    CASE Lag(batch, version) < 0 -> "future"
      [] Lag(batch, version) > MaxPolicyLag -> "stale"
      [] batch.id \in buffer.ids -> "duplicate"
      [] Len(buffer.batches) >= MaxBatches -> "full"
      [] OTHER -> "accepted"

AfterPut(buffer, batch, version) ==
    LET result == PutResult(buffer, batch, version)
    IN  IF result = "accepted"
        THEN [buffer EXCEPT !.batches = Append(@, batch), !.ids = @ \union {batch.id}]
        ELSE IF result = "stale" THEN [buffer EXCEPT !.stale = @ + 1] ELSE buffer

\* get() drops the batches before the first fresh one, and takes that one.
FreshPositions(buffer, version) ==
    {k \in 1..Len(buffer.batches) : Fresh(buffer.batches[k], version)}

FirstFresh(buffer, version) ==
    CHOOSE k \in FreshPositions(buffer, version) :
        \A j \in FreshPositions(buffer, version) : k <= j

GetFinds(buffer, version) == FreshPositions(buffer, version) # {}
GetResult(buffer, version) == buffer.batches[FirstFresh(buffer, version)]

\* Mutants: the ids of dropped batches stay, or the batch taken counts as stale.
GetKeepsDroppedIds(buffer, version) ==
    LET found == GetFinds(buffer, version)
        removed == IF found THEN FirstFresh(buffer, version) ELSE Len(buffer.batches)
    IN  [batches |-> SubSeq(buffer.batches, removed + 1, Len(buffer.batches)),
         ids |-> IF found THEN buffer.ids \ {buffer.batches[removed].id} ELSE buffer.ids,
         stale |-> buffer.stale + (IF found THEN removed - 1 ELSE removed)]
GetCountsTaken(buffer, version) ==
    LET removed == IF GetFinds(buffer, version)
                   THEN FirstFresh(buffer, version) ELSE Len(buffer.batches)
    IN  [batches |-> SubSeq(buffer.batches, removed + 1, Len(buffer.batches)),
         ids |-> buffer.ids \ {buffer.batches[k].id : k \in 1..removed},
         stale |-> buffer.stale + removed]

AfterGet(buffer, version) ==
    LET found == GetFinds(buffer, version)
        removed == IF found THEN FirstFresh(buffer, version) ELSE Len(buffer.batches)
    IN  [batches |-> SubSeq(buffer.batches, removed + 1, Len(buffer.batches)),
         ids |-> buffer.ids \ {buffer.batches[k].id : k \in 1..removed},
         stale |-> buffer.stale + (IF found THEN removed - 1 ELSE removed)]
==============================================================================
