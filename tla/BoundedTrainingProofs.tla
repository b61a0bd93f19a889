------------------------ MODULE BoundedTrainingProofs ------------------------
(***************************************************************************)
(* Theorems about BoundedTraining for any number of rollouts, any lag      *)
(* bound train() accepts and any number of faults: what is trained on is   *)
(* what the loop and the labels say, and nothing straddles an update.      *)
(***************************************************************************)
EXTENDS BoundedTraining, FiniteSetTheorems, TLAPS

-------------------------------------------------------------------------------
\* The driver after it has trained the rollout of its loop, and after the
\* update that follows.
HasTrained == {"collect", "update", "put", "fallback", "next"}
HasUpdated == {"put", "fallback", "next"}
InLoop == Steps \ {"finally", "disposed", "leaked"}

\* The version and the batches trained follow from the place in the loop.
Progress ==
    pc \in InLoop =>
        /\ rollout >= StartRollout
        /\ pc \notin {"setup", "push"} => rollout < NumRollout
        /\ pc \in {"setup", "push", "first"} => rollout = StartRollout
        /\ pc \in {"put", "fallback"} => rollout + 1 < NumRollout
        /\ version = FirstVersion + (rollout - StartRollout) + (IF pc \in HasUpdated THEN 1 ELSE 0)
        /\ Len(trained) = rollout - StartRollout + (IF pc \in HasTrained THEN 1 ELSE 0)

\* A generation is of the current version and of the rollout the driver waits
\* for; once an engine has changed under it the engines differ from it.
GenerationInv ==
    generation # NoBatch =>
        /\ pc \in {"first", "fallback", "train", "collect", "finally"}
        /\ generation.version = version
        /\ pc = "first" => generation.id = rollout
        /\ pc \in {"fallback", "train", "collect"} => generation.id = rollout + 1
        /\ pc \in {"train", "collect"} => MaxPolicyLag = 1
        /\ generation.touched => engines # version

\* A batch that may be trained on at a version.
TrueBatch(b, id, v) == b \in Batches /\ b.id = id /\ ~b.touched /\ Fresh(b, v)

\* The buffer holds the batch of the rollout the loop is about to consume, and
\* nothing otherwise.
Holds(id) == /\ Len(buffer.batches) = 1 /\ TrueBatch(buffer.batches[1], id, version)
             /\ buffer.ids = {id}
HoldsNothing == buffer.batches = <<>> /\ buffer.ids = {}
BufferInv ==
    /\ pc \in InLoop \ {"consume", "next"} => HoldsNothing
    /\ pc = "consume" => Holds(rollout)
    /\ pc = "next" => IF rollout + 1 < NumRollout THEN Holds(rollout + 1) ELSE HoldsNothing

\* The batch taken, and the prefetched one before and after the update.
BatchInv ==
    /\ pc \in {"prefetch", "train"} => TrueBatch(batch, rollout, version)
    /\ pc = "train" => prefetched = NoBatch
    /\ pc = "collect" => generation # NoBatch
    /\ pc \in {"update", "put"} /\ prefetched # NoBatch =>
          /\ prefetched.id = rollout + 1 /\ ~prefetched.touched /\ MaxPolicyLag = 1
          /\ version - prefetched.version = IF pc = "put" THEN 1 ELSE 0

\* Everything trained so far.
TrainedInv ==
    \A k \in 1..Len(trained) :
        /\ trained[k].rollout = StartRollout + k - 1
        /\ trained[k].at = FirstVersion + k - 1
        /\ TrueBatch(trained[k].batch, trained[k].rollout, trained[k].at)

LoopInv == TypeOK /\ Progress /\ GenerationInv /\ BufferInv /\ BatchInv /\ TrainedInv
-------------------------------------------------------------------------------
\* The buffer of one slot, empty and full.
Buffers == [batches : Seq(Batches), ids : SUBSET Ids, stale : Nat]

LEMMA PutIntoEmpty ==
    ASSUME NEW buf \in Buffers, buf.batches = <<>>, buf.ids = {}, NEW b \in Batches, NEW v \in Nat
    PROVE  /\ PutResult(buf, b, v) = "accepted" <=> Fresh(b, v)
           /\ PutResult(buf, b, v) # "full"
           /\ Fresh(b, v) => /\ AfterPut(buf, b, v) \in Buffers
                             /\ AfterPut(buf, b, v).ids = {b.id}
                             /\ Len(AfterPut(buf, b, v).batches) = 1
                             /\ AfterPut(buf, b, v).batches[1] = b
           /\ ~Fresh(b, v) => /\ AfterPut(buf, b, v) \in Buffers
                              /\ AfterPut(buf, b, v).ids = {} /\ AfterPut(buf, b, v).batches = <<>>
<1>1. b.id \in Ids /\ b.version \in Nat
    BY DEF Batches
<1>2. Lag(b, v) \in Int /\ MaxPolicyLag \in Nat /\ MaxBatches = 1
    BY <1>1, TrainingAssumption, BufferAssumption DEF Lag
<1>3. PutResult(buf, b, v) = IF Lag(b, v) < 0 THEN "future"
                             ELSE IF Lag(b, v) > MaxPolicyLag THEN "stale" ELSE "accepted"
    BY <1>2 DEF PutResult
<1>4. Fresh(b, v) <=> ~(Lag(b, v) < 0) /\ ~(Lag(b, v) > MaxPolicyLag)
    BY <1>2 DEF Fresh
<1>5. CASE Fresh(b, v)
    <2>1. PutResult(buf, b, v) = "accepted"
        BY <1>3, <1>4, <1>5
    <2>2. AfterPut(buf, b, v) = [batches |-> Append(<<>>, b), ids |-> {b.id}, stale |-> buf.stale]
        BY <2>1 DEF AfterPut, Buffers
    <2> QED
        BY <1>1, <1>5, <2>1, <2>2 DEF Buffers
<1>6. CASE ~Fresh(b, v)
    <2>1. PutResult(buf, b, v) \in {"future", "stale"}
        BY <1>3, <1>4, <1>6
    <2>2. AfterPut(buf, b, v) \in {buf, [buf EXCEPT !.stale = @ + 1]}
        BY <2>1 DEF AfterPut
    <2>3. [buf EXCEPT !.stale = @ + 1] \in Buffers
        BY DEF Buffers
    <2>4. AfterPut(buf, b, v) \in Buffers /\ AfterPut(buf, b, v).ids = {} /\ AfterPut(buf, b, v).batches = <<>>
        BY <2>2, <2>3 DEF Buffers
    <2> QED
        BY <1>6, <2>1, <2>4
<1> QED
    BY <1>5, <1>6

LEMMA GetFromOne ==
    ASSUME NEW buf \in Buffers, Len(buf.batches) = 1, NEW v \in Nat,
           Fresh(buf.batches[1], v), buf.ids = {buf.batches[1].id}
    PROVE  /\ GetFinds(buf, v) /\ GetResult(buf, v) = buf.batches[1]
           /\ AfterGet(buf, v) \in Buffers
           /\ AfterGet(buf, v).batches = <<>> /\ AfterGet(buf, v).ids = {}
<1>1. buf.batches \in Seq(Batches) /\ buf.stale \in Nat /\ buf.ids \subseteq Ids
    BY DEF Buffers
<1>2. FreshPositions(buf, v) = {1}
    BY DEF FreshPositions
<1>3. FirstFresh(buf, v) = 1
    BY <1>2 DEF FirstFresh
<1>4. GetFinds(buf, v)
    BY <1>2 DEF GetFinds
<1>5. AfterGet(buf, v) = [batches |-> SubSeq(buf.batches, 2, 1),
                          ids |-> buf.ids \ {buf.batches[k].id : k \in 1..1}, stale |-> buf.stale + 0]
    BY <1>3, <1>4 DEF AfterGet
<1>6. SubSeq(buf.batches, 2, 1) = <<>>
    BY <1>1
<1>7. buf.ids \ {buf.batches[k].id : k \in 1..1} = {}
    OBVIOUS
<1>8. <<>> \in Seq(Batches)
    OBVIOUS
<1>9. buf.stale + 0 = buf.stale
    BY <1>1
<1>10. AfterGet(buf, v) = [batches |-> <<>>, ids |-> {}, stale |-> buf.stale]
    BY <1>5, <1>6, <1>7, <1>9, Zenon
<1> QED
    BY <1>1, <1>3, <1>4, <1>8, <1>10 DEF GetResult, Buffers
-------------------------------------------------------------------------------
LEMMA LoopInit == Init => LoopInv
<1> SUFFICES ASSUME Init PROVE LoopInv
    OBVIOUS
<1>1. TypeOK
    BY TrainingAssumption DEF Init, TypeOK, EmptyBuffer, Steps
<1>2. Progress
    BY TrainingAssumption DEF Init, Progress, InLoop, HasTrained, HasUpdated, Steps
<1>3. GenerationInv /\ BatchInv
    BY DEF Init, GenerationInv, BatchInv
<1>4. BufferInv
    BY DEF Init, BufferInv, HoldsNothing, EmptyBuffer
<1>5. TrainedInv
    BY DEF Init, TrainedInv
<1> QED
    BY <1>1, <1>2, <1>3, <1>4, <1>5 DEF LoopInv

\* What holds wherever the driver is in its loop.
LEMMA Facts ==
    ASSUME LoopInv
    PROVE  /\ TypeOK /\ Progress /\ GenerationInv /\ BufferInv /\ BatchInv /\ TrainedInv
           /\ StartRollout \in Nat /\ NumRollout \in Nat /\ FirstVersion \in Nat /\ FirstVersion > 0
           /\ MaxPolicyLag \in {0, 1} /\ MaxBatches = 1 /\ MaxFaults \in Nat
           /\ pc \in Steps /\ rollout \in Nat /\ version \in Nat /\ Len(trained) \in Nat
           /\ pc \in InLoop => version \notin {Mixed, 0}
BY TrainingAssumption DEF LoopInv, TypeOK, Progress, HasUpdated

\* The driver leaves its loop, or is out of it: nothing is trained any more.
LEMMA OutOfLoop ==
    ASSUME LoopInv, TypeOK', pc' \in {"finally", "disposed", "leaked"}, UNCHANGED <<version, trained>>,
           generation' # NoBatch => /\ pc' = "finally" /\ generation'.version = version
                                    /\ generation'.touched => engines' # version
    PROVE  LoopInv'
<1>1. TrainedInv'
    BY DEF LoopInv, TrainedInv
<1>2. Progress' /\ BufferInv' /\ BatchInv' /\ GenerationInv'
    BY DEF Progress, BufferInv, BatchInv, GenerationInv, InLoop, Steps
<1> QED
    BY <1>1, <1>2 DEF LoopInv

LEMMA FailStep == ASSUME LoopInv, Fail PROVE LoopInv'
<1>1. TypeOK'
    BY DEF LoopInv, TypeOK, Fail, stats, Steps
<1>2. generation' # NoBatch => generation'.version = version /\ (generation'.touched => engines' # version)
    BY DEF LoopInv, GenerationInv, Fail
<1> QED
    BY <1>1, <1>2, OutOfLoop DEF Fail

\* The driver starts the generation it waits for.
LEMMA StartStep ==
    ASSUME LoopInv, NEW step \in {"first", "fallback"}, NEW id, StartSync(id, step),
           id = IF step = "first" THEN rollout ELSE rollout + 1
    PROVE  LoopInv'
<1> USE Facts
<1>1. /\ pc = step /\ engines = version
      /\ generation' = [id |-> id, version |-> version, touched |-> FALSE, state |-> "running", mode |-> "sync"]
      /\ UNCHANGED <<pc, rollout, version, buffer, batch, prefetched, engines, stats, trained, outcome, faults>>
    BY DEF StartSync, Start
<1>2. id \in Ids
    BY <1>1 DEF Ids, Progress, InLoop, Steps
<1>3. TypeOK'
    BY <1>1, <1>2 DEF TypeOK, Generations, stats
<1>4. GenerationInv'
    BY <1>1 DEF GenerationInv
<1>5. Progress' /\ BufferInv' /\ BatchInv' /\ TrainedInv'
    BY <1>1 DEF Progress, BufferInv, Holds, HoldsNothing, BatchInv, TrainedInv
<1> QED
    BY <1>3, <1>4, <1>5 DEF LoopInv

\* The generation has ended under the engines it was started with, so no engine
\* changed while it ran, and its batch enters the empty buffer.
LEMMA ResultIsTrue ==
    ASSUME LoopInv, generation # NoBatch, pc \in InLoop, engines = generation.version
    PROVE  /\ Result \in Batches /\ Result.id = generation.id
           /\ Result.version = version /\ ~Result.touched
<1>1. generation \in Generations
    BY DEF LoopInv, TypeOK
<1>2. generation.version = version /\ ~generation.touched
    BY DEF LoopInv, GenerationInv
<1> QED
    BY <1>1, <1>2 DEF Result, Generations, Batches

LEMMA EndStep ==
    ASSUME LoopInv, NEW step \in {"first", "fallback"}, NEW then,
           then = IF step = "first" THEN "consume" ELSE "next", EndSync(step, then)
    PROVE  LoopInv'
<1> USE Facts
<1>1. /\ pc = step /\ pc' = then /\ generation # NoBatch /\ engines = generation.version
      /\ PutResult(buffer, Result, version) = "accepted"
      /\ buffer' = AfterPut(buffer, Result, version) /\ generation' = NoBatch
      /\ UNCHANGED <<rollout, version, batch, prefetched, engines, stats, trained, outcome, faults>>
    BY DEF EndSync
<1>2. /\ Result \in Batches /\ Result.id = generation.id
      /\ Result.version = version /\ ~Result.touched
    BY <1>1, ResultIsTrue DEF InLoop, Steps
<1>3. generation.id = IF step = "first" THEN rollout ELSE rollout + 1
    BY <1>1 DEF GenerationInv
<1>4. buffer \in Buffers /\ buffer.batches = <<>> /\ buffer.ids = {}
    BY <1>1 DEF TypeOK, Buffers, BufferInv, HoldsNothing, InLoop, Steps
<1>5. /\ Fresh(Result, version) /\ buffer' \in Buffers /\ buffer'.ids = {Result.id}
      /\ Len(buffer'.batches) = 1 /\ buffer'.batches[1] = Result
    BY <1>1, <1>2, <1>4, PutIntoEmpty
<1>6. TypeOK'
    BY <1>1, <1>5 DEF TypeOK, Buffers, stats, Steps
<1>7. Progress'
    BY <1>1 DEF Progress, InLoop, HasTrained, HasUpdated, Steps
<1> HIDE DEF Result
<1>8. BufferInv'
    BY <1>1, <1>2, <1>3, <1>5 DEF BufferInv, Holds, TrueBatch, Progress, InLoop, Steps
<1>9. GenerationInv' /\ BatchInv' /\ TrainedInv'
    BY <1>1 DEF GenerationInv, BatchInv, TrainedInv
<1> QED
    BY <1>6, <1>7, <1>8, <1>9 DEF LoopInv
LEMMA ConsumeStep == ASSUME LoopInv, Consume PROVE LoopInv'
<1> USE Facts
<1>1. pc = "consume" /\ Holds(rollout)
    BY DEF Consume, BufferInv
<1>2. buffer \in Buffers /\ Len(buffer.batches) = 1 /\ TrueBatch(buffer.batches[1], rollout, version)
      /\ buffer.ids = {rollout}
    BY <1>1 DEF Holds, TypeOK, Buffers
<1>3. /\ GetFinds(buffer, version) /\ GetResult(buffer, version) = buffer.batches[1]
      /\ AfterGet(buffer, version) \in Buffers
      /\ AfterGet(buffer, version).batches = <<>> /\ AfterGet(buffer, version).ids = {}
    BY <1>2, GetFromOne DEF TrueBatch
<1>4. /\ batch' = buffer.batches[1] /\ buffer' = AfterGet(buffer, version) /\ pc' = "prefetch"
      /\ UNCHANGED <<rollout, version, prefetched, generation, engines, stats, trained, outcome, faults>>
    BY <1>3 DEF Consume
<1>5. TypeOK'
    BY <1>2, <1>3, <1>4 DEF TypeOK, Buffers, TrueBatch, stats, Steps
<1>6. Progress'
    BY <1>1, <1>4 DEF Progress, InLoop, HasTrained, HasUpdated, Steps
<1>7. BufferInv' /\ BatchInv'
    BY <1>2, <1>3, <1>4 DEF BufferInv, HoldsNothing, BatchInv
<1>8. GenerationInv' /\ TrainedInv'
    BY <1>1, <1>4 DEF GenerationInv, TrainedInv
<1> QED
    BY <1>5, <1>6, <1>7, <1>8 DEF LoopInv

LEMMA PrefetchStep == ASSUME LoopInv, Prefetch PROVE LoopInv'
<1> USE Facts
<1>1. /\ pc = "prefetch" /\ pc' = "train" /\ prefetched' = NoBatch
      /\ UNCHANGED <<rollout, version, buffer, batch, engines, stats, trained, outcome, faults>>
    BY DEF Prefetch
<1>2. \/ /\ MayPrefetch
         /\ generation' = [id |-> rollout + 1, version |-> version, touched |-> FALSE,
                           state |-> "running", mode |-> "prefetch"]
      \/ UNCHANGED generation
    BY DEF Prefetch, Start
<1>3. generation = NoBatch
    BY <1>1 DEF GenerationInv
<1>4. rollout >= StartRollout
    BY <1>1 DEF Progress, InLoop, Steps
<1>a. MayPrefetch => rollout + 1 \in Ids
    BY <1>4 DEF Ids, MayPrefetch
<1>b. generation' \in Generations \union {NoBatch}
    <2>1. CASE UNCHANGED generation
        BY <1>3, <2>1
    <2>2. CASE /\ MayPrefetch
               /\ generation' = [id |-> rollout + 1, version |-> version, touched |-> FALSE,
                                 state |-> "running", mode |-> "prefetch"]
        BY <1>a, <2>2 DEF Generations
    <2> QED
        BY <1>2, <2>1, <2>2
<1>5. TypeOK'
    BY <1>1, <1>b DEF TypeOK, stats, Steps
<1>6. Progress'
    BY <1>1 DEF Progress, InLoop, HasTrained, HasUpdated, Steps
<1>7. GenerationInv'
    BY <1>1, <1>2, <1>3 DEF GenerationInv, MayPrefetch
<1>8. BufferInv' /\ BatchInv' /\ TrainedInv'
    BY <1>1 DEF BufferInv, HoldsNothing, BatchInv, TrainedInv, InLoop, Steps
<1> QED
    BY <1>5, <1>6, <1>7, <1>8 DEF LoopInv

LEMMA TrainStep == ASSUME LoopInv, Train PROVE LoopInv'
<1> USE Facts
<1> DEFINE entry == [batch |-> batch, at |-> version, rollout |-> rollout]
<1>1. /\ pc = "train" /\ pc' = IF generation = NoBatch THEN "update" ELSE "collect"
      /\ trained' = Append(trained, entry)
      /\ UNCHANGED <<rollout, version, buffer, batch, prefetched, generation, engines, stats, outcome, faults>>
    BY DEF Train
<1>2. TrueBatch(batch, rollout, version) /\ prefetched = NoBatch
    BY <1>1 DEF BatchInv
<1>3. rollout >= StartRollout /\ Len(trained) = rollout - StartRollout
      /\ version = FirstVersion + (rollout - StartRollout)
    BY <1>1 DEF Progress, InLoop, HasTrained, HasUpdated, Steps
<1>4. trained \in Seq([batch : Batches, at : Nat, rollout : Nat])
      /\ entry \in [batch : Batches, at : Nat, rollout : Nat]
    BY <1>2 DEF TypeOK, TrueBatch
<1>5. /\ trained' \in Seq([batch : Batches, at : Nat, rollout : Nat])
      /\ Len(trained') = Len(trained) + 1
      /\ \A k \in 1..Len(trained) : trained'[k] = trained[k]
      /\ trained'[Len(trained) + 1] = entry
    BY <1>1, <1>4
<1>6. TypeOK'
    BY <1>1, <1>5 DEF TypeOK, stats, Steps
<1>7. Progress'
    BY <1>1, <1>3, <1>5 DEF Progress, InLoop, HasTrained, HasUpdated, Steps
<1>8. GenerationInv' /\ BatchInv' /\ BufferInv'
    BY <1>1, <1>2 DEF GenerationInv, BatchInv, BufferInv, HoldsNothing, InLoop, Steps
<1>9. TrainedInv'
    <2> SUFFICES ASSUME NEW k \in 1..Len(trained')
                 PROVE  /\ trained'[k].rollout = StartRollout + k - 1
                        /\ trained'[k].at = FirstVersion + k - 1
                        /\ TrueBatch(trained'[k].batch, trained'[k].rollout, trained'[k].at)
        BY DEF TrainedInv, TrueBatch
    <2>1. CASE k \in 1..Len(trained)
        BY <1>5, <2>1 DEF TrainedInv
    <2>2. CASE k = Len(trained) + 1
        <3>1. /\ trained'[k].batch = batch /\ trained'[k].at = version /\ trained'[k].rollout = rollout
            BY <1>5, <2>2
        <3>2. rollout = StartRollout + k - 1 /\ version = FirstVersion + k - 1
            <4>1. StartRollout \in Nat /\ FirstVersion \in Nat /\ rollout \in Nat
                OBVIOUS
            <4> QED
                BY ONLY <4>1, <1>3, <2>2
        <3> QED
            BY <1>2, <3>1, <3>2
    <2> QED
        BY <1>5, <2>1, <2>2
<1> QED
    BY <1>6, <1>7, <1>8, <1>9 DEF LoopInv

LEMMA CollectStep == ASSUME LoopInv, NEW rejected \in BOOLEAN, Collect(rejected) PROVE LoopInv'
<1> USE Facts
<1>1. /\ pc = "collect" /\ generation # NoBatch /\ generation' = NoBatch
      /\ prefetched' = IF Usable(rejected) THEN Result ELSE NoBatch
      /\ UNCHANGED <<rollout, version, buffer, batch, engines, strict, fallbacks, trained>>
    BY DEF Collect, BatchInv
<1>2. \/ pc' = "update" /\ UNCHANGED outcome
      \/ pc' = "finally" /\ outcome' = "failed"
    BY DEF Collect
<1>3. faults' \in 0..MaxFaults /\ failures' \in Nat
    <2>1. faults \in 0..MaxFaults /\ failures \in Nat
        BY DEF TypeOK
    <2>2. /\ UNCHANGED faults \/ (faults < MaxFaults /\ faults' = faults + 1)
          /\ failures' \in {failures, failures + 1}
        BY DEF Collect
    <2> QED
        BY <2>1, <2>2
<1>4. Usable(rejected) => /\ Result \in Batches /\ Result.id = rollout + 1
                          /\ Result.version = version /\ ~Result.touched
    BY <1>1, ResultIsTrue DEF Usable, InLoop, Steps, GenerationInv
<1> HIDE DEF Result
<1>5. TypeOK'
    BY <1>1, <1>2, <1>3, <1>4 DEF TypeOK, Steps
<1>6. CASE pc' = "update"
    <2>1. Progress' /\ GenerationInv' /\ BufferInv'
        BY <1>1, <1>6 DEF Progress, GenerationInv, BufferInv, HoldsNothing, InLoop, HasTrained, HasUpdated, Steps
    <2>2. BatchInv'
        BY <1>1, <1>4, <1>6 DEF BatchInv, GenerationInv
    <2>3. TrainedInv'
        BY <1>1 DEF TrainedInv
    <2> QED
        BY <1>5, <2>1, <2>2, <2>3 DEF LoopInv
<1>7. CASE pc' = "finally"
    BY <1>1, <1>5, <1>7, OutOfLoop
<1> QED
    BY <1>2, <1>6, <1>7

LEMMA UpdateStep == ASSUME LoopInv, Update PROVE LoopInv'
<1> USE Facts
<1>1. /\ pc = "update" /\ engines' = version + 1 /\ version' = version + 1
      /\ pc' = IF rollout + 1 < NumRollout THEN "put" ELSE "next"
      /\ UNCHANGED <<rollout, buffer, batch, prefetched, generation, stats, trained, outcome, faults>>
    BY DEF Update
<1>2. TypeOK'
    <2>1. pc' \in Steps /\ version' \in Nat /\ engines' \in Nat
        BY <1>1 DEF Steps
    <2> QED
        BY <1>1, <2>1 DEF TypeOK, stats
<1>3. Progress'
    BY <1>1 DEF Progress, InLoop, HasTrained, HasUpdated, Steps
<1>4. GenerationInv' /\ TrainedInv'
    BY <1>1 DEF GenerationInv, TrainedInv
<1>5. BufferInv'
    BY <1>1 DEF BufferInv, HoldsNothing, InLoop, Steps
<1>6. prefetched # NoBatch => prefetched.version \in Nat
    BY DEF TypeOK, Batches
<1>7. BatchInv'
    BY <1>1, <1>6 DEF BatchInv
<1> QED
    BY <1>2, <1>3, <1>4, <1>5, <1>7 DEF LoopInv

\* In this driver the buffer never refuses a prefetched batch: its lag is one.
LEMMA PutStep == ASSUME LoopInv, PutPrefetched PROVE LoopInv'
<1> USE Facts
<1>1. pc = "put" /\ prefetched # NoBatch
    BY DEF PutPrefetched
<1>2. /\ prefetched \in Batches /\ prefetched.id = rollout + 1 /\ ~prefetched.touched
      /\ MaxPolicyLag = 1 /\ version - prefetched.version = 1
    BY <1>1 DEF BatchInv, TypeOK
<1>3. Fresh(prefetched, version)
    BY <1>2 DEF Fresh, Lag
<1>4. buffer \in Buffers /\ buffer.batches = <<>> /\ buffer.ids = {}
    BY <1>1 DEF TypeOK, Buffers, BufferInv, HoldsNothing, InLoop, Steps
<1>5. /\ PutResult(buffer, prefetched, version) = "accepted"
      /\ AfterPut(buffer, prefetched, version) \in Buffers
      /\ AfterPut(buffer, prefetched, version).ids = {rollout + 1}
      /\ Len(AfterPut(buffer, prefetched, version).batches) = 1
      /\ AfterPut(buffer, prefetched, version).batches[1] = prefetched
    BY <1>2, <1>3, <1>4, PutIntoEmpty
<1>6. /\ buffer' = AfterPut(buffer, prefetched, version) /\ prefetched' = prefetched /\ pc' = "next"
      /\ UNCHANGED <<rollout, version, batch, generation, engines, stats, trained, outcome, faults>>
    BY <1>5 DEF PutPrefetched
<1>7. TypeOK'
    BY <1>5, <1>6 DEF TypeOK, Buffers, stats, Steps
<1>8. Progress'
    BY <1>1, <1>6 DEF Progress, InLoop, HasTrained, HasUpdated, Steps
<1>9. BufferInv'
    BY <1>1, <1>2, <1>3, <1>5, <1>6 DEF BufferInv, Holds, TrueBatch, Progress, InLoop, Steps
<1>10. GenerationInv' /\ BatchInv' /\ TrainedInv'
    BY <1>1, <1>6 DEF GenerationInv, BatchInv, TrainedInv
<1> QED
    BY <1>7, <1>8, <1>9, <1>10 DEF LoopInv

LEMMA FallBackStep == ASSUME LoopInv, FallBack PROVE LoopInv'
<1> USE Facts
<1>1. /\ pc = "put" /\ pc' = "fallback" /\ fallbacks' = fallbacks + 1
      /\ UNCHANGED <<rollout, version, buffer, batch, prefetched, generation, engines, strict, failures,
                     trained, outcome, faults>>
    BY DEF FallBack
<1>2. TypeOK'
    BY <1>1 DEF TypeOK, Steps
<1>3. Progress' /\ BufferInv'
    BY <1>1 DEF Progress, BufferInv, HoldsNothing, InLoop, HasTrained, HasUpdated, Steps
<1>4. GenerationInv' /\ BatchInv' /\ TrainedInv'
    BY <1>1 DEF GenerationInv, BatchInv, TrainedInv
<1> QED
    BY <1>2, <1>3, <1>4 DEF LoopInv

LEMMA NextRolloutStep == ASSUME LoopInv, Loop PROVE LoopInv'
<1> USE Facts
<1>1. pc = "next" /\ UNCHANGED <<version, buffer, batch, prefetched, generation, engines, stats, trained, faults>>
    BY DEF Loop
<1>2. generation = NoBatch
    BY <1>1 DEF GenerationInv
<1>3. CASE rollout + 1 < NumRollout
    <2>1. rollout' = rollout + 1 /\ pc' = "consume" /\ UNCHANGED outcome
        BY <1>3 DEF Loop
    <2>2. TypeOK'
        BY <1>1, <2>1 DEF TypeOK, stats, Steps
    <2>3. Progress'
        <3>1. /\ "next" \in InLoop /\ "next" \in HasTrained /\ "next" \in HasUpdated
              /\ "consume" \notin HasTrained /\ "consume" \notin HasUpdated
            BY DEF InLoop, HasTrained, HasUpdated, Steps
        <3>2. /\ rollout >= StartRollout /\ version = FirstVersion + (rollout - StartRollout) + 1
              /\ Len(trained) = rollout - StartRollout + 1
            BY <1>1, <3>1 DEF Progress
        <3>3. /\ rollout' >= StartRollout /\ rollout' < NumRollout
              /\ version' = FirstVersion + (rollout' - StartRollout)
              /\ Len(trained') = rollout' - StartRollout
            <4>1. StartRollout \in Nat /\ NumRollout \in Nat /\ FirstVersion \in Nat /\ rollout \in Nat
                OBVIOUS
            <4>2. rollout' = rollout + 1 /\ version' = version /\ trained' = trained
                BY <1>1, <2>1
            <4> QED
                BY ONLY <4>1, <4>2, <1>3, <3>2
        <3> QED
            BY ONLY <2>1, <3>1, <3>3, TrainingAssumption DEF Progress
    <2>4. BufferInv'
        BY <1>1, <1>3, <2>1 DEF BufferInv, Holds
    <2>5. GenerationInv' /\ BatchInv' /\ TrainedInv'
        BY <1>1, <1>2, <2>1 DEF GenerationInv, BatchInv, TrainedInv
    <2> QED
        BY <2>2, <2>3, <2>4, <2>5 DEF LoopInv
<1>4. CASE ~(rollout + 1 < NumRollout)
    <2>1. pc' = "finally" /\ outcome' = "complete" /\ UNCHANGED rollout
        BY <1>4 DEF Loop
    <2>2. TypeOK'
        BY <1>1, <2>1 DEF TypeOK, stats, Steps
    <2> QED
        BY <1>1, <1>2, <2>1, <2>2, OutOfLoop
<1> QED
    BY <1>3, <1>4

LEMMA PushStep == ASSUME LoopInv, Push PROVE LoopInv'
<1> USE Facts
<1>1. /\ pc = "push" /\ engines' = version
      /\ pc' = IF StartRollout >= NumRollout THEN "finally" ELSE "first"
      /\ UNCHANGED <<rollout, version, buffer, batch, prefetched, generation, stats, trained, outcome, faults>>
    BY DEF Push
<1>2. TypeOK'
    BY <1>1 DEF TypeOK, stats, Steps
<1>3. generation = NoBatch
    BY <1>1 DEF GenerationInv
<1>4. CASE StartRollout >= NumRollout
    BY <1>1, <1>2, <1>3, <1>4, OutOfLoop
<1>5. CASE ~(StartRollout >= NumRollout)
    <2>1. rollout = StartRollout
        BY <1>1 DEF Progress, InLoop, Steps
    <2>2. Progress'
        BY <1>1, <1>5, <2>1 DEF Progress, InLoop, HasTrained, HasUpdated, Steps
    <2>3. BufferInv' /\ TrainedInv'
        BY <1>1, <1>5 DEF BufferInv, HoldsNothing, TrainedInv, InLoop, Steps
    <2>4. GenerationInv' /\ BatchInv'
        BY <1>1, <1>3, <1>5 DEF GenerationInv, BatchInv
    <2> QED
        BY <1>2, <2>2, <2>3, <2>4 DEF LoopInv
<1> QED
    BY <1>4, <1>5

\* The set-up before the try, done or failed.
LEMMA SetupStep == ASSUME LoopInv, Setup \/ SetupRaises PROVE LoopInv'
<1> USE Facts
<1>1. /\ pc = "setup" /\ pc' \in {"push", "leaked"}
      /\ UNCHANGED <<rollout, version, buffer, batch, prefetched, generation, engines, stats, trained,
                     outcome, faults>>
    BY DEF Setup, SetupRaises
<1>2. TypeOK'
    BY <1>1 DEF TypeOK, stats, Steps
<1>3. generation = NoBatch
    BY <1>1 DEF GenerationInv
<1>4. CASE pc' = "leaked"
    BY <1>1, <1>2, <1>3, <1>4, OutOfLoop
<1>5. CASE pc' = "push"
    <2>1. Progress' /\ BufferInv' /\ TrainedInv'
        BY <1>1, <1>5 DEF Progress, BufferInv, HoldsNothing, TrainedInv, InLoop, HasTrained, HasUpdated, Steps
    <2>2. GenerationInv' /\ BatchInv'
        BY <1>1, <1>3, <1>5 DEF GenerationInv, BatchInv
    <2> QED
        BY <1>2, <2>1, <2>2 DEF LoopInv
<1> QED
    BY <1>1, <1>4, <1>5

LEMMA UpdateFailsStep == ASSUME LoopInv, UpdateFails PROVE LoopInv'
<1> USE Facts
<1>1. /\ pc = "update" /\ pc' = "finally" /\ outcome' = "failed"
      /\ faults < MaxFaults /\ faults' = faults + 1 /\ engines' \in {Mixed, version}
      /\ UNCHANGED <<rollout, version, buffer, batch, prefetched, generation, stats, trained>>
    BY DEF UpdateFails
<1>2. generation = NoBatch
    BY <1>1 DEF GenerationInv
<1>3. TypeOK'
    <2>1. faults \in Nat
        BY DEF TypeOK
    <2>2. pc' \in Steps /\ faults' \in 0..MaxFaults /\ engines' \in Nat \union {Mixed}
        BY <1>1, <2>1 DEF Steps
    <2> QED
        BY <1>1, <2>2 DEF TypeOK, stats
<1> QED
    BY <1>1, <1>2, <1>3, OutOfLoop

LEMMA DisposeStep == ASSUME LoopInv, Dispose PROVE LoopInv'
<1> USE Facts
<1>1. /\ pc' = "disposed" /\ generation' = NoBatch
      /\ UNCHANGED <<rollout, version, buffer, batch, prefetched, engines, stats, trained, outcome, faults>>
    BY DEF Dispose
<1>2. TypeOK'
    BY <1>1 DEF TypeOK, stats, Steps
<1> QED
    BY <1>1, <1>2, OutOfLoop

\* The generation ends, one way or the other.
LEMMA GenerationEnds ==
    ASSUME LoopInv, generation # NoBatch, NEW end \in {"done", "failed"},
           generation' = [generation EXCEPT !.state = end], faults' \in 0..MaxFaults,
           UNCHANGED <<pc, rollout, version, buffer, batch, prefetched, engines, stats, trained, outcome>>
    PROVE  LoopInv'
<1> USE Facts
<1>1. generation \in Generations
    BY DEF TypeOK
<1>2. /\ generation' \in Generations /\ generation'.id = generation.id
      /\ generation'.version = generation.version /\ generation'.touched = generation.touched
    BY <1>1 DEF Generations
<1>3. generation' # NoBatch
    BY <1>2, NoBatchAssumption
<1>4. TypeOK'
    BY <1>2 DEF TypeOK, stats
<1>5. GenerationInv'
    BY <1>2 DEF GenerationInv
<1>6. Progress' /\ BufferInv' /\ BatchInv' /\ TrainedInv'
    BY <1>3 DEF Progress, BufferInv, Holds, HoldsNothing, BatchInv, TrainedInv
<1> QED
    BY <1>4, <1>5, <1>6 DEF LoopInv

\* What is being generated is touched, and the engines no longer agree with it.
LEMMA EngineFaultStep == ASSUME LoopInv, EngineFault PROVE LoopInv'
<1> USE Facts
<1>1. /\ pc \in InTry \ {"push"} /\ faults < MaxFaults /\ faults' = faults + 1 /\ engines' \in {Mixed, 0}
      /\ UNCHANGED <<pc, rollout, version, buffer, batch, prefetched, stats, trained, outcome>>
    BY DEF EngineFault
<1>e. faults' \in 0..MaxFaults /\ engines' \in Nat \union {Mixed}
    <2>1. faults \in Nat
        BY DEF TypeOK
    <2> QED
        BY <1>1, <2>1
<1>2. engines' # version
    BY <1>1 DEF InTry, InLoop, Steps
<1>3. \/ UNCHANGED generation
      \/ generation # NoBatch /\ generation' = [generation EXCEPT !.touched = TRUE]
    BY DEF EngineFault
<1>4. CASE UNCHANGED generation
    <2>1. TypeOK'
        BY <1>1, <1>4, <1>e DEF TypeOK, stats
    <2>2. GenerationInv'
        BY <1>1, <1>2, <1>4 DEF GenerationInv
    <2>3. Progress' /\ BufferInv' /\ BatchInv' /\ TrainedInv'
        BY <1>1, <1>4 DEF Progress, BufferInv, Holds, HoldsNothing, BatchInv, TrainedInv
    <2> QED
        BY <2>1, <2>2, <2>3 DEF LoopInv
<1>5. CASE generation # NoBatch /\ generation' = [generation EXCEPT !.touched = TRUE]
    <2>1. generation \in Generations
        BY <1>5 DEF TypeOK
    <2>2. /\ generation' \in Generations /\ generation'.id = generation.id
          /\ generation'.version = generation.version
        BY <1>5, <2>1 DEF Generations
    <2>3. generation' # NoBatch
        BY <2>2, NoBatchAssumption
    <2>4. TypeOK'
        BY <1>1, <1>e, <2>2 DEF TypeOK, stats
    <2>5. GenerationInv'
        BY <1>1, <1>2, <1>5, <2>2 DEF GenerationInv
    <2>6. Progress' /\ BufferInv' /\ BatchInv' /\ TrainedInv'
        BY <1>1, <1>5, <2>3 DEF Progress, BufferInv, Holds, HoldsNothing, BatchInv, TrainedInv
    <2> QED
        BY <2>4, <2>5, <2>6 DEF LoopInv
<1> QED
    BY <1>3, <1>4, <1>5

\* Every step keeps the invariant.
LEMMA LoopNext == LoopInv /\ [Next]_vars => LoopInv'
<1> SUFFICES ASSUME LoopInv, [Next]_vars PROVE LoopInv'
    OBVIOUS
<1>1. CASE Push
    BY <1>1, PushStep
<1>2. CASE First
    BY <1>2, StartStep, EndStep DEF First
<1>3. CASE Consume
    BY <1>3, ConsumeStep
<1>4. CASE Prefetch
    BY <1>4, PrefetchStep
<1>5. CASE Train
    BY <1>5, TrainStep
<1>6. CASE \E rejected \in BOOLEAN : Collect(rejected)
    BY <1>6, CollectStep
<1>7. CASE Update
    BY <1>7, UpdateStep
<1>8. CASE PutPrefetched
    BY <1>8, PutStep
<1>9. CASE FallBack
    BY <1>9, FallBackStep
<1>10. CASE Regenerate
    BY <1>10, StartStep, EndStep DEF Regenerate
<1>11. CASE Loop
    BY <1>11, NextRolloutStep
<1>12. CASE Dispose
    BY <1>12, DisposeStep
<1>13. CASE Raise \/ SyncFails \/ PrefetchFails
    BY <1>13, FailStep DEF Raise, SyncFails, StartSyncFails, EndSyncFails, PrefetchFails
<1>14. CASE UpdateFails
    BY <1>14, UpdateFailsStep
<1>15. CASE Generated
    <2>1. faults' \in 0..MaxFaults
        BY <1>15 DEF Generated, LoopInv, TypeOK
    <2> QED
        BY <1>15, <2>1, GenerationEnds DEF Generated
<1>16. CASE GenerationFails
    <2>1. faults' \in 0..MaxFaults
        BY <1>16, Facts DEF GenerationFails, TypeOK
    <2> QED
        BY <1>16, <2>1, GenerationEnds DEF GenerationFails
<1>17. CASE EngineFault
    BY <1>17, EngineFaultStep
<1>0. CASE Setup \/ SetupRaises
    BY <1>0, SetupStep
<1>18. CASE UNCHANGED vars
    BY <1>18, Facts DEF vars, stats, LoopInv, TypeOK, Progress, GenerationInv, BufferInv, Holds, HoldsNothing,
                 BatchInv, TrainedInv
<1> QED
    BY <1>0, <1>1, <1>2, <1>3, <1>4, <1>5, <1>6, <1>7, <1>8, <1>9, <1>10, <1>11, <1>12, <1>13, <1>14,
       <1>15, <1>16, <1>17, <1>18 DEF Next, Driver, DriverFails

\* The invariant holds in every run of train().
THEOREM LoopInvariant == Spec => []LoopInv
<1> QED
    BY LoopInit, LoopNext, PTL DEF Spec
-------------------------------------------------------------------------------
\* The driver's variables keep their types.
THEOREM TrainingTypesCorrect == Spec => []TypeOK
<1>1. LoopInv => TypeOK
    BY DEF LoopInv
<1> QED
    BY <1>1, LoopInvariant, PTL

\* Every rollout is trained on once, in order and under its own id, whatever
\* failed or was regenerated before.
THEOREM RolloutsOnce == Spec => []EachRolloutOnce
<1>1. LoopInv => EachRolloutOnce
    BY DEF LoopInv, TrainedInv, TrueBatch, EachRolloutOnce
<1> QED
    BY <1>1, LoopInvariant, PTL

\* No batch is trained on that an engine fault touched: the two reads of the
\* engines' version around a generation are enough.
THEOREM TrueLabels == Spec => []LabelsAreTrue
<1>1. LoopInv => LabelsAreTrue
    BY DEF LoopInv, TrainedInv, TrueBatch, LabelsAreTrue
<1> QED
    BY <1>1, LoopInvariant, PTL

\* Nothing is being generated when the policy version moves.
THEOREM UpdatesWait == Spec => NoStraddle
<1>1. LoopInv /\ [Next]_vars => [version' # version => generation = NoBatch]_vars
    <2> SUFFICES ASSUME LoopInv, [Next]_vars, version' # version PROVE generation = NoBatch
        OBVIOUS
    <2>1. CASE Update
        BY <2>1 DEF Update, LoopInv, GenerationInv
    <2>2. CASE ~Update
        BY <2>2 DEF vars, Next, Driver, DriverFails, Setup, SetupRaises, Push, First, Regenerate, StartSync, EndSync,
                    Consume, Prefetch, Train, Collect, PutPrefetched, FallBack, Loop, Dispose,
                    Raise, SyncFails, StartSyncFails, EndSyncFails, PrefetchFails, UpdateFails,
                    Fail, Generated, GenerationFails, EngineFault
    <2> QED
        BY <2>1, <2>2
<1> QED
    BY <1>1, LoopInvariant, PTL DEF Spec, NoStraddle
-------------------------------------------------------------------------------
\* The labels of the contract: the generating version of every batch trained.
Labels == [k \in 1..Len(trained) |-> trained[k].batch.version]

LEMMA ElementOf == ASSUME NEW S, NEW s \in Seq(S), NEW k \in 1..Len(s) PROVE s[k] \in S
OBVIOUS

\* Training one batch appends its generating version, which lags within the bound.
LEMMA TrainIsContracted == ASSUME LoopInv, Train PROVE Contract!Train
<1> USE Facts
<1>1. /\ pc = "train" /\ UNCHANGED version
      /\ trained' = Append(trained, [batch |-> batch, at |-> version, rollout |-> rollout])
    BY DEF Train
<1>2. batch \in Batches /\ Lag(batch, version) \in 0..MaxPolicyLag
    BY <1>1 DEF BatchInv, TrueBatch, Fresh
<1>3. Len(trained) = version - FirstVersion
    BY <1>1 DEF Progress, InLoop, HasTrained, HasUpdated, Steps
<1>4. trained \in Seq([batch : Batches, at : Nat, rollout : Nat])
    BY DEF TypeOK
<1>5. /\ Len(trained') = Len(trained) + 1
      /\ \A k \in 1..Len(trained) : trained'[k] = trained[k]
      /\ trained'[Len(trained) + 1].batch = batch
    BY <1>1, <1>4
<1>6. Labels \in Seq(Nat) /\ Len(Labels) = Len(trained)
    <2>1. \A k \in 1..Len(trained) : trained[k].batch.version \in Nat
        <3> SUFFICES ASSUME NEW k \in 1..Len(trained) PROVE trained[k].batch.version \in Nat
            OBVIOUS
        <3>1. trained[k] \in [batch : Batches, at : Nat, rollout : Nat]
            BY <1>4, ElementOf
        <3>2. trained[k].batch \in Batches
            BY <3>1
        <3> QED
            BY <3>2 DEF Batches
    <2> QED
        BY <2>1 DEF Labels
<1>7. batch.version = version - Lag(batch, version)
    BY <1>2 DEF Lag, Batches
<1>8. Labels' = Append(Labels, batch.version)
    <2>1. Labels' = [k \in 1..(Len(trained) + 1) |-> trained'[k].batch.version]
        BY <1>5 DEF Labels
    <2>2. \A k \in 1..Len(trained) : Labels[k] = trained'[k].batch.version
        BY <1>5 DEF Labels
    <2>3. Append(Labels, batch.version) =
              [k \in 1..(Len(trained) + 1) |-> IF k = Len(trained) + 1 THEN batch.version ELSE Labels[k]]
        BY <1>6
    <2>4. ASSUME NEW k \in 1..(Len(trained) + 1)
          PROVE  trained'[k].batch.version = IF k = Len(trained) + 1 THEN batch.version ELSE Labels[k]
        BY <1>5, <2>2, <2>4
    <2> QED
        BY <2>1, <2>3, <2>4
<1>9. Labels' = Append(Labels, version - Lag(batch, version))
    BY <1>7, <1>8
<1> QED
    BY <1>1, <1>2, <1>3, <1>6, <1>9 DEF Contract!Train, Contract!Applied, Labels

\* The weight update that follows a trained batch is the contract's.
LEMMA UpdateIsContracted == ASSUME LoopInv, Update PROVE Contract!Update
<1> USE Facts
<1>1. pc = "update" /\ version' = version + 1 /\ UNCHANGED trained
    BY DEF Update
<1>2. Len(trained) = version - FirstVersion + 1
    BY <1>1 DEF Progress, InLoop, HasTrained, HasUpdated, Steps
<1>3. Len(Labels) = Len(trained)
    BY DEF Labels
<1> QED
    BY <1>1, <1>2, <1>3 DEF Contract!Update, Contract!Applied, Labels

\* The driver implements bounded-lag training: one update after each batch, and
\* every batch within the bound, however generation and engines fail.
THEOREM ImplementsTheContract == Spec => ImplementsContract
<1>1. Init => Contract!Init
    BY DEF Init, Contract!Init
<1>2. LoopInv /\ [Next]_vars => [Contract!Next]_Contract!laggedVars
    <2> SUFFICES ASSUME LoopInv, [Next]_vars PROVE [Contract!Next]_Contract!laggedVars
        OBVIOUS
    <2>1. CASE Train
        BY <2>1, TrainIsContracted DEF Contract!Next
    <2>2. CASE Update
        BY <2>2, UpdateIsContracted DEF Contract!Next
    <2>3. CASE ~Train /\ ~Update
        <3>1. UNCHANGED <<version, trained>>
            BY <2>3 DEF vars, Next, Driver, DriverFails, Setup, SetupRaises, Push, First, Regenerate, StartSync, EndSync,
                        Consume, Prefetch, Collect, PutPrefetched, FallBack, Loop, Dispose,
                        Raise, SyncFails, StartSyncFails, EndSyncFails, PrefetchFails, UpdateFails,
                        Fail, Generated, GenerationFails, EngineFault
        <3> QED
            BY <3>1 DEF Contract!laggedVars
    <2> QED
        BY <2>1, <2>2, <2>3
<1> QED
    BY <1>1, <1>2, LoopInvariant, PTL DEF Spec, ImplementsContract, Contract!Spec
-------------------------------------------------------------------------------
\* The batches that had been prefetched, by their place in the trace.
Prefetches == {k \in DOMAIN BatchRows : PolicyLag(BatchRows[k]) = 1}

\* What the batch on its way to training, or just trained, adds to the account.
Ahead ==
    CASE pc \in {"setup", "push", "first", "fallback"} -> 0
      [] pc = "consume" -> Lag(buffer.batches[1], version)
      [] pc \in {"prefetch", "train"} -> Lag(batch, version)
      [] pc \in {"collect", "update", "put"} -> 1
      [] OTHER -> IF rollout + 1 < NumRollout THEN Lag(buffer.batches[1], version) ELSE 1

\* A failed prefetch that has not been fallen back on yet.
Owed == IF pc \in {"update", "put"} /\ prefetched = NoBatch /\ rollout + 1 < NumRollout THEN 1 ELSE 0

\* The summary's account of the batches, at every place of the loop.
AccountInv ==
    /\ pc \in InLoop => /\ Len(trained) = fallbacks + Cardinality(Prefetches) + Ahead
                        /\ failures <= fallbacks + Owed
                        /\ outcome # "complete"
    /\ outcome = "complete" => /\ Len(trained) = NumRollout - StartRollout
                               /\ Len(trained) = 1 + fallbacks + Cardinality(Prefetches)
                               /\ failures <= fallbacks

LEMMA PrefetchesCounted ==
    ASSUME TypeOK
    PROVE  IsFiniteSet(Prefetches) /\ Cardinality(Prefetches) \in Nat /\ Prefetches \subseteq 1..Len(trained)
<1>1. Prefetches \subseteq 1..Len(trained)
    BY DEF Prefetches, BatchRows
<1>2. Len(trained) \in Nat
    BY DEF TypeOK
<1>3. IsFiniteSet(1..Len(trained))
    BY <1>2, FS_Interval
<1>4. IsFiniteSet(Prefetches)
    BY <1>1, <1>3, FS_Subset
<1> QED
    BY <1>1, <1>4, FS_CardinalityType

\* A step that trains nothing leaves the trace alone.
LEMMA SameTrace == ASSUME UNCHANGED trained PROVE Prefetches' = Prefetches
BY DEF Prefetches, BatchRows

LEMMA AccountInit == Init => AccountInv
<1> SUFFICES ASSUME Init PROVE AccountInv
    OBVIOUS
<1>1. Prefetches = {}
    BY DEF Prefetches, BatchRows, Init
<1>2. Cardinality(Prefetches) = 0
    BY <1>1, FS_EmptySet
<1> QED
    BY <1>2 DEF Init, AccountInv, Ahead, Owed

\* A batch trained adds its lag to the account of prefetches.
LEMMA AccountTrain == ASSUME LoopInv, AccountInv, Train PROVE AccountInv'
<1> USE Facts
<1>1. /\ pc = "train" /\ pc' = IF generation = NoBatch THEN "update" ELSE "collect"
      /\ trained' = Append(trained, [batch |-> batch, at |-> version, rollout |-> rollout])
      /\ UNCHANGED <<rollout, version, buffer, batch, prefetched, generation, engines, stats, outcome, faults>>
    BY DEF Train
<1>2. batch \in Batches /\ Lag(batch, version) \in {0, 1} /\ prefetched = NoBatch
    BY <1>1 DEF BatchInv, TrueBatch, Fresh
<1>3. trained \in Seq([batch : Batches, at : Nat, rollout : Nat])
    BY DEF TypeOK
<1>4. /\ Len(trained') = Len(trained) + 1
      /\ \A k \in 1..Len(trained) : trained'[k] = trained[k]
      /\ trained'[Len(trained) + 1].batch = batch /\ trained'[Len(trained) + 1].at = version
    BY <1>1, <1>3
<1>5. Lag(batch, version) = version - batch.version
    BY DEF Lag
<1>6. IsFiniteSet(Prefetches) /\ Cardinality(Prefetches) \in Nat /\ Prefetches \subseteq 1..Len(trained)
    BY PrefetchesCounted
<1>7. Cardinality(Prefetches') = Cardinality(Prefetches) + Lag(batch, version)
    <2>1. CASE Lag(batch, version) = 0
        <3>1. Prefetches' = Prefetches
            BY <1>4, <1>5, <2>1 DEF Prefetches, BatchRows, PolicyLag
        <3> QED
            BY <1>6, <2>1, <3>1
    <2>2. CASE Lag(batch, version) = 1
        <3>1. Prefetches' = Prefetches \union {Len(trained) + 1}
            BY <1>4, <1>5, <2>2 DEF Prefetches, BatchRows, PolicyLag
        <3>2. Len(trained) + 1 \notin Prefetches
            BY <1>6
        <3> QED
            BY <1>6, <2>2, <3>1, <3>2, FS_AddElement
    <2> QED
        BY <1>2, <2>1, <2>2
<1>8. Len(trained) = fallbacks + Cardinality(Prefetches) + Lag(batch, version)
      /\ failures <= fallbacks /\ outcome # "complete" /\ fallbacks \in Nat /\ failures \in Nat
    BY <1>1, <1>2 DEF AccountInv, Ahead, Owed, InLoop, Steps, TypeOK
<1>9. Ahead' = 1
    BY <1>1 DEF Ahead
<1>10. Owed' \in {0, 1}
    BY DEF Owed
<1>11. fallbacks' = fallbacks /\ failures' = failures /\ outcome' = outcome
    BY <1>1 DEF stats
<1>12. Len(trained') = fallbacks' + Cardinality(Prefetches') + Ahead'
    <2>1. Lag(batch, version) \in Nat /\ Cardinality(Prefetches) \in Nat /\ fallbacks \in Nat
        BY <1>2, <1>6, <1>8
    <2> QED
        BY <2>1, <1>4, <1>7, <1>8, <1>9, <1>11
<1>13. failures' <= fallbacks' + Owed'
    <2>1. failures <= fallbacks /\ fallbacks \in Nat /\ failures \in Nat
        BY <1>8
    <2>2. \A k, n \in Nat, o \in {0, 1} : k <= n => k <= n + o
        OBVIOUS
    <2> QED
        BY ONLY <2>1, <2>2, <1>10, <1>11
<1> QED
    BY <1>8, <1>11, <1>12, <1>13 DEF AccountInv

\* The steps that put a batch into the buffer: a regenerated one has no lag.
LEMMA AccountEnd ==
    ASSUME LoopInv, AccountInv, NEW step \in {"first", "fallback"}, NEW then,
           then = IF step = "first" THEN "consume" ELSE "next", EndSync(step, then)
    PROVE  AccountInv'
<1> USE Facts
<1>1. /\ pc = step /\ pc' = then /\ generation # NoBatch /\ engines = generation.version
      /\ PutResult(buffer, Result, version) = "accepted"
      /\ buffer' = AfterPut(buffer, Result, version)
      /\ UNCHANGED <<rollout, version, prefetched, stats, trained, outcome>>
    BY DEF EndSync
<1>2. Result \in Batches /\ Result.version = version
    BY <1>1, ResultIsTrue DEF InLoop, Steps
<1>3. buffer \in Buffers /\ buffer.batches = <<>> /\ buffer.ids = {}
    BY <1>1 DEF TypeOK, Buffers, BufferInv, HoldsNothing, InLoop, Steps
<1>4. buffer'.batches[1] = Result
    BY <1>1, <1>2, <1>3, PutIntoEmpty
<1> HIDE DEF Result
<1>5. Lag(buffer'.batches[1], version) = 0
    BY <1>2, <1>4 DEF Lag
<1>6. Ahead = 0 /\ Ahead' = 0
    BY <1>1, <1>5 DEF Ahead, Progress, InLoop, Steps
<1>7. Owed = 0 /\ Owed' = 0
    BY <1>1 DEF Owed
<1> QED
    BY <1>1, <1>6, <1>7, SameTrace DEF AccountInv, InLoop, Steps, stats

\* A prefetched batch has a lag of one when it enters the buffer.
LEMMA AccountPut == ASSUME LoopInv, AccountInv, PutPrefetched PROVE AccountInv'
<1> USE Facts
<1>1. pc = "put" /\ prefetched # NoBatch
    BY DEF PutPrefetched
<1>2. /\ prefetched \in Batches /\ MaxPolicyLag = 1 /\ version - prefetched.version = 1
    BY <1>1 DEF BatchInv, TypeOK
<1>3. Lag(prefetched, version) = 1 /\ Fresh(prefetched, version)
    BY <1>2 DEF Fresh, Lag
<1>4. buffer \in Buffers /\ buffer.batches = <<>> /\ buffer.ids = {}
    BY <1>1 DEF TypeOK, Buffers, BufferInv, HoldsNothing, InLoop, Steps
<1>5. /\ PutResult(buffer, prefetched, version) = "accepted"
      /\ AfterPut(buffer, prefetched, version).batches[1] = prefetched
    BY <1>2, <1>3, <1>4, PutIntoEmpty
<1>6. /\ buffer' = AfterPut(buffer, prefetched, version) /\ pc' = "next"
      /\ UNCHANGED <<rollout, version, stats, trained, outcome>>
    BY <1>5 DEF PutPrefetched
<1>7. Ahead = 1 /\ Ahead' = 1
    BY <1>1, <1>3, <1>5, <1>6 DEF Ahead
<1>8. Owed = 0 /\ Owed' = 0
    BY <1>1, <1>6 DEF Owed
<1> QED
    BY <1>1, <1>6, <1>7, <1>8, SameTrace DEF AccountInv, InLoop, Steps, stats

\* The loop's last step completes the account; the others carry it on.
LEMMA AccountLoop == ASSUME LoopInv, AccountInv, Loop PROVE AccountInv'
<1> USE Facts
<1>1. pc = "next" /\ UNCHANGED <<version, buffer, stats, trained>>
    BY DEF Loop
<1>2. Owed = 0 /\ Cardinality(Prefetches) \in Nat
    BY <1>1, PrefetchesCounted DEF Owed
<1>3. CASE rollout + 1 < NumRollout
    <2>1. rollout' = rollout + 1 /\ pc' = "consume" /\ UNCHANGED outcome
        BY <1>3 DEF Loop
    <2>2. Ahead' = Ahead /\ Owed' = 0
        BY <1>1, <1>3, <2>1 DEF Ahead, Owed
    <2> QED
        BY <1>1, <1>2, <2>1, <2>2, SameTrace DEF AccountInv, InLoop, Steps, stats
<1>4. CASE ~(rollout + 1 < NumRollout)
    <2>1. pc' = "finally"
        BY <1>4 DEF Loop
    <2>2. Ahead = 1
        BY <1>1, <1>4 DEF Ahead
    <2>3. Len(trained) = NumRollout - StartRollout
        BY <1>1, <1>4 DEF Progress, InLoop, HasTrained, Steps
    <2>4. fallbacks \in Nat /\ failures \in Nat
        BY DEF TypeOK
    <2> QED
        BY <1>1, <1>2, <2>1, <2>2, <2>3, <2>4, SameTrace DEF AccountInv, InLoop, Steps, stats
<1> QED
    BY <1>3, <1>4

LEMMA AccountNext == LoopInv /\ AccountInv /\ [Next]_vars => AccountInv'
<1> SUFFICES ASSUME LoopInv, AccountInv, [Next]_vars PROVE AccountInv'
    OBVIOUS
<1> USE Facts
<1>0. fallbacks \in Nat /\ failures \in Nat /\ Cardinality(Prefetches) \in Nat
    BY PrefetchesCounted DEF TypeOK
<1>1. CASE Train
    BY <1>1, AccountTrain
<1>2. CASE EndSync("first", "consume") \/ EndSync("fallback", "next")
    BY <1>2, AccountEnd
<1>3. CASE PutPrefetched
    BY <1>3, AccountPut
<1>4. CASE Loop
    BY <1>4, AccountLoop
<1>5. CASE Setup \/ Push
    BY <1>5, SameTrace DEF Setup, Push, AccountInv, Ahead, Owed, InLoop, Steps, stats
<1>6. CASE Consume
    <2>1. pc = "consume" /\ Holds(rollout)
        BY <1>6 DEF Consume, BufferInv
    <2>2. GetFinds(buffer, version) /\ GetResult(buffer, version) = buffer.batches[1]
        BY <2>1, GetFromOne DEF Holds, TrueBatch, TypeOK, Buffers
    <2>3. /\ pc' = "prefetch" /\ batch' = buffer.batches[1]
          /\ UNCHANGED <<rollout, version, stats, trained, outcome>>
        BY <1>6, <2>2 DEF Consume
    <2> QED
        BY <1>0, <2>1, <2>3, SameTrace DEF AccountInv, Ahead, Owed, InLoop, Steps, stats
<1>7. CASE Prefetch
    BY <1>0, <1>7, SameTrace DEF Prefetch, AccountInv, Ahead, Owed, InLoop, Steps, stats
<1>8. CASE \E rejected \in BOOLEAN : Collect(rejected)
    <2>1. PICK rejected \in BOOLEAN : Collect(rejected)
        BY <1>8
    <2>2. pc = "collect" /\ generation \in Generations /\ generation.id = rollout + 1
        BY <2>1 DEF Collect, BatchInv, GenerationInv, TypeOK
    <2>3. rollout + 1 < NumRollout
        BY <2>2 DEF Generations, Ids
    <2>4. UNCHANGED <<rollout, version, trained, fallbacks>>
        BY <2>1 DEF Collect
    <2>5. failures' = failures \/ (failures' = failures + 1 /\ prefetched' = NoBatch)
        BY <2>1 DEF Collect
    <2>6. (pc' = "update" /\ UNCHANGED outcome) \/ (pc' = "finally" /\ outcome' = "failed")
        BY <2>1 DEF Collect
    <2>7. CASE pc' = "finally" /\ outcome' = "failed"
        BY <2>7 DEF AccountInv, InLoop
    <2>8. CASE pc' = "update" /\ UNCHANGED outcome
        <3>1. /\ Len(trained) = fallbacks + Cardinality(Prefetches) + 1 /\ failures <= fallbacks
              /\ outcome # "complete"
            BY <1>0, <2>2 DEF AccountInv, Ahead, Owed, InLoop, Steps
        <3>2. Ahead' = 1 /\ Owed' \in {0, 1} /\ (prefetched' = NoBatch => Owed' = 1)
            BY <2>3, <2>4, <2>8 DEF Ahead, Owed
        <3>3. failures' <= fallbacks' + Owed'
            <4>1. CASE failures' = failures
                <5>1. \A k, n \in Nat, o \in {0, 1} : k <= n => k <= n + o
                    OBVIOUS
                <5> QED
                    BY ONLY <1>0, <2>4, <3>1, <3>2, <4>1, <5>1
            <4>2. CASE failures' = failures + 1 /\ prefetched' = NoBatch
                <5>1. \A k, n \in Nat : k <= n => k + 1 <= n + 1
                    OBVIOUS
                <5> QED
                    BY ONLY <1>0, <2>4, <3>1, <3>2, <4>2, <5>1
            <4> QED
                BY <2>5, <4>1, <4>2
        <3>4. Len(trained') = fallbacks' + Cardinality(Prefetches') + Ahead'
            BY <2>4, <3>1, <3>2, SameTrace
        <3> QED
            BY <2>8, <3>1, <3>3, <3>4 DEF AccountInv
    <2> QED
        BY <2>6, <2>7, <2>8
<1>9. CASE Update
    BY <1>0, <1>9, SameTrace DEF Update, AccountInv, Ahead, Owed, InLoop, Steps, stats
<1>10. CASE FallBack
    <2>1. /\ pc = "put" /\ prefetched = NoBatch /\ pc' = "fallback" /\ fallbacks' = fallbacks + 1
          /\ UNCHANGED <<rollout, failures, trained, outcome>>
        BY <1>10 DEF FallBack
    <2>2. /\ Len(trained) = fallbacks + Cardinality(Prefetches) + 1 /\ failures <= fallbacks + Owed
          /\ Owed \in {0, 1} /\ outcome # "complete"
        BY <2>1 DEF AccountInv, Ahead, Owed, InLoop, Steps
    <2>3. Ahead' = 0 /\ Owed' = 0
        BY <2>1 DEF Ahead, Owed
    <2>4. Len(trained') = fallbacks' + Cardinality(Prefetches') + Ahead'
        BY <1>0, <2>1, <2>2, <2>3, SameTrace
    <2>5. failures' <= fallbacks' + Owed'
        BY <1>0, <2>1, <2>2, <2>3
    <2> QED
        BY <2>1, <2>2, <2>4, <2>5 DEF AccountInv
<1>11. CASE SetupRaises \/ Raise \/ SyncFails \/ PrefetchFails \/ UpdateFails \/ Dispose
    <2>1. /\ pc' \notin InLoop /\ UNCHANGED <<trained, fallbacks, failures>>
          /\ outcome' \in {outcome, "failed"}
        BY <1>11 DEF SetupRaises, Raise, SyncFails, StartSyncFails, EndSyncFails, PrefetchFails, UpdateFails, Dispose,
                     Fail, InLoop, stats
    <2> QED
        BY <2>1, SameTrace DEF AccountInv
<1>12. CASE \/ StartSync(rollout, "first") \/ StartSync(rollout + 1, "fallback")
            \/ Generated \/ GenerationFails \/ EngineFault \/ UNCHANGED vars
    <2>1. UNCHANGED <<pc, rollout, version, buffer, batch, prefetched, fallbacks, failures, trained, outcome>>
        BY <1>12 DEF StartSync, Generated, GenerationFails, EngineFault, vars, stats
    <2> QED
        BY <2>1, SameTrace DEF AccountInv, Ahead, Owed
<1> QED
    BY <1>1, <1>2, <1>3, <1>4, <1>5, <1>6, <1>7, <1>8, <1>9, <1>10, <1>11, <1>12
    DEF Next, Driver, DriverFails, First, Regenerate

\* The trace of every complete run passes its verifier, and its summary accounts
\* for every batch, for any number of rollouts and faults.
THEOREM TracesVerify == Spec => []VerifierAccepts
<1>1. LoopInv /\ AccountInv => VerifierAccepts
    <2> SUFFICES ASSUME LoopInv, AccountInv, outcome = "complete" PROVE VerifierAccepts
        BY DEF VerifierAccepts
    <2> USE Facts
    <2>1. Len(BatchRows) = Len(trained) /\ DOMAIN BatchRows = 1..Len(trained)
        BY DEF BatchRows
    <2>2. \A k \in 1..Len(trained) : /\ BatchRows[k].rollout = StartRollout + k - 1
                                     /\ PolicyLag(BatchRows[k]) \in 0..MaxPolicyLag
        BY DEF BatchRows, PolicyLag, TrainedInv, TrueBatch, Fresh, Lag
    <2>3. VerifyTrace(BatchRows, NumRollout - StartRollout)
        <3>1. Len(BatchRows) = NumRollout - StartRollout
            BY <2>1 DEF AccountInv
        <3>2. \A j, k \in 1..Len(trained) : j < k => BatchRows[j].rollout < BatchRows[k].rollout
            BY <2>2
        <3> QED
            BY <2>1, <2>2, <3>1, <3>2 DEF VerifyTrace
    <2> QED
        BY <2>3 DEF VerifierAccepts, AccountInv, Prefetches
<1>2. LoopInv /\ AccountInv /\ [Next]_vars => AccountInv'
    BY AccountNext
<1> QED
    BY <1>1, <1>2, AccountInit, LoopInvariant, PTL DEF Spec
==============================================================================
