-------------------------- MODULE ServingRouterProofs --------------------------
(***************************************************************************)
(* Theorems about ServingRouter for every set of workers, completions and  *)
(* prompts, every policy and every bound.                                  *)
(***************************************************************************)
EXTENDS ServingRouter, FiniteOrders, SequenceTheorems

Trackers == [queue : Seq(Prompts), counts : [Prompts -> Nat]]

-------------------------------------------------------------------------------
\* The turn of a round robin falls on one of the workers, whatever the counter.
LEMMA TurnIn ==
    ASSUME NEW S \in SUBSET Workers, S # {}, NEW counter \in Nat
    PROVE  Turn(S, counter) \in S
<1>1. S \in SUBSET Int /\ IsFiniteSet(S)
    <2>1. IsFiniteSet(S)
        BY WorkersAssumption, FS_Subset
    <2> QED
        BY <2>1, WorkersAssumption
<1>2. Cardinality(S) \in Nat /\ Cardinality(S) # 0
    BY <1>1, FS_CardinalityType, FS_EmptySet
<1>3. PICK k \in 0..(Cardinality(S) - 1) : k = counter % Cardinality(S)
    BY <1>2
<1>4. \E w \in S : Cardinality({x \in S : x < w}) = k
    BY <1>1, RankExists
<1> QED
    BY <1>3, <1>4 DEF Turn

\* Some worker has the least load.
LEMMA LeastLoadedExists ==
    ASSUME NEW S \in SUBSET Workers, S # {}, NEW load \in [Workers -> Int]
    PROVE  LeastLoaded(S, load) # {}
<1>1. IsFiniteSet(S)
    BY WorkersAssumption, FS_Subset
<1>2. PICK f \in [S -> Int] : \A w \in S : f[w] = load[w]
    <2>1. [w \in S |-> load[w]] \in [S -> Int]
        OBVIOUS
    <2> QED
        BY <2>1
<1>3. PICK w \in S : \A x \in S : f[w] <= f[x]
    BY <1>1, LeastArgument
<1>4. \A x \in S : load[w] <= load[x]
    BY <1>2, <1>3
<1> QED
    BY <1>4 DEF LeastLoaded

\* A score is a number.
LEMMA ScoreType ==
    ASSUME NEW w \in Workers, NEW prompt, NEW load \in [Workers -> Int], NEW cached
    PROVE  Score(w, prompt, load, cached) \in Int
<1>1. PICK h \in {0, 1} : h = IF Hit(cached[w], prompt) THEN 1 ELSE 0
    OBVIOUS
<1>2. HitWeight * h \in Int /\ LoadWeight * load[w] \in Int
    BY WeightAssumption
<1> QED
    BY <1>1, <1>2 DEF Score

\* Some worker has the best score.
LEMMA BestExists ==
    ASSUME NEW S \in SUBSET Workers, S # {}, NEW prompt, NEW load \in [Workers -> Int], NEW cached
    PROVE  CacheAware(S, prompt, load, cached) # {}
<1>1. IsFiniteSet(S)
    BY WorkersAssumption, FS_Subset
<1>2. PICK f \in [S -> Int] : \A w \in S : f[w] = -Score(w, prompt, load, cached)
    <2>1. \A w \in S : -Score(w, prompt, load, cached) \in Int
        BY ScoreType
    <2>2. [w \in S |-> -Score(w, prompt, load, cached)] \in [S -> Int]
        BY <2>1
    <2> QED
        BY <2>2
<1>3. PICK w \in S : \A x \in S : f[w] <= f[x]
    BY <1>1, LeastArgument
<1>4. \A x \in S : Score(x, prompt, load, cached) <= Score(w, prompt, load, cached)
    BY <1>2, <1>3, ScoreType
<1> QED
    BY <1>4, LeastLoadedExists DEF CacheAware

\* Every policy has a worker to offer.
LEMMA CandidatesIn ==
    ASSUME NEW policy \in {"rr", "least-load", "cache-aware"},
           NEW S \in SUBSET Workers, S # {}, NEW prompt, NEW load \in [Workers -> Int], NEW cached
    PROVE  /\ Candidates(policy, S, prompt, load, cached) \in SUBSET S
           /\ Candidates(policy, S, prompt, load, cached) # {}
<1>1. LeastLoaded(S, load) \in SUBSET S
    BY DEF LeastLoaded
<1>2. CacheAware(S, prompt, load, cached) \in SUBSET S
    BY <1>1 DEF CacheAware
<1> QED
    BY <1>1, <1>2, LeastLoadedExists, BestExists DEF Candidates

-------------------------------------------------------------------------------
\* A prompt occurs finitely often in a queue.
LEMMA OccurrencesFinite ==
    ASSUME NEW queue \in Seq(Prompts), NEW p
    PROVE  IsFiniteSet(Occurrences(queue, p)) /\ Cardinality(Occurrences(queue, p)) \in Nat
<1>1. Len(queue) \in Int /\ DOMAIN queue = 1..Len(queue)
    OBVIOUS
<1>2. IsFiniteSet(1..Len(queue))
    BY <1>1, FS_Interval
<1>3. Occurrences(queue, p) \in SUBSET (1..Len(queue))
    BY <1>1 DEF Occurrences
<1> QED
    BY <1>2, <1>3, FS_Subset, FS_CardinalityType

\* The entry added at the end counts once.
LEMMA OccurrencesAppend ==
    ASSUME NEW queue \in Seq(Prompts), NEW p \in Prompts, NEW x
    PROVE  Cardinality(Occurrences(Append(queue, p), x)) =
              Cardinality(Occurrences(queue, x)) + (IF x = p THEN 1 ELSE 0)
<1>1. PICK n \in Nat : n = Len(queue)
    OBVIOUS
<1>2. /\ DOMAIN queue = 1..n /\ DOMAIN Append(queue, p) = 1..(n + 1)
      /\ Append(queue, p)[n + 1] = p
      /\ \A i \in 1..n : Append(queue, p)[i] = queue[i]
    BY <1>1
<1>3. n + 1 \notin Occurrences(queue, x)
    BY <1>2 DEF Occurrences
<1>4. Occurrences(Append(queue, p), x) =
        IF x = p THEN Occurrences(queue, x) \union {n + 1} ELSE Occurrences(queue, x)
    <2>1. \A i : i \in 1..(n + 1) <=> i \in 1..n \/ i = n + 1
        BY <1>1
    <2>2. \A i : i \in Occurrences(Append(queue, p), x) <=>
                    \/ i \in Occurrences(queue, x)
                    \/ x = p /\ i = n + 1
        BY <1>1, <1>2, <2>1 DEF Occurrences
    <2> QED
        BY <2>2
<1>5. PICK before : before = Occurrences(queue, x)
    OBVIOUS
<1>6. IsFiniteSet(before) /\ Cardinality(before) \in Nat
    BY <1>5, OccurrencesFinite
<1>7. Cardinality(before \union {n + 1}) = Cardinality(before) + 1
    BY <1>3, <1>5, <1>6, FS_AddElement
<1> QED
    BY <1>4, <1>5, <1>6, <1>7

\* The entry evicted at the front counts once.
LEMMA OccurrencesTail ==
    ASSUME NEW queue \in Seq(Prompts), queue # <<>>, NEW x
    PROVE  Cardinality(Occurrences(Tail(queue), x)) =
              Cardinality(Occurrences(queue, x)) - (IF x = Head(queue) THEN 1 ELSE 0)
<1>1. PICK n \in Nat \ {0} : n = Len(queue)
    OBVIOUS
<1>2. /\ DOMAIN queue = 1..n /\ DOMAIN Tail(queue) = 1..(n - 1)
      /\ \A i \in 1..(n - 1) : Tail(queue)[i] = queue[i + 1]
      /\ Head(queue) = queue[1] /\ Tail(queue) \in Seq(Prompts)
    BY <1>1
<1> DEFINE rest == Occurrences(queue, x) \ {1}
           up == [i \in Occurrences(Tail(queue), x) |-> i + 1]
<1>3. up \in [Occurrences(Tail(queue), x) -> rest]
    <2> SUFFICES ASSUME NEW i \in Occurrences(Tail(queue), x) PROVE i + 1 \in rest
        OBVIOUS
    <2>1. i \in 1..(n - 1) /\ queue[i + 1] = x
        BY <1>2 DEF Occurrences
    <2> QED
        BY <1>2, <2>1 DEF Occurrences
<1>4. \A i \in rest : i - 1 \in Occurrences(Tail(queue), x) /\ (i - 1) + 1 = i
    <2> TAKE i \in rest
    <2>1. i \in 2..n /\ queue[i] = x
        BY <1>2 DEF Occurrences
    <2>2. i - 1 \in 1..(n - 1) /\ (i - 1) + 1 = i
        BY <2>1
    <2> QED
        BY <1>2, <2>1, <2>2 DEF Occurrences
<1>5. up \in Bijection(Occurrences(Tail(queue), x), rest)
    <2>1. \A i, j \in Occurrences(Tail(queue), x) : up[i] = up[j] => i = j
        BY <1>2 DEF Occurrences
    <2>2. \A k \in rest : \E i \in Occurrences(Tail(queue), x) : up[i] = k
        BY <1>4
    <2> HIDE DEF up, rest
    <2> QED
        BY <1>3, <2>1, <2>2 DEF Bijection, Injection, IsInjective, Surjection
<1>6. Cardinality(rest) = Cardinality(Occurrences(Tail(queue), x))
    <2> HIDE DEF up, rest
    <2> QED
        BY <1>2, <1>5, OccurrencesFinite, FS_Bijection DEF ExistsBijection
<1>7. 1 \in Occurrences(queue, x) <=> x = Head(queue)
    BY <1>2 DEF Occurrences
<1>8. PICK before : before = Occurrences(queue, x)
    OBVIOUS
<1>9. IsFiniteSet(before) /\ Cardinality(before) \in Nat
    BY <1>8, OccurrencesFinite
<1>10. Cardinality(before \ {1}) = IF 1 \in before THEN Cardinality(before) - 1 ELSE Cardinality(before)
    BY <1>9, FS_RemoveElement
<1> QED
    BY <1>6, <1>7, <1>8, <1>9, <1>10

\* What a tracker is worth: a bounded queue and its counts.
TrackerOk(tracker) ==
    /\ tracker \in Trackers
    /\ Len(tracker.queue) <= CacheEntries
    /\ \A p \in Prompts : tracker.counts[p] = Cardinality(Occurrences(tracker.queue, p))

\* Remembering a prompt keeps the counts those of the queue, and raises only the
\* count of that prompt, by one.
LEMMA RememberKeeps ==
    ASSUME NEW tracker, TrackerOk(tracker), NEW prompt \in Prompts
    PROVE  /\ TrackerOk(Remember(tracker, prompt))
           /\ \A p \in Prompts : Remember(tracker, prompt).counts[p] <=
                  tracker.counts[p] + (IF p = prompt THEN 1 ELSE 0)
<1> DEFINE longer == [queue |-> Append(tracker.queue, prompt),
                      counts |-> [tracker.counts EXCEPT ![prompt] = @ + 1]]
<1>1. /\ tracker.queue \in Seq(Prompts) /\ tracker.counts \in [Prompts -> Nat]
      /\ Len(tracker.queue) \in Nat /\ CacheEntries \in Nat /\ Len(tracker.queue) <= CacheEntries
    BY CacheAssumption DEF TrackerOk, Trackers
<1>2. /\ longer \in Trackers /\ Len(longer.queue) = Len(tracker.queue) + 1
      /\ longer.queue # <<>>
    <2>1. longer.counts \in [Prompts -> Nat]
        BY <1>1
    <2>2. longer.queue \in Seq(Prompts) /\ Len(longer.queue) = Len(tracker.queue) + 1
        BY <1>1
    <2>3. longer.queue # <<>>
        BY <1>1, <2>2
    <2> QED
        BY <2>1, <2>2, <2>3 DEF Trackers
<1>3. \A p \in Prompts : longer.counts[p] = tracker.counts[p] + (IF p = prompt THEN 1 ELSE 0)
    BY <1>1
<1>4. \A p \in Prompts : longer.counts[p] = Cardinality(Occurrences(longer.queue, p))
    BY <1>1, <1>3, OccurrencesAppend DEF TrackerOk
<1>5. Remember(tracker, prompt) = Evict(longer)
    BY DEF Remember
<1> HIDE DEF longer
<1>6. CASE Len(longer.queue) <= CacheEntries
    BY <1>1, <1>2, <1>3, <1>4, <1>5, <1>6 DEF Evict, TrackerOk
<1>7. CASE ~(Len(longer.queue) <= CacheEntries)
    <2>1. PICK queue \in Seq(Prompts), counts \in [Prompts -> Nat] :
              queue = longer.queue /\ counts = longer.counts
        BY <1>2 DEF Trackers
    <2>2. PICK head \in Prompts : head = Head(queue)
        BY <1>2, <2>1
    <2>3. PICK shorter : shorter = [queue |-> Tail(queue),
             counts |-> [counts EXCEPT ![head] = IF @ <= 1 THEN 0 ELSE @ - 1]]
        OBVIOUS
    <2>4. Remember(tracker, prompt) = shorter
        BY <1>5, <1>7, <2>1, <2>2, <2>3 DEF Evict
    <2>5. counts[head] >= 1 /\ \A p \in Prompts : counts[p] = Cardinality(Occurrences(queue, p))
        <3>1. \A p \in Prompts : counts[p] = Cardinality(Occurrences(queue, p))
            BY <1>4, <2>1
        <3>2. 1 \in Occurrences(queue, head)
            BY <1>2, <2>1, <2>2 DEF Occurrences
        <3>3. Cardinality(Occurrences(queue, head)) # 0
            BY <3>2, OccurrencesFinite, FS_EmptySet
        <3> QED
            BY <2>1, <3>1, <3>3
    <2>6. \A p \in Prompts : shorter.counts[p] = counts[p] - (IF p = head THEN 1 ELSE 0)
        BY <2>1, <2>3, <2>5
    <2>7. \A p \in Prompts : shorter.counts[p] = Cardinality(Occurrences(shorter.queue, p))
        BY <1>2, <2>1, <2>2, <2>3, <2>5, <2>6, OccurrencesTail
    <2>8. shorter.queue \in Seq(Prompts) /\ Len(shorter.queue) <= CacheEntries
        <3>1. queue # <<>> /\ Len(queue) = Len(tracker.queue) + 1
            BY <1>2, <2>1
        <3>2. Tail(queue) \in Seq(Prompts) /\ Len(Tail(queue)) = Len(queue) - 1
            BY <3>1
        <3> QED
            BY <1>1, <2>3, <3>1, <3>2
    <2>9. shorter.counts \in [Prompts -> Nat]
        BY <2>1, <2>3
    <2>10. TrackerOk(shorter)
        BY <2>3, <2>7, <2>8, <2>9 DEF TrackerOk, Trackers
    <2>11. \A p \in Prompts : shorter.counts[p] <= tracker.counts[p] + (IF p = prompt THEN 1 ELSE 0)
        BY <1>1, <1>3, <2>1, <2>6
    <2> QED
        BY <2>4, <2>10, <2>11
<1> QED
    BY <1>6, <1>7

-------------------------------------------------------------------------------
Handlers == [phase : Phases, prompt : Prompts \union {NoPrompt},
             worker : Workers \union {Nobody}, attempt : 0..MaxRetries, ok : BOOLEAN]

\* The handlers that have a worker and are not finalised, or were never.
UnderWay == {"sending", "backoff", "returned", "streaming", "lost", "broken"}

\* A handler past the queue has a worker, and one that backs off has a retry left.
HandlerOk(handler) ==
    /\ handler.phase \notin {"new", "waiting"} => handler.worker \in Workers
    /\ handler.phase = "backoff" => handler.attempt < MaxRetries

\* Requests in the queue are waiting, each once; with this and HandlerOk the counts
\* of slots, of load and of cached prompts carry on.
RouterInv ==
    /\ RouterTypeOK
    /\ \A r \in Requests : HandlerOk(requests[r])
    /\ \A i \in 1..Len(waiting) : requests[waiting[i]].phase = "waiting"
    /\ \A i, j \in 1..Len(waiting) : waiting[i] = waiting[j] => i = j
    /\ AccountsBalance
    /\ TrackersTrue

\* A step writes the record of one request.
Writes(r) ==
    /\ requests' \in [Requests -> Handlers]
    /\ \A x \in Requests : x # r => requests'[x] = requests[x]

\* End writes two fields.
LEMMA EndWrites ==
    ASSUME RouterTypeOK, NEW r \in Requests, NEW phase \in Phases, NEW ok \in BOOLEAN,
           End(r, phase, ok)
    PROVE  /\ Writes(r)
           /\ requests'[r].phase = phase /\ requests'[r].ok = ok
           /\ requests'[r].prompt = requests[r].prompt /\ requests'[r].worker = requests[r].worker
           /\ requests'[r].attempt = requests[r].attempt
<1>1. requests \in [Requests -> Handlers]
    BY DEF RouterTypeOK, Handlers
<1>2. PICK h \in Handlers : h = requests[r]
    BY <1>1
<1>3. h = [phase |-> h.phase, prompt |-> h.prompt, worker |-> h.worker, attempt |-> h.attempt, ok |-> h.ok]
    BY DEF Handlers
<1>4. [[h EXCEPT !.phase = phase] EXCEPT !.ok = ok] =
        [phase |-> phase, prompt |-> h.prompt, worker |-> h.worker, attempt |-> h.attempt, ok |-> ok]
    <2> DEFINE g == [phase |-> phase, prompt |-> h.prompt, worker |-> h.worker, attempt |-> h.attempt, ok |-> h.ok]
    <2>1. [h EXCEPT !.phase = phase] = g
        BY <1>3
    <2>2. [g EXCEPT !.ok = ok] =
            [phase |-> phase, prompt |-> h.prompt, worker |-> h.worker, attempt |-> h.attempt, ok |-> ok]
        OBVIOUS
    <2> QED
        BY <2>1, <2>2, Zenon
<1>5. requests' = [requests EXCEPT ![r] = [[h EXCEPT !.phase = phase] EXCEPT !.ok = ok]]
    BY <1>1, <1>2 DEF End
<1>6. requests' = [requests EXCEPT ![r] =
        [phase |-> phase, prompt |-> h.prompt, worker |-> h.worker, attempt |-> h.attempt, ok |-> ok]]
    BY <1>4, <1>5
<1>7. [phase |-> phase, prompt |-> h.prompt, worker |-> h.worker, attempt |-> h.attempt, ok |-> ok]
        \in Handlers
    BY DEF Handlers
<1> QED
    BY <1>1, <1>2, <1>6, <1>7 DEF Writes

\* The counts after a step that writes one record.
LEMMA CountsChange ==
    ASSUME RouterInv, NEW r \in Requests, Writes(r)
    PROVE  /\ Cardinality(Holders) \in Nat /\ Cardinality(Holders)' \in Nat
           /\ Cardinality(Holders)' = Cardinality(Holders)
                 - (IF r \in Holders THEN 1 ELSE 0) + (IF r \in Holders' THEN 1 ELSE 0)
           /\ \A w \in Workers :
                 /\ Cardinality(Unfinalised(w)) \in Nat /\ Cardinality(Unfinalised(w))' \in Nat
                 /\ Cardinality(Unfinalised(w))' = Cardinality(Unfinalised(w))
                       - (IF r \in Unfinalised(w) THEN 1 ELSE 0)
                       + (IF r \in Unfinalised(w)' THEN 1 ELSE 0)
                 /\ \A p \in Prompts :
                       /\ Cardinality(AnsweredOk(w, p)) \in Nat
                       /\ Cardinality(AnsweredOk(w, p))' \in Nat
                       /\ Cardinality(AnsweredOk(w, p))' = Cardinality(AnsweredOk(w, p))
                             - (IF r \in AnsweredOk(w, p) THEN 1 ELSE 0)
                             + (IF r \in AnsweredOk(w, p)' THEN 1 ELSE 0)
<1>1. IsFiniteSet(Requests)
    BY RouterAssumption
<1>2. PICK S, T : S = Holders /\ T = Holders'
    OBVIOUS
<1>3. IsFiniteSet(S)
    BY <1>1, <1>2, FS_Subset DEF Holders
<1>4. \A x : x # r => (x \in S <=> x \in T)
    BY <1>2 DEF Holders, Writes
<1>5. /\ Cardinality(S) \in Nat /\ Cardinality(T) \in Nat
      /\ Cardinality(T) = Cardinality(S) - (IF r \in S THEN 1 ELSE 0) + (IF r \in T THEN 1 ELSE 0)
    BY <1>3, <1>4, CardinalityOneDiffers
<1>c. ASSUME NEW U, NEW V, IsFiniteSet(U), \A x : x # r => (x \in U <=> x \in V)
      PROVE  /\ Cardinality(U) \in Nat /\ Cardinality(V) \in Nat
             /\ Cardinality(V) = Cardinality(U) - (IF r \in U THEN 1 ELSE 0) + (IF r \in V THEN 1 ELSE 0)
    BY ONLY <1>c, CardinalityOneDiffers
<1>6. ASSUME NEW w \in Workers
      PROVE  /\ Cardinality(Unfinalised(w)) \in Nat /\ Cardinality(Unfinalised(w))' \in Nat
             /\ Cardinality(Unfinalised(w))' = Cardinality(Unfinalised(w))
                       - (IF r \in Unfinalised(w) THEN 1 ELSE 0)
                       + (IF r \in Unfinalised(w)' THEN 1 ELSE 0)
    <2>1. PICK U, V : U = Unfinalised(w) /\ V = Unfinalised(w)'
        OBVIOUS
    <2>2. IsFiniteSet(U)
        BY <1>1, <2>1, FS_Subset DEF Unfinalised
    <2>3. \A x : x # r => (x \in U <=> x \in V)
        BY <2>1 DEF Unfinalised, Writes
    <2>4. /\ Cardinality(U) \in Nat /\ Cardinality(V) \in Nat
          /\ Cardinality(V) = Cardinality(U) - (IF r \in U THEN 1 ELSE 0) + (IF r \in V THEN 1 ELSE 0)
        BY ONLY <2>2, <2>3, <1>c
    <2> QED
        BY <2>1, <2>4
<1>7. ASSUME NEW w \in Workers, NEW p \in Prompts
      PROVE  /\ Cardinality(AnsweredOk(w, p)) \in Nat
             /\ Cardinality(AnsweredOk(w, p))' \in Nat
             /\ Cardinality(AnsweredOk(w, p))' = Cardinality(AnsweredOk(w, p))
                             - (IF r \in AnsweredOk(w, p) THEN 1 ELSE 0)
                             + (IF r \in AnsweredOk(w, p)' THEN 1 ELSE 0)
    <2>1. PICK U, V : U = AnsweredOk(w, p) /\ V = AnsweredOk(w, p)'
        OBVIOUS
    <2>2. IsFiniteSet(U)
        BY <1>1, <2>1, FS_Subset DEF AnsweredOk
    <2>3. \A x : x # r => (x \in U <=> x \in V)
        BY <2>1 DEF AnsweredOk, Writes
    <2>4. /\ Cardinality(U) \in Nat /\ Cardinality(V) \in Nat
          /\ Cardinality(V) = Cardinality(U) - (IF r \in U THEN 1 ELSE 0) + (IF r \in V THEN 1 ELSE 0)
        BY ONLY <2>2, <2>3, <1>c
    <2> QED
        BY <2>1, <2>4
<1> QED
    BY <1>2, <1>5, <1>6, <1>7

\* What the type invariant says, one variable at a time.
LEMMA RouterFields ==
    ASSUME RouterTypeOK
    PROVE  /\ requests \in [Requests -> Handlers] /\ in_flight \in [Workers -> Nat]
           /\ trackers \in [Workers -> Trackers] /\ slots \in 0..MaxInFlight /\ MaxInFlight \in Nat
           /\ waiting \in Seq(Requests) /\ Len(waiting) \in Nat
           /\ turns.main \in 0..(TurnCap - 1) /\ turns.fallback \in 0..(TurnCap - 1)
BY RouterAssumption DEF RouterTypeOK, Handlers, Trackers

\* Each worker's tracker, its load and the slots, taken apart.
Balanced ==
    /\ slots + Cardinality(Holders) = MaxInFlight
    /\ \A w \in Workers :
          /\ in_flight[w] = Cardinality(Unfinalised(w))
          /\ TrackerOk(trackers[w])
          /\ \A p \in Prompts : trackers[w].counts[p] <= Cardinality(AnsweredOk(w, p))

LEMMA BalancedBefore == ASSUME RouterInv PROVE Balanced
BY RouterFields DEF RouterInv, Balanced, AccountsBalance, TrackersTrue, TrackerOk

\* What is left to show of a step.
LEMMA RouterAfter ==
    ASSUME requests' \in [Requests -> Handlers], in_flight' \in [Workers -> Int],
           healthy' \in [Workers -> BOOLEAN], waiting' \in Seq(Requests),
           hits' \in Seq({0, 1}), Len(hits') <= Window, fallback' \in BOOLEAN,
           turns' \in [main : 0..(TurnCap - 1), fallback : 0..(TurnCap - 1)],
           slots' \in Int, slots' >= 0, Cardinality(Holders)' \in Nat,
           \A w \in Workers : Cardinality(Unfinalised(w))' \in Nat,
           trackers' \in [Workers -> Trackers], Balanced',
           \A r \in Requests : HandlerOk(requests'[r]),
           \A i \in 1..Len(waiting') : requests'[waiting'[i]].phase = "waiting",
           \A i, j \in 1..Len(waiting') : waiting'[i] = waiting'[j] => i = j
    PROVE  RouterInv'
<1>1. slots' \in 0..MaxInFlight
    BY RouterAssumption DEF Balanced
<1>2. in_flight' \in [Workers -> Nat]
    BY DEF Balanced
<1>3. RouterTypeOK'
    BY <1>1, <1>2 DEF RouterTypeOK, Handlers, Trackers
<1>4. AccountsBalance' /\ TrackersTrue'
    BY DEF Balanced, AccountsBalance, TrackersTrue, TrackerOk
<1> QED
    BY <1>3, <1>4 DEF RouterInv

\* The handlers in the queue are not touched by a step of another one.
LEMMA QueueKept ==
    ASSUME RouterInv, NEW r \in Requests, Writes(r), requests[r].phase # "waiting",
           UNCHANGED waiting
    PROVE  /\ waiting' \in Seq(Requests)
           /\ \A i \in 1..Len(waiting') : requests'[waiting'[i]].phase = "waiting"
           /\ \A i, j \in 1..Len(waiting') : waiting'[i] = waiting'[j] => i = j
<1>1. waiting \in Seq(Requests)
    BY RouterFields DEF RouterInv
<1>2. \A i \in 1..Len(waiting) : waiting[i] \in Requests /\ requests[waiting[i]].phase = "waiting"
    BY <1>1 DEF RouterInv
<1>3. \A i \in 1..Len(waiting) : requests'[waiting[i]].phase = "waiting"
    BY <1>2 DEF Writes
<1> QED
    BY <1>1, <1>3 DEF RouterInv

\* A handler ends: it leaves its worker's load, gives its slot back if it has one,
\* and is remembered if it was answered well.
LEMMA FinishStep ==
    ASSUME RouterInv, NEW r \in Requests, NEW ok \in BOOLEAN,
           requests[r].phase \in {"sending", "streaming"},
           Finalize(r, ok), End(r, "done", ok),
           slots' = slots + (IF requests[r].phase = "sending" THEN 1 ELSE 0),
           UNCHANGED <<healthy, waiting, hits, fallback, turns>>
    PROVE  RouterInv'
<1>1. /\ Writes(r) /\ requests'[r].phase = "done" /\ requests'[r].ok = ok
      /\ requests'[r].prompt = requests[r].prompt /\ requests'[r].worker = requests[r].worker
    BY EndWrites DEF RouterInv, Phases
<1>2. PICK w0 \in Workers : w0 = requests[r].worker
    BY DEF RouterInv, HandlerOk
<1>3. Balanced /\ RouterTypeOK
    BY BalancedBefore DEF RouterInv
<1>4. /\ requests \in [Requests -> Handlers] /\ in_flight \in [Workers -> Nat]
      /\ trackers \in [Workers -> Trackers] /\ slots \in 0..MaxInFlight /\ slots \in Nat
    BY <1>3, RouterFields
<1>5. in_flight' = [in_flight EXCEPT ![w0] = @ - 1]
    BY <1>2 DEF Finalize
<1>6. trackers' = IF ok /\ requests[r].prompt # NoPrompt
                  THEN [trackers EXCEPT ![w0] = Remember(@, requests[r].prompt)] ELSE trackers
    BY <1>2 DEF Finalize
<1>7. /\ r \in Holders <=> requests[r].phase = "sending"
      /\ r \notin Holders'
      /\ \A w \in Workers : (r \in Unfinalised(w) <=> w = w0) /\ r \notin Unfinalised(w)'
      /\ \A w \in Workers, p \in Prompts :
            /\ r \notin AnsweredOk(w, p)
            /\ r \in AnsweredOk(w, p)' <=> ok /\ w = w0 /\ p = requests[r].prompt
    BY <1>1, <1>2 DEF Holders, Unfinalised, AnsweredOk
<1>8. /\ Cardinality(Holders) \in Nat /\ Cardinality(Holders)' \in Nat
      /\ Cardinality(Holders)' = Cardinality(Holders) - (IF requests[r].phase = "sending" THEN 1 ELSE 0)
    BY <1>1, <1>7, CountsChange
<1>9. \A w \in Workers :
         /\ Cardinality(Unfinalised(w)) \in Nat /\ Cardinality(Unfinalised(w))' \in Nat
         /\ Cardinality(Unfinalised(w))' = Cardinality(Unfinalised(w)) - (IF w = w0 THEN 1 ELSE 0)
    BY <1>1, <1>7, CountsChange
<1>10. \A w \in Workers, p \in Prompts :
         /\ Cardinality(AnsweredOk(w, p)) \in Nat /\ Cardinality(AnsweredOk(w, p))' \in Nat
         /\ Cardinality(AnsweredOk(w, p))' = Cardinality(AnsweredOk(w, p))
               + (IF ok /\ w = w0 /\ p = requests[r].prompt THEN 1 ELSE 0)
    BY <1>1, <1>7, CountsChange
<1>11. ASSUME NEW w \in Workers
       PROVE  /\ TrackerOk(trackers'[w])
              /\ \A p \in Prompts : trackers'[w].counts[p] <= Cardinality(AnsweredOk(w, p))'
    <2>1. TrackerOk(trackers[w]) /\ trackers[w] \in Trackers
          /\ \A p \in Prompts : trackers[w].counts[p] <= Cardinality(AnsweredOk(w, p))
        BY <1>3, <1>4 DEF Balanced
    <2>2. CASE ok /\ requests[r].prompt # NoPrompt /\ w = w0
        <3>1. PICK p0 \in Prompts : p0 = requests[r].prompt
            BY <1>4, <2>2 DEF Handlers
        <3>2. PICK t : t = trackers[w]
            OBVIOUS
        <3>3. trackers'[w] = Remember(t, p0)
            BY <1>4, <1>6, <2>2, <3>1, <3>2
        <3>4. /\ TrackerOk(Remember(t, p0))
              /\ \A p \in Prompts : Remember(t, p0).counts[p] <= t.counts[p] + (IF p = p0 THEN 1 ELSE 0)
            BY <2>1, <3>2, RememberKeeps
        <3>5. \A p \in Prompts : Remember(t, p0).counts[p] \in Nat /\ t.counts[p] \in Nat
            BY <2>1, <3>2, <3>4 DEF TrackerOk, Trackers
        <3>6. ASSUME NEW p \in Prompts
              PROVE  Remember(t, p0).counts[p] <= Cardinality(AnsweredOk(w, p))'
            <4>1. Cardinality(AnsweredOk(w, p))' = Cardinality(AnsweredOk(w, p))
                                                   + (IF p = p0 THEN 1 ELSE 0)
                  /\ Cardinality(AnsweredOk(w, p)) \in Nat
                BY <1>10, <2>2, <3>1
            <4>2. t.counts[p] <= Cardinality(AnsweredOk(w, p))
                BY <2>1, <3>2
            <4> QED
                BY <3>4, <3>5, <4>1, <4>2
        <3> QED
            BY <3>3, <3>4, <3>6
    <2>3. CASE ~(ok /\ requests[r].prompt # NoPrompt /\ w = w0)
        <3>1. trackers'[w] = trackers[w]
            BY <1>4, <1>6, <2>3
        <3>2. \A p \in Prompts : trackers[w].counts[p] \in Nat
            BY <2>1 DEF Trackers
        <3>3. \A p \in Prompts : p # NoPrompt
            BY PromptAssumption
        <3>4. \A p \in Prompts : Cardinality(AnsweredOk(w, p))' = Cardinality(AnsweredOk(w, p))
            BY <1>10, <2>3, <3>3
        <3> QED
            BY <2>1, <3>1, <3>4
    <2> QED
        BY <2>2, <2>3
<1>12. trackers' \in [Workers -> Trackers]
    <2>1. DOMAIN trackers' = Workers /\ \A w \in Workers : trackers'[w] \in Trackers
        BY <1>4, <1>6, <1>11 DEF TrackerOk
    <2>2. trackers' = [w \in Workers |-> trackers'[w]]
        BY <1>4, <1>6
    <2> QED
        BY <2>1, <2>2
<1>13. Balanced'
    <2>1. slots' + Cardinality(Holders)' = MaxInFlight
        BY <1>3, <1>4, <1>8 DEF Balanced
    <2>2. \A w \in Workers : in_flight'[w] = Cardinality(Unfinalised(w))'
        BY <1>3, <1>4, <1>5, <1>9 DEF Balanced
    <2> QED
        BY <1>11, <2>1, <2>2 DEF Balanced
<1>14. in_flight' \in [Workers -> Int]
    BY <1>4, <1>5
<1>15. \A x \in Requests : HandlerOk(requests'[x])
    BY <1>1, <1>2 DEF Writes, RouterInv, HandlerOk
<1>16. /\ requests' \in [Requests -> Handlers] /\ slots' \in Int /\ slots' >= 0
    BY <1>1, <1>4 DEF Writes
<1>17. /\ healthy' \in [Workers -> BOOLEAN] /\ hits' \in Seq({0, 1}) /\ Len(hits') <= Window
       /\ fallback' \in BOOLEAN
       /\ turns' \in [main : 0..(TurnCap - 1), fallback : 0..(TurnCap - 1)]
    BY <1>3 DEF RouterTypeOK
<1> QED
    BY <1>1, <1>8, <1>9, <1>12, <1>13, <1>14, <1>15, <1>16, <1>17, QueueKept, RouterAfter

\* A handler goes from one of its phases with a worker to another.
LEMMA MoveStep ==
    ASSUME RouterInv, NEW r \in Requests, Writes(r),
           requests[r].phase \in UnderWay, requests'[r].phase \in UnderWay,
           requests'[r].worker = requests[r].worker,
           requests'[r].phase = "backoff" => requests'[r].attempt < MaxRetries,
           slots' = slots + (IF r \in Holders THEN 1 ELSE 0) - (IF r \in Holders' THEN 1 ELSE 0),
           r \in Holders' => r \in Holders,
           UNCHANGED <<healthy, in_flight, trackers, waiting, hits, fallback, turns>>
    PROVE  RouterInv'
<1>1. Balanced /\ RouterTypeOK
    BY BalancedBefore DEF RouterInv
<1>2. /\ in_flight \in [Workers -> Nat] /\ trackers \in [Workers -> Trackers]
      /\ slots \in 0..MaxInFlight /\ slots \in Nat
    BY <1>1, RouterFields
<1>3. /\ \A w \in Workers : r \in Unfinalised(w) <=> r \in Unfinalised(w)'
      /\ \A w \in Workers, p \in Prompts : r \notin AnsweredOk(w, p) /\ r \notin AnsweredOk(w, p)'
    BY DEF Unfinalised, AnsweredOk, UnderWay
<1>4. /\ Cardinality(Holders) \in Nat /\ Cardinality(Holders)' \in Nat
      /\ Cardinality(Holders)' = Cardinality(Holders)
            - (IF r \in Holders THEN 1 ELSE 0) + (IF r \in Holders' THEN 1 ELSE 0)
    BY CountsChange
<1>5. \A w \in Workers :
         /\ Cardinality(Unfinalised(w))' \in Nat
         /\ Cardinality(Unfinalised(w))' = Cardinality(Unfinalised(w))
    BY <1>3, CountsChange
<1>6. \A w \in Workers, p \in Prompts :
         Cardinality(AnsweredOk(w, p))' = Cardinality(AnsweredOk(w, p))
    BY <1>3, CountsChange
<1>7. Balanced'
    <2>1. slots' + Cardinality(Holders)' = MaxInFlight
        BY <1>1, <1>2, <1>4 DEF Balanced
    <2>2. \A w \in Workers : in_flight'[w] = Cardinality(Unfinalised(w))' /\ TrackerOk(trackers'[w])
        BY <1>1, <1>5 DEF Balanced
    <2>3. \A w \in Workers : \A p \in Prompts :
              trackers'[w].counts[p] <= Cardinality(AnsweredOk(w, p))'
        BY <1>1, <1>6 DEF Balanced
    <2> QED
        BY <2>1, <2>2, <2>3 DEF Balanced
<1>8. \A x \in Requests : HandlerOk(requests'[x])
    BY DEF Writes, RouterInv, UnderWay, HandlerOk
<1>9. /\ requests' \in [Requests -> Handlers] /\ slots' \in Int /\ slots' >= 0
      /\ in_flight' \in [Workers -> Int] /\ trackers' \in [Workers -> Trackers]
    BY <1>2 DEF Writes
<1>10. /\ healthy' \in [Workers -> BOOLEAN] /\ hits' \in Seq({0, 1}) /\ Len(hits') <= Window
       /\ fallback' \in BOOLEAN
       /\ turns' \in [main : 0..(TurnCap - 1), fallback : 0..(TurnCap - 1)]
    BY <1>1 DEF RouterTypeOK
<1>11. requests[r].phase # "waiting"
    BY DEF UnderWay
<1> QED
    BY <1>4, <1>5, <1>7, <1>8, <1>9, <1>10, <1>11, QueueKept, RouterAfter

\* A completion arrives at the end of the queue.
LEMMA ArriveStep == ASSUME RouterInv, NEW r \in Requests, Arrive(r) PROVE RouterInv'
<1>1. Balanced /\ RouterTypeOK
    BY BalancedBefore DEF RouterInv
<1>2. /\ in_flight \in [Workers -> Nat] /\ trackers \in [Workers -> Trackers]
      /\ slots \in 0..MaxInFlight /\ slots \in Nat
      /\ requests \in [Requests -> Handlers] /\ waiting \in Seq(Requests)
    BY <1>1, RouterFields
<1>3. /\ requests[r].phase = "new" /\ waiting' = Append(waiting, r)
      /\ requests' = [requests EXCEPT ![r].phase = "waiting"]
      /\ UNCHANGED <<healthy, in_flight, trackers, slots, hits, fallback, turns>>
    BY DEF Arrive
<1>4. requests'[r] \in Handlers /\ requests'[r].phase = "waiting"
    BY <1>2, <1>3 DEF Handlers, Phases
<1>5. Writes(r)
    BY <1>2, <1>3, <1>4 DEF Writes
<1>6. /\ r \notin Holders /\ r \notin Holders'
      /\ \A w \in Workers : r \notin Unfinalised(w) /\ r \notin Unfinalised(w)'
      /\ \A w \in Workers, p \in Prompts : r \notin AnsweredOk(w, p) /\ r \notin AnsweredOk(w, p)'
    BY <1>3, <1>4 DEF Holders, Unfinalised, AnsweredOk
<1>7. /\ Cardinality(Holders)' \in Nat /\ Cardinality(Holders)' = Cardinality(Holders)
      /\ \A w \in Workers :
            /\ Cardinality(Unfinalised(w))' \in Nat
            /\ Cardinality(Unfinalised(w))' = Cardinality(Unfinalised(w))
            /\ \A p \in Prompts : Cardinality(AnsweredOk(w, p))' = Cardinality(AnsweredOk(w, p))
    BY <1>5, <1>6, CountsChange
<1>8. Balanced'
    BY <1>1, <1>3, <1>7 DEF Balanced
<1>9. \A x \in Requests : HandlerOk(requests'[x])
    BY <1>4, <1>5 DEF Writes, RouterInv, HandlerOk
<1>10. /\ waiting' \in Seq(Requests)
       /\ \A i \in 1..Len(waiting') : requests'[waiting'[i]].phase = "waiting"
       /\ \A i, j \in 1..Len(waiting') : waiting'[i] = waiting'[j] => i = j
    <2>1. PICK n \in Nat : n = Len(waiting)
        BY <1>2
    <2>2. /\ waiting' \in Seq(Requests) /\ Len(waiting') = n + 1 /\ waiting'[n + 1] = r
          /\ \A i \in 1..n : waiting'[i] = waiting[i]
        BY <1>2, <1>3, <2>1
    <2>3. \A i \in 1..n : waiting[i] \in Requests /\ requests[waiting[i]].phase = "waiting" /\ waiting[i] # r
        BY <1>2, <1>3, <2>1 DEF RouterInv
    <2>4. \A i \in 1..n : requests'[waiting'[i]].phase = "waiting"
        BY <1>5, <2>2, <2>3 DEF Writes
    <2>5. \A i \in 1..(n + 1) : i \in 1..n \/ i = n + 1
        BY <2>1
    <2>6. \A i, j \in 1..n : waiting[i] = waiting[j] => i = j
        BY <2>1 DEF RouterInv
    <2> QED
        BY <1>4, <2>2, <2>3, <2>4, <2>5, <2>6
<1>11. /\ healthy' \in [Workers -> BOOLEAN] /\ hits' \in Seq({0, 1}) /\ Len(hits') <= Window
       /\ fallback' \in BOOLEAN
       /\ turns' \in [main : 0..(TurnCap - 1), fallback : 0..(TurnCap - 1)]
    BY <1>1, <1>3 DEF RouterTypeOK
<1>12. /\ requests' \in [Requests -> Handlers] /\ slots' \in Int /\ slots' >= 0
       /\ in_flight' \in [Workers -> Int] /\ trackers' \in [Workers -> Trackers]
    BY <1>2, <1>3, <1>5 DEF Writes
<1> QED
    BY <1>7, <1>8, <1>9, <1>10, <1>11, <1>12, RouterAfter

LEMMA OpenedStep == ASSUME RouterInv, NEW r \in Requests, NEW ok \in BOOLEAN, Opened(r, ok) PROVE RouterInv'
<1>1. /\ requests[r].phase = "sending" /\ End(r, "returned", ok) /\ slots' = slots + 1
      /\ UNCHANGED <<healthy, in_flight, trackers, waiting, hits, fallback, turns>>
    BY DEF Opened
<1>2. /\ Writes(r) /\ requests'[r].phase = "returned" /\ requests'[r].worker = requests[r].worker
    BY <1>1, EndWrites DEF RouterInv, Phases
<1>3. r \in Holders /\ r \notin Holders'
    BY <1>1, <1>2 DEF Holders
<1>4. slots' = slots + (IF r \in Holders THEN 1 ELSE 0) - (IF r \in Holders' THEN 1 ELSE 0)
    BY <1>1, <1>3, RouterFields DEF RouterInv
<1> QED
    BY <1>1, <1>2, <1>3, <1>4, MoveStep DEF UnderWay

LEMMA BreaksStep == ASSUME RouterInv, NEW r \in Requests, Breaks(r) PROVE RouterInv'
<1>1. /\ requests[r].phase = "sending" /\ End(r, "broken", FALSE) /\ slots' = slots + 1
      /\ UNCHANGED <<healthy, in_flight, trackers, waiting, hits, fallback, turns>>
    BY DEF Breaks
<1>2. /\ Writes(r) /\ requests'[r].phase = "broken" /\ requests'[r].worker = requests[r].worker
    BY <1>1, EndWrites DEF RouterInv, Phases
<1>3. r \in Holders /\ r \notin Holders'
    BY <1>1, <1>2 DEF Holders
<1>4. slots' = slots + (IF r \in Holders THEN 1 ELSE 0) - (IF r \in Holders' THEN 1 ELSE 0)
    BY <1>1, <1>3, RouterFields DEF RouterInv
<1> QED
    BY <1>1, <1>2, <1>3, <1>4, MoveStep DEF UnderWay

LEMMA FailsStep == ASSUME RouterInv, NEW r \in Requests, Fails(r) PROVE RouterInv'
<1>1. /\ requests[r].phase = "sending" /\ requests[r].attempt < MaxRetries
      /\ End(r, "backoff", FALSE)
      /\ UNCHANGED <<healthy, in_flight, trackers, slots, waiting, hits, fallback, turns>>
    BY DEF Fails
<1>2. /\ Writes(r) /\ requests'[r].phase = "backoff" /\ requests'[r].worker = requests[r].worker
      /\ requests'[r].attempt = requests[r].attempt
    BY <1>1, EndWrites DEF RouterInv, Phases
<1>3. r \in Holders /\ r \in Holders'
    BY <1>1, <1>2 DEF Holders
<1>4. slots' = slots + (IF r \in Holders THEN 1 ELSE 0) - (IF r \in Holders' THEN 1 ELSE 0)
    BY <1>1, <1>3, RouterFields DEF RouterInv
<1> QED
    BY <1>1, <1>2, <1>3, <1>4, MoveStep DEF UnderWay

LEMMA RetryStep == ASSUME RouterInv, NEW r \in Requests, Retry(r) PROVE RouterInv'
<1>1. /\ requests[r].phase = "backoff"
      /\ requests' = [requests EXCEPT ![r].phase = "sending", ![r].attempt = @ + 1]
      /\ UNCHANGED <<healthy, in_flight, trackers, slots, waiting, hits, fallback, turns>>
    BY DEF Retry
<1>2. requests \in [Requests -> Handlers] /\ slots \in Nat
    BY RouterFields DEF RouterInv
<1>3. PICK h \in Handlers : h = requests[r]
    BY <1>2
<1>4. h.attempt \in Nat /\ h.attempt < MaxRetries /\ MaxRetries \in Nat
    BY <1>1, <1>3, RouterAssumption DEF RouterInv, HandlerOk, Handlers
<1> DEFINE g == [phase |-> "sending", prompt |-> h.prompt, worker |-> h.worker,
                 attempt |-> h.attempt + 1, ok |-> h.ok]
<1>5. requests' = [requests EXCEPT ![r] = g]
    <2> DEFINE f == [phase |-> "sending", prompt |-> h.prompt, worker |-> h.worker,
                     attempt |-> h.attempt, ok |-> h.ok]
    <2>1. h = [phase |-> h.phase, prompt |-> h.prompt, worker |-> h.worker,
               attempt |-> h.attempt, ok |-> h.ok]
        BY DEF Handlers
    <2>2. [h EXCEPT !.phase = "sending"] = f
        BY <2>1
    <2>3. [f EXCEPT !.attempt = @ + 1] = g
        OBVIOUS
    <2>4. [[h EXCEPT !.phase = "sending"] EXCEPT !.attempt = @ + 1] = g
        BY <2>2, <2>3, Zenon
    <2>5. requests' = [requests EXCEPT ![r] = [[h EXCEPT !.phase = "sending"] EXCEPT !.attempt = @ + 1]]
        BY <1>1, <1>2, <1>3
    <2> QED
        BY <2>4, <2>5, Zenon
<1>6. g \in Handlers
    BY <1>4 DEF Handlers, Phases
<1>7. /\ Writes(r) /\ requests'[r].phase = "sending" /\ requests'[r].worker = requests[r].worker
    BY <1>2, <1>3, <1>5, <1>6 DEF Writes
<1>8. r \in Holders /\ r \in Holders'
    BY <1>1, <1>7 DEF Holders
<1>9. slots' = slots + (IF r \in Holders THEN 1 ELSE 0) - (IF r \in Holders' THEN 1 ELSE 0)
    BY <1>1, <1>2, <1>8
<1> QED
    BY <1>1, <1>7, <1>8, <1>9, MoveStep DEF UnderWay

\* The head of a stream was returned; the stream starts, or never will.
LEMMA StreamStep ==
    ASSUME RouterInv, NEW r \in Requests, StreamStarts(r) \/ ClientGone(r)
    PROVE  RouterInv'
<1>1. requests[r].phase = "returned" /\ requests[r].ok \in BOOLEAN
    BY RouterFields DEF RouterInv, Handlers, StreamStarts, ClientGone
<1>2. PICK phase \in {"streaming", "lost"} : End(r, phase, requests[r].ok)
    BY DEF StreamStarts, ClientGone
<1>3. UNCHANGED <<healthy, in_flight, trackers, slots, waiting, hits, fallback, turns>>
    BY DEF StreamStarts, ClientGone
<1>4. phase \in Phases
    BY DEF Phases
<1>5. /\ Writes(r) /\ requests'[r].phase = phase /\ requests'[r].worker = requests[r].worker
    BY <1>1, <1>2, <1>4, EndWrites DEF RouterInv
<1>6. r \notin Holders /\ r \notin Holders'
    BY <1>1, <1>5 DEF Holders
<1>7. slots' = slots + (IF r \in Holders THEN 1 ELSE 0) - (IF r \in Holders' THEN 1 ELSE 0)
    BY <1>3, <1>6, RouterFields DEF RouterInv
<1> QED
    BY <1>1, <1>3, <1>5, <1>6, <1>7, MoveStep DEF UnderWay

\* Finalised with the answer, with the last failure, or at the end of the stream.
LEMMA AnsweredStep == ASSUME RouterInv, NEW r \in Requests, NEW ok \in BOOLEAN, Answered(r, ok) PROVE RouterInv'
BY FinishStep DEF Answered

LEMMA GivesUpStep == ASSUME RouterInv, NEW r \in Requests, GivesUp(r) PROVE RouterInv'
BY FinishStep DEF GivesUp

LEMMA StreamEndsStep == ASSUME RouterInv, NEW r \in Requests, StreamEnds(r) PROVE RouterInv'
<1>1. PICK ok \in BOOLEAN : ok = requests[r].ok
    BY RouterFields DEF RouterInv, Handlers
<1>2. slots \in Nat
    BY RouterFields DEF RouterInv
<1>3. slots' = slots + (IF requests[r].phase = "sending" THEN 1 ELSE 0)
    BY <1>2 DEF StreamEnds
<1> QED
    BY <1>1, <1>3, FinishStep DEF StreamEnds

LEMMA CheckStep == ASSUME RouterInv, NEW w \in Workers, Check(w) PROVE RouterInv'
<1>1. healthy' = [healthy EXCEPT ![w] = ~@] /\ healthy \in [Workers -> BOOLEAN]
      /\ UNCHANGED <<in_flight, trackers, slots, waiting, requests, hits, fallback, turns>>
    BY DEF Check, RouterInv, RouterTypeOK
<1>2. healthy' \in [Workers -> BOOLEAN]
    BY <1>1
<1>3. RouterTypeOK'
    BY <1>1, <1>2 DEF RouterInv, RouterTypeOK
<1>4. AccountsBalance'
    <2>1. Holders' = Holders /\ \A x \in Workers : Unfinalised(x)' = Unfinalised(x)
        BY <1>1 DEF Holders, Unfinalised
    <2>2. AccountsBalance
        BY DEF RouterInv
    <2> QED
        BY <1>1, <2>1, <2>2 DEF AccountsBalance
<1>5. TrackersTrue'
    <2>1. \A x \in Workers, p \in Prompts : AnsweredOk(x, p)' = AnsweredOk(x, p)
        BY <1>1 DEF AnsweredOk
    <2>2. TrackersTrue
        BY DEF RouterInv
    <2> QED
        <3>1. trackers' = trackers
            BY <1>1
        <3> QED
            BY ONLY <2>1, <2>2, <3>1 DEF TrackersTrue, Occurrences
<1> QED
    BY <1>1, <1>3, <1>4, <1>5 DEF RouterInv, HandlerOk

-------------------------------------------------------------------------------
\* There is always a worker to choose from: with no healthy one, all are used.
LEMMA UsableIn == Usable \in SUBSET Workers /\ Usable # {}
BY WorkersAssumption DEF Usable

LEMMA ChoiceIn ==
    ASSUME RouterTypeOK, NEW prompt
    PROVE  /\ Choice(prompt) \in SUBSET Usable /\ Choice(prompt) # {}
<1>1. in_flight \in [Workers -> Int]
    BY RouterFields
<1>2. \A policy \in {"rr", "least-load", "cache-aware"} :
          /\ Candidates(policy, Usable, prompt, in_flight, trackers) \in SUBSET Usable
          /\ Candidates(policy, Usable, prompt, in_flight, trackers) # {}
    BY <1>1, UsableIn, CandidatesIn
<1>3. Policy \in {"rr", "least-load", "cache-aware"} /\ FallbackPolicy \in {"rr", "least-load", "cache-aware"}
    BY RouterAssumption
<1> QED
    BY <1>2, <1>3 DEF Choice

\* The counters stay within their cap.
LEMMA CountersIn ==
    ASSUME RouterTypeOK
    PROVE  /\ turns[Counter] \in Nat
           /\ [turns EXCEPT ![Counter] = (@ + 1) % TurnCap]
                 \in [main : 0..(TurnCap - 1), fallback : 0..(TurnCap - 1)]
<1>1. TurnCap \in Nat \ {0}
    BY RouterAssumption
<1>2. PICK t : t = turns
    OBVIOUS
<1>3. t \in [main : 0..(TurnCap - 1), fallback : 0..(TurnCap - 1)]
    BY <1>2 DEF RouterTypeOK
<1>4. PICK m \in 0..(TurnCap - 1), f \in 0..(TurnCap - 1) : t = [main |-> m, fallback |-> f]
    BY <1>3
<1>5. \A k \in 0..(TurnCap - 1) : (k + 1) % TurnCap \in 0..(TurnCap - 1)
    BY <1>1
<1>6. CASE Counter = "main"
    <2>1. t["main"] = m
        BY <1>4
    <2>2. [t EXCEPT !["main"] = (@ + 1) % TurnCap] = [main |-> (m + 1) % TurnCap, fallback |-> f]
        BY <1>4
    <2> QED
        BY <1>1, <1>2, <1>5, <1>6, <2>1, <2>2
<1>7. CASE Counter = "fallback"
    <2>1. t["fallback"] = f
        BY <1>4
    <2>2. [t EXCEPT !["fallback"] = (@ + 1) % TurnCap] = [main |-> m, fallback |-> (f + 1) % TurnCap]
        BY <1>4
    <2> QED
        BY <1>1, <1>2, <1>5, <1>7, <2>1, <2>2
<1> QED
    BY <1>6, <1>7 DEF Counter

\* The window holds as many samples as it may.
LEMMA LatestKeeps ==
    ASSUME NEW seq \in Seq({0, 1}), Len(seq) <= Window, NEW hit \in {0, 1}
    PROVE  Latest(Append(seq, hit)) \in Seq({0, 1}) /\ Len(Latest(Append(seq, hit))) <= Window
<1>1. PICK longer \in Seq({0, 1}) : longer = Append(seq, hit) /\ Len(longer) = Len(seq) + 1
    <2>1. Append(seq, hit) \in Seq({0, 1}) /\ Len(Append(seq, hit)) = Len(seq) + 1
        BY AppendProperties
    <2> QED
        BY <2>1
<1>2. Window \in Nat /\ Len(seq) \in Nat
    BY RouterAssumption
<1>3. longer # <<>>
    BY <1>1, <1>2
<1>4. Tail(longer) \in Seq({0, 1}) /\ Len(Tail(longer)) = Len(longer) - 1
    BY <1>3
<1> QED
    BY <1>1, <1>2, <1>4 DEF Latest

\* What admitting a completion does to its record: its worker is one of the choice.
LEMMA AdmitEffect ==
    ASSUME RouterInv, NEW r \in Requests, Admit(r)
    PROVE  \E w \in Choice(requests[r].prompt) :
             /\ w \in Workers /\ w \in Usable
             /\ in_flight' = [in_flight EXCEPT ![w] = @ + 1]
             /\ Writes(r) /\ requests'[r].phase = "sending" /\ requests'[r].worker = w
             /\ hits' \in Seq({0, 1}) /\ Len(hits') <= Window
<1>1. /\ RouterTypeOK /\ requests \in [Requests -> Handlers]
      /\ hits \in Seq({0, 1}) /\ Len(hits) <= Window
    BY RouterFields DEF RouterInv, RouterTypeOK
<1>2. PICK prompt : prompt = requests[r].prompt
    OBVIOUS
<1>3. PICK S : S = Choice(prompt)
    OBVIOUS
<1>4. S \in SUBSET Usable /\ S # {} /\ S \in SUBSET Workers
    BY <1>1, <1>3, ChoiceIn, UsableIn
<1>5. PICK w \in S : w = Turn(S, turns[Counter])
    BY <1>1, <1>4, CountersIn, TurnIn
<1>6. /\ in_flight' = [in_flight EXCEPT ![w] = @ + 1]
      /\ requests' = [requests EXCEPT ![r].phase = "sending", ![r].worker = w]
      /\ hits' = IF Policy = "cache-aware" /\ prompt # NoPrompt
                 THEN Latest(Append(hits, Predicted(prompt, w))) ELSE hits
    BY <1>2, <1>3, <1>5 DEF Admit
<1>7. hits' \in Seq({0, 1}) /\ Len(hits') <= Window
    <2>1. PICK hit \in {0, 1} : hit = Predicted(prompt, w)
        BY DEF Predicted
    <2>2. Latest(Append(hits, hit)) \in Seq({0, 1}) /\ Len(Latest(Append(hits, hit))) <= Window
        BY <1>1, LatestKeeps
    <2> QED
        BY <1>1, <1>6, <2>1, <2>2
<1>8. PICK h \in Handlers : h = requests[r]
    BY <1>1
<1> DEFINE g == [phase |-> "sending", prompt |-> h.prompt, worker |-> w,
                 attempt |-> h.attempt, ok |-> h.ok]
<1>9. requests' = [requests EXCEPT ![r] = g]
    <2> DEFINE f == [phase |-> "sending", prompt |-> h.prompt, worker |-> h.worker,
                     attempt |-> h.attempt, ok |-> h.ok]
    <2>1. h = [phase |-> h.phase, prompt |-> h.prompt, worker |-> h.worker,
               attempt |-> h.attempt, ok |-> h.ok]
        BY DEF Handlers
    <2>2. [h EXCEPT !.phase = "sending"] = f
        BY <2>1
    <2>3. [f EXCEPT !.worker = w] = g
        OBVIOUS
    <2>4. [[h EXCEPT !.phase = "sending"] EXCEPT !.worker = w] = g
        BY <2>2, <2>3, Zenon
    <2>5. requests' = [requests EXCEPT ![r] = [[h EXCEPT !.phase = "sending"] EXCEPT !.worker = w]]
        BY <1>1, <1>6, <1>8
    <2> QED
        BY <2>4, <2>5, Zenon
<1>10. g \in Handlers
    BY <1>4 DEF Handlers, Phases
<1>11. Writes(r) /\ requests'[r].phase = "sending" /\ requests'[r].worker = w
    BY <1>1, <1>9, <1>10 DEF Writes
<1>12. w \in Workers /\ w \in Usable /\ w \in Choice(requests[r].prompt)
    BY <1>2, <1>3, <1>4
<1> QED
    BY <1>6, <1>7, <1>11, <1>12

\* The first of the queue leaves it, takes a slot and adds to its worker's load.
LEMMA AdmitStep == ASSUME RouterInv, NEW r \in Requests, Admit(r) PROVE RouterInv'
<1>1. Balanced /\ RouterTypeOK
    BY BalancedBefore DEF RouterInv
<1>2. /\ in_flight \in [Workers -> Nat] /\ trackers \in [Workers -> Trackers]
      /\ slots \in 0..MaxInFlight /\ slots \in Nat /\ waiting \in Seq(Requests)
    BY <1>1, RouterFields
<1>3. \E w \in Workers :
             /\ in_flight' = [in_flight EXCEPT ![w] = @ + 1]
             /\ Writes(r) /\ requests'[r].phase = "sending" /\ requests'[r].worker = w
             /\ hits' \in Seq({0, 1}) /\ Len(hits') <= Window
    BY AdmitEffect
<1>4. PICK w0 \in Workers :
             /\ in_flight' = [in_flight EXCEPT ![w0] = @ + 1]
             /\ Writes(r) /\ requests'[r].phase = "sending" /\ requests'[r].worker = w0
             /\ hits' \in Seq({0, 1}) /\ Len(hits') <= Window
    BY <1>3
<1>5. /\ waiting # <<>> /\ r = Head(waiting) /\ slots > 0
      /\ waiting' = Tail(waiting) /\ slots' = slots - 1
      /\ turns' = [turns EXCEPT ![Counter] = (@ + 1) % TurnCap] /\ fallback' = UsesFallback
      /\ UNCHANGED <<healthy, trackers>>
    BY DEF Admit
<1>6. PICK n \in Nat \ {0} : n = Len(waiting)
    BY <1>2, <1>5
<1>7. waiting[1] = r /\ requests[r].phase = "waiting"
    <2>1. waiting[1] = r
        BY <1>2, <1>5
    <2> QED
        BY <1>6, <2>1 DEF RouterInv
<1>8. /\ r \notin Holders /\ r \in Holders'
      /\ \A w \in Workers : r \notin Unfinalised(w) /\ (r \in Unfinalised(w)' <=> w = w0)
      /\ \A w \in Workers, p \in Prompts : r \notin AnsweredOk(w, p) /\ r \notin AnsweredOk(w, p)'
    BY <1>4, <1>7 DEF Holders, Unfinalised, AnsweredOk
<1>9. /\ Cardinality(Holders) \in Nat /\ Cardinality(Holders)' \in Nat
      /\ Cardinality(Holders)' = Cardinality(Holders) + 1
    BY <1>4, <1>8, CountsChange
<1>10. \A w \in Workers :
            /\ Cardinality(Unfinalised(w)) \in Nat /\ Cardinality(Unfinalised(w))' \in Nat
            /\ Cardinality(Unfinalised(w))' = Cardinality(Unfinalised(w)) + (IF w = w0 THEN 1 ELSE 0)
    BY <1>4, <1>8, CountsChange
<1>11. \A w \in Workers, p \in Prompts : Cardinality(AnsweredOk(w, p))' = Cardinality(AnsweredOk(w, p))
    BY <1>4, <1>8, CountsChange
<1>12. Balanced'
    <2>1. slots' + Cardinality(Holders)' = MaxInFlight
        BY <1>1, <1>2, <1>5, <1>9 DEF Balanced
    <2>2. \A w \in Workers : in_flight'[w] = Cardinality(Unfinalised(w))'
        BY <1>1, <1>2, <1>4, <1>10 DEF Balanced
    <2>3. \A w \in Workers : TrackerOk(trackers'[w])
        BY <1>1, <1>5 DEF Balanced
    <2>4. \A w \in Workers : \A p \in Prompts :
              trackers'[w].counts[p] <= Cardinality(AnsweredOk(w, p))'
        BY <1>1, <1>5, <1>11 DEF Balanced
    <2> QED
        BY <2>1, <2>2, <2>3, <2>4 DEF Balanced
<1>13. /\ waiting' \in Seq(Requests)
       /\ \A i \in 1..Len(waiting') : requests'[waiting'[i]].phase = "waiting"
       /\ \A i, j \in 1..Len(waiting') : waiting'[i] = waiting'[j] => i = j
    <2>1. /\ waiting' \in Seq(Requests) /\ Len(waiting') = n - 1
          /\ \A i \in 1..(n - 1) : waiting'[i] = waiting[i + 1]
        BY <1>2, <1>5, <1>6
    <2>2. \A i \in 1..(n - 1) : i + 1 \in 1..n /\ i + 1 # 1
        BY <1>6
    <2>3. \A i, j \in 1..n : waiting[i] = waiting[j] => i = j
        BY <1>6 DEF RouterInv
    <2>4. \A i \in 1..n : waiting[i] \in Requests /\ requests[waiting[i]].phase = "waiting"
        BY <1>2, <1>6 DEF RouterInv
    <2>5. 1 \in 1..n
        BY <1>6
    <2>6. \A i \in 1..(n - 1) : waiting[i + 1] # r
        BY <1>7, <2>2, <2>3, <2>5
    <2>7. \A i \in 1..(n - 1) : requests'[waiting'[i]].phase = "waiting"
        BY <1>4, <2>1, <2>2, <2>4, <2>6 DEF Writes
    <2>8. \A i, j \in 1..(n - 1) : waiting'[i] = waiting'[j] => i = j
        BY <1>6, <2>1, <2>2, <2>3
    <2> QED
        BY <2>1, <2>7, <2>8
<1>14. \A x \in Requests : HandlerOk(requests'[x])
    BY <1>4 DEF Writes, RouterInv, HandlerOk
<1>15. /\ healthy' \in [Workers -> BOOLEAN] /\ fallback' \in BOOLEAN
       /\ turns' \in [main : 0..(TurnCap - 1), fallback : 0..(TurnCap - 1)]
    BY <1>1, <1>5, CountersIn DEF RouterTypeOK, UsesFallback
<1>16. /\ requests' \in [Requests -> Handlers] /\ slots' \in Int /\ slots' >= 0
       /\ in_flight' \in [Workers -> Int] /\ trackers' \in [Workers -> Trackers]
    BY <1>2, <1>4, <1>5 DEF Writes
<1> QED
    BY <1>4, <1>9, <1>10, <1>12, <1>13, <1>14, <1>15, <1>16, RouterAfter

-------------------------------------------------------------------------------
LEMMA RouterInit == ASSUME Init PROVE RouterInv
<1>1. PICK mix \in [Requests -> Prompts \union {NoPrompt}] :
          requests = [r \in Requests |-> [phase |-> "new", prompt |-> mix[r], worker |-> Nobody,
                                          attempt |-> 0, ok |-> FALSE]]
    BY RouterAssumption DEF Init
<1>2. MaxInFlight \in Nat /\ MaxRetries \in Nat /\ TurnCap \in Nat \ {0} /\ Window \in Nat
    BY RouterAssumption
<1>3. /\ in_flight = [w \in Workers |-> 0] /\ trackers = [w \in Workers |-> EmptyTracker]
      /\ slots = MaxInFlight /\ waiting = <<>> /\ healthy = [w \in Workers |-> TRUE]
      /\ hits = <<>> /\ fallback = FALSE /\ turns = [main |-> 0, fallback |-> 0]
    BY DEF Init
<1>4. /\ Len(waiting) = 0 /\ waiting \in Seq(Requests) /\ hits \in Seq({0, 1}) /\ Len(hits) <= Window
    BY <1>2, <1>3
<1>5. EmptyTracker \in Trackers /\ EmptyTracker.queue = <<>> /\ \A p \in Prompts : EmptyTracker.counts[p] = 0
    BY DEF EmptyTracker, Trackers
<1>6. requests \in [Requests -> Handlers]
    BY <1>1, <1>2 DEF Handlers, Phases
<1>7. \A r \in Requests : requests[r].phase = "new"
    BY <1>1
<1>8. RouterTypeOK
    <2>1. trackers \in [Workers -> Trackers] /\ in_flight \in [Workers -> Nat]
          /\ healthy \in [Workers -> BOOLEAN] /\ fallback \in BOOLEAN
        BY <1>3, <1>5
    <2>2. slots \in 0..MaxInFlight /\ 0 \in 0..(TurnCap - 1)
        BY <1>2, <1>3
    <2>3. turns \in [main : 0..(TurnCap - 1), fallback : 0..(TurnCap - 1)]
        BY <1>3, <2>2
    <2> QED
        BY <1>4, <1>6, <2>1, <2>2, <2>3 DEF RouterTypeOK, Handlers, Trackers
<1>9. /\ Holders = {}
      /\ \A w \in Workers : Unfinalised(w) = {}
      /\ \A w \in Workers, p \in Prompts : AnsweredOk(w, p) = {}
    BY <1>7 DEF Holders, Unfinalised, AnsweredOk
<1>10. Cardinality({}) = 0
    BY FS_EmptySet
<1>11. AccountsBalance
    <2>1. slots + Cardinality(Holders) = MaxInFlight
        BY <1>2, <1>3, <1>9, <1>10
    <2>2. \A w \in Workers : in_flight[w] = Cardinality(Unfinalised(w))
        BY <1>3, <1>9, <1>10
    <2> QED
        BY <2>1, <2>2 DEF AccountsBalance
<1>12. TrackersTrue
    <2>1. \A p \in Prompts : Occurrences(<<>>, p) = {}
        BY DEF Occurrences
    <2>2. \A w \in Workers : trackers[w].queue = <<>> /\ \A p \in Prompts : trackers[w].counts[p] = 0
        BY <1>3, <1>5
    <2>3. Len(<<>>) = 0 /\ CacheEntries \in Nat
        BY CacheAssumption
    <2>4. \A w \in Workers, p \in Prompts :
              /\ Cardinality(Occurrences(trackers[w].queue, p)) = 0
              /\ Cardinality(AnsweredOk(w, p)) = 0
        BY <1>9, <1>10, <2>1, <2>2
    <2> QED
        BY <2>2, <2>3, <2>4 DEF TrackersTrue
<1> QED
    BY <1>4, <1>7, <1>8, <1>11, <1>12 DEF RouterInv, HandlerOk

LEMMA RouterNext == ASSUME RouterInv, [Next]_routerVars PROVE RouterInv'
<1>1. ASSUME NEW r \in Requests, Handle(r) PROVE RouterInv'
    <2>1. CASE Arrive(r)
        BY <2>1, ArriveStep
    <2>2. CASE Admit(r)
        BY <2>2, AdmitStep
    <2>3. CASE \E ok \in BOOLEAN : Answered(r, ok) \/ Opened(r, ok)
        BY <2>3, AnsweredStep, OpenedStep
    <2>4. CASE Fails(r)
        BY <2>4, FailsStep
    <2>5. CASE GivesUp(r) \/ Breaks(r)
        BY <2>5, GivesUpStep, BreaksStep
    <2>6. CASE Retry(r)
        BY <2>6, RetryStep
    <2>7. CASE StreamStarts(r) \/ ClientGone(r)
        BY <2>7, StreamStep
    <2>8. CASE StreamEnds(r)
        BY <2>8, StreamEndsStep
    <2> QED
        BY <1>1, <2>1, <2>2, <2>3, <2>4, <2>5, <2>6, <2>7, <2>8 DEF Handle, Attempt
<1>2. ASSUME NEW w \in Workers, Check(w) PROVE RouterInv'
    BY <1>2, CheckStep
<1>3. CASE UNCHANGED routerVars
    <2>1. UNCHANGED <<healthy, in_flight, trackers, slots, waiting, requests, hits, fallback, turns>>
        BY <1>3 DEF routerVars
    <2>2. RouterTypeOK' /\ AccountsBalance'
        BY <2>1 DEF RouterInv, RouterTypeOK, AccountsBalance, Holders, Unfinalised
    <2>3. TrackersTrue'
        <3>1. \A x \in Workers, p \in Prompts : AnsweredOk(x, p)' = AnsweredOk(x, p)
            BY <2>1 DEF AnsweredOk
        <3>2. TrackersTrue
            BY DEF RouterInv
        <3> QED
            BY <2>1, <3>1, <3>2 DEF TrackersTrue, Occurrences
    <2> QED
        BY <2>1, <2>2, <2>3 DEF RouterInv, HandlerOk
<1> QED
    BY <1>1, <1>2, <1>3 DEF Next

\* The router's inductive invariant holds in every reachable state.
LEMMA RouterAlways == Spec => []RouterInv
BY RouterInit, RouterNext, PTL DEF Spec

\* The variables have their types: the free slots stay between none and
\* max_in_flight, no load goes below zero, the window and the turn counters keep
\* their bounds, and an attempt is never past the last retry.
THEOREM RouterTypesCorrect == Spec => []RouterTypeOK
<1>1. RouterInv => RouterTypeOK
    BY DEF RouterInv
<1> QED
    BY <1>1, RouterAlways, PTL

\* However completions are retried, streamed, dropped, given up or broken off by
\* an exception, every slot comes back, and every worker's load is the number of
\* its completions that are under way or were never finalised (app.py, the
\* semaphore and finalize).
THEOREM EveryAccountBalances == Spec => []AccountsBalance
<1>1. RouterInv => AccountsBalance
    BY DEF RouterInv
<1> QED
    BY <1>1, RouterAlways, PTL

\* A worker's tracker never counts a prompt more often than its queue holds it, or
\* than the worker has answered it (policy.py, _evict_if_needed).
THEOREM TrackersTellTheTruth == Spec => []TrackersTrue
<1>1. RouterInv => TrackersTrue
    BY DEF RouterInv
<1> QED
    BY <1>1, RouterAlways, PTL

-------------------------------------------------------------------------------
\* Only admission sends a completion that waits.
LEMMA OnlyAdmits ==
    ASSUME RouterInv, Next, NEW r \in Requests, Admitted(r)
    PROVE  Admit(r)
<1>1. requests \in [Requests -> Handlers]
    BY RouterFields DEF RouterInv
<1>2. requests[r].phase = "waiting" /\ requests'[r].phase = "sending"
    BY DEF Admitted
<1>3. ASSUME NEW x \in Requests, Handle(x), ~Admit(x) PROVE FALSE
    <2>1. CASE Arrive(x)
        BY <1>1, <1>2, <2>1 DEF Arrive
    <2>2. ASSUME NEW phase, NEW ok, End(x, phase, ok), requests[x].phase # "waiting" PROVE FALSE
        BY <1>1, <1>2, <2>2 DEF End
    <2>3. CASE \E ok \in BOOLEAN : Answered(x, ok) \/ Opened(x, ok)
        BY <2>2, <2>3 DEF Answered, Opened
    <2>4. CASE Fails(x) \/ GivesUp(x) \/ Breaks(x) \/ StreamStarts(x) \/ ClientGone(x) \/ StreamEnds(x)
        BY <2>2, <2>4 DEF Fails, GivesUp, Breaks, StreamStarts, ClientGone, StreamEnds
    <2>5. CASE Retry(x)
        BY <1>1, <1>2, <2>5 DEF Retry
    <2> QED
        BY <1>3, <2>1, <2>3, <2>4, <2>5 DEF Handle, Attempt
<1>4. ASSUME NEW w \in Workers, Check(w) PROVE FALSE
    BY <1>2, <1>4 DEF Check
<1>5. PICK x \in Requests : Admit(x)
    BY <1>3, <1>4 DEF Next
<1>6. x = r
    <2>1. Writes(x)
        BY <1>5, AdmitEffect
    <2> QED
        BY <1>2, <2>1 DEF Writes
<1> QED
    BY <1>5, <1>6

\* What the load and the prefix buy: a worker of the choice is at most as much
\* busier as a cached prefix weighs.
LEMMA PullOfChoice ==
    ASSUME RouterTypeOK, Policy = "cache-aware", UsesFallback => FallbackPolicy = "least-load",
           NEW prompt, NEW w \in Choice(prompt), NEW x \in Usable
    PROVE  LoadWeight * (in_flight[w] - in_flight[x]) <= HitWeight
<1>1. w \in Usable /\ w \in Workers /\ x \in Workers
    BY ChoiceIn, UsableIn
<1>2. PICK busy \in Nat : busy = in_flight[w]
    BY <1>1, RouterFields
<1>3. PICK free \in Nat : free = in_flight[x]
    BY <1>1, RouterFields
<1>4. HitWeight \in Nat /\ LoadWeight \in Nat
    BY WeightAssumption
<1>5. CASE w \in LeastLoaded(Usable, in_flight)
    <2>1. busy - free <= 0 /\ busy - free \in Int
        BY <1>2, <1>3, <1>5 DEF LeastLoaded
    <2>2. \A k \in Nat, d \in Int : d <= 0 => k * d <= 0
        OBVIOUS
    <2>3. LoadWeight * (busy - free) <= 0
        BY <1>4, <2>1, <2>2
    <2> QED
        BY <1>2, <1>3, <1>4, <2>1, <2>3
<1>6. CASE w \in CacheAware(Usable, prompt, in_flight, trackers) /\ prompt # NoPrompt
    <2>1. PICK hitW \in {0, 1} : hitW = IF Hit(trackers[w], prompt) THEN 1 ELSE 0
        OBVIOUS
    <2>2. PICK hitX \in {0, 1} : hitX = IF Hit(trackers[x], prompt) THEN 1 ELSE 0
        OBVIOUS
    <2>3. Score(x, prompt, in_flight, trackers) <= Score(w, prompt, in_flight, trackers)
        BY <1>6 DEF CacheAware
    <2>4. HitWeight * hitX - LoadWeight * free <= HitWeight * hitW - LoadWeight * busy
        BY <1>2, <1>3, <2>1, <2>2, <2>3 DEF Score
    <2>5. 0 <= HitWeight * hitX /\ HitWeight * hitW <= HitWeight
          /\ HitWeight * hitX \in Int /\ HitWeight * hitW \in Int
        BY <1>4
    <2>6. LoadWeight * (busy - free) = LoadWeight * busy - LoadWeight * free
          /\ LoadWeight * busy \in Int /\ LoadWeight * free \in Int
        BY <1>4
    <2> QED
        BY <1>2, <1>3, <1>4, <2>4, <2>5, <2>6
<1>7. w \in LeastLoaded(Usable, in_flight)
      \/ (w \in CacheAware(Usable, prompt, in_flight, trackers) /\ prompt # NoPrompt)
    BY DEF Choice, Candidates, CacheAware
<1> QED
    BY <1>5, <1>6, <1>7

\* A cached prefix sends a completion to a busier worker only as far as the weights
\* allow, for every pair of weights and whatever the trackers say (policy.py,
\* CacheAwarePolicy.select; app.py, choose_worker).
THEOREM PrefixPullIsBounded == Spec => PrefixPullBounded
<1> DEFINE Bounded == Policy = "cache-aware" /\ (fallback' => FallbackPolicy = "least-load") =>
               \A r \in Requests : Admitted(r) =>
                   \A x \in Usable :
                       LoadWeight * (in_flight[requests'[r].worker] - in_flight[x]) <= HitWeight
<1>1. ASSUME RouterInv, Next PROVE Bounded
    <2> SUFFICES ASSUME Policy = "cache-aware", fallback' => FallbackPolicy = "least-load",
                        NEW r \in Requests, Admitted(r), NEW x \in Usable
                 PROVE  LoadWeight * (in_flight[requests'[r].worker] - in_flight[x]) <= HitWeight
        OBVIOUS
    <2>1. Admit(r)
        BY <1>1, OnlyAdmits
    <2>2. UsesFallback => FallbackPolicy = "least-load"
        BY <2>1 DEF Admit
    <2>3. PICK w \in Choice(requests[r].prompt) : requests'[r].worker = w
        BY <1>1, <2>1, AdmitEffect
    <2> QED
        BY <1>1, <2>2, <2>3, PullOfChoice DEF RouterInv
<1>2. RouterInv /\ [Next]_routerVars => [Bounded]_routerVars
    BY <1>1
<1>3. Spec => [][Bounded]_routerVars
    BY <1>2, RouterAlways, PTL DEF Spec
<1> QED
    BY <1>3 DEF PrefixPullBounded
===============================================================================
