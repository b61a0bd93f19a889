---------------------------- MODULE GroupPlacement ----------------------------
(***************************************************************************)
(* The group routing policies (router/rl/routing.py): where each of them   *)
(* places the requests of one rollout group, given the workers as their    *)
(* heartbeats left them.  place_group has no await and keeps nothing but   *)
(* the counter of the round robin.                                         *)
(*                                                                         *)
(* A worker is the rank of its id.  Times are counted in 1/Unit seconds,   *)
(* and Unit is a multiple of every rate, so that they are whole.           *)
(***************************************************************************)
EXTENDS Integers, Sequences, SequencesExt

CONSTANTS
    NumWorkers,     \* workers 1..NumWorkers
    WorkerStates,   \* what a heartbeat may report
    Rollouts,       \* the groups that may be routed, all of one size and version
    Digests,        \* two words of the digest of each request's id
    Unit,
    WMakespan, WPrefill, WSkew, WWait,  \* ObjectiveWeights, multiplied to whole numbers
    RiskShare, RiskUnit,                \* its risk is RiskShare / RiskUnit
    TurnCap,        \* the round-robin counter wraps around here
    Nothing

VARIABLES
    workers,    \* the RolloutWorkerState of each worker
    counter,    \* of the round-robin policy
    placed,     \* the last decision, until a worker changes
    tally       \* requests placed by round robin since the READY workers changed

\* What a heartbeat may say: counts and whole rates, of which Unit is a multiple.
Reports == [ready : BOOLEAN, fresh : BOOLEAN, version : Nat, running : Nat, queued : Nat,
            prefill : Nat, decode : Nat, prefill_rate : Nat \ {0}, decode_rate : Nat \ {0},
            matched : Nat]

Requests(g) == Len(g.p90)

ASSUME WorkerAssumption ==
    /\ NumWorkers \in Nat /\ Unit \in Nat \ {0}
    /\ \A s \in WorkerStates : /\ s \in Reports
                              /\ Unit % s.prefill_rate = 0 /\ Unit % s.decode_rate = 0

\* A group has a request, and each of its requests two estimates and a digest.
ASSUME GroupAssumption ==
    \A g \in Rollouts :
        /\ g \in [version : Nat, prompt : Nat, mean : Seq(Nat), p90 : Seq(Nat)]
        /\ Requests(g) > 0 /\ Len(g.mean) = Requests(g)
        /\ \A draw \in Digests : draw \in Seq(Nat \X Nat) /\ Len(draw) = Requests(g)
        /\ \A h \in Rollouts : h.version = g.version /\ Requests(h) = Requests(g)

ASSUME WeightAssumption ==
    /\ WMakespan \in Nat \ {0} /\ WPrefill \in Nat /\ WSkew \in Nat /\ WWait \in Nat
    /\ RiskUnit \in Nat \ {0} /\ RiskShare \in 0..RiskUnit

\* The counter of the code does not wrap around; here it does where no turn shows it.
ASSUME TurnAssumption == TurnCap \in Nat \ {0} /\ \A n \in 1..NumWorkers : TurnCap % n = 0

placementVars == <<workers, counter, placed, tally>>

Workers == 1..NumWorkers

\* prefix_matched_tokens are those of the group's prefix.
Matched(w, g) == Min({g.prompt, workers[w].matched})
Prefill(w, g) == g.prompt - Matched(w, g)
PrefillTime(w, tokens) == tokens * (Unit \div workers[w].prefill_rate)
DecodeTime(w, tokens) == tokens * (Unit \div workers[w].decode_rate)

\* Mutant: the tokens that are being decoded do not wait.
QueuedPrefillTime(w) == PrefillTime(w, workers[w].prefill)
QueueTime(w) == PrefillTime(w, workers[w].prefill) + DecodeTime(w, workers[w].decode)

\* Mutant: a worker that has gone silent is still eligible.
EligibleSilent(g) == {w \in Workers : workers[w].ready /\ workers[w].version = g.version}

\* is_eligible: READY, at the group's version, and heard of in time.
Eligible(g) == {w \in Workers : workers[w].ready /\ workers[w].version = g.version /\ workers[w].fresh}

\* sorted(S, key=...), where precedes compares the keys.
Sorted(S, precedes(_, _)) ==
    [k \in 1..Cardinality(S) |-> CHOOSE x \in S : Cardinality({y \in S : precedes(y, x)}) = k - 1]

\* eligible_workers: the ready list, and the requests in the order of their index.
Ready(g) == Sorted(Eligible(g), LAMBDA v, w : v < w)
Samples(g) == DOMAIN g.p90
InOrder(g) == [i \in Samples(g) |-> i]
LongestFirst(g) ==
    Sorted(Samples(g), LAMBDA i, j : g.p90[i] > g.p90[j] \/ (g.p90[i] = g.p90[j] /\ i < j))

\* min(..., key=(load, worker_id))
LeastOf(S, load) == CHOOSE w \in S : \A x \in S : load[w] < load[x] \/ (load[w] = load[x] /\ w <= x)

-------------------------------------------------------------------------------
\* Requests placed one after the other, each on the least loaded of the workers
\* among[i] it may go to, whose load it adds cost[i] to.
PlaceOne(acc, i, among, cost) ==
    LET w == LeastOf(among[i], acc.load)
    IN  [load |-> [acc.load EXCEPT ![w] = @ + cost[i][w]],
         at |-> [acc.at EXCEPT ![i] = w]]

Greedy(order, load, among, cost) ==
    FoldLeft(LAMBDA acc, i : PlaceOne(acc, i, among, cost),
             [load |-> load, at |-> [i \in Range(order) |-> Nothing]], order).at

Tokens(w) == workers[w].prefill + workers[w].decode
TokenCosts(g) == [i \in Samples(g) |-> [w \in Eligible(g) |-> g.prompt + g.p90[i]]]
DecodeTimes(g) == [i \in Samples(g) |-> [w \in Eligible(g) |-> DecodeTime(w, g.p90[i])]]
Anywhere(g) == [i \in Samples(g) |-> Eligible(g)]

\* Mutant: the virtual load starts without the queued requests.
LeastRequestsUncounted(g) ==
    Greedy(InOrder(g), [w \in Eligible(g) |-> workers[w].running],
           Anywhere(g), [i \in Samples(g) |-> [w \in Eligible(g) |-> 1]])

LeastRequests(g) ==
    Greedy(InOrder(g), [w \in Eligible(g) |-> workers[w].running + workers[w].queued],
           Anywhere(g), [i \in Samples(g) |-> [w \in Eligible(g) |-> 1]])

LeastQueuedTokens(g) ==
    Greedy(LongestFirst(g), [w \in Eligible(g) |-> Tokens(w)],
           Anywhere(g), TokenCosts(g))

LoadProportional(g) ==
    Greedy(LongestFirst(g), [w \in Eligible(g) |-> QueueTime(w)],
           Anywhere(g), DecodeTimes(g))

\* The longest matched prefix comes first, and the queue decides between equals.
CacheAwareGroup(g) ==
    LET longest == Max({Matched(w, g) : w \in Eligible(g)})
    IN  Greedy(InOrder(g), [w \in Eligible(g) |-> QueueTime(w)],
               [i \in Samples(g) |-> {w \in Eligible(g) : Matched(w, g) = longest}], DecodeTimes(g))

\* seq[n], counted from zero and around.
Nth(seq, n) == seq[(n % Len(seq)) + 1]

\* Two workers, from two words of the digest of the request id.
Draws(g, draw, i) ==
    LET ready == Ready(g)
        first == Nth(ready, draw[i][1])
        second == Nth(ready, draw[i][2])
    IN  {first, IF second = first THEN Nth(ready, draw[i][2] + 1) ELSE second}

PowerOfTwo(g, draw) ==
    Greedy(InOrder(g), [w \in Eligible(g) |-> Tokens(w)],
           [i \in Samples(g) |-> Draws(g, draw, i)], TokenCosts(g))

\* Request after request, from an offset on.
Rotate(g, offset) == LET ready == Ready(g) IN [i \in Samples(g) |-> Nth(ready, offset + i - 1)]
EvenSplit(g) == Rotate(g, 0)
Pack(g, w) == [i \in Samples(g) |-> w]

FixedPack(g) ==
    LET time == [w \in Eligible(g) |-> QueueTime(w) + PrefillTime(w, Prefill(w, g))]
        fastest == {w \in Eligible(g) : \A x \in Eligible(g) : time[w] <= time[x]}
    IN  Pack(g, LeastOf(fastest, [w \in fastest |-> workers[w].running]))

-------------------------------------------------------------------------------
\* AdaptiveGroupPolicy.  The candidates in the order of their names.
CandidatePlacements(g) ==
    LET ready == Ready(g)
    IN  [k \in 1..Len(ready) |-> Pack(g, ready[k])] \o <<EvenSplit(g), LoadProportional(g)>>

Used(at) == Range(at)
On(at, w) == {i \in DOMAIN at : at[i] = w}
SumOf(seq, S) == MapThenSumSet(LAMBDA i : seq[i], S)

\* When a worker is through with its requests, times RiskUnit.
FinishTime(g, at, w) ==
    RiskUnit * (QueueTime(w) + PrefillTime(w, Prefill(w, g)))
    + DecodeTime(w, (RiskUnit - RiskShare) * SumOf(g.mean, On(at, w)) + RiskShare * SumOf(g.p90, On(at, w)))

\* Mutant: the group is done when its first worker is.
FirstFinished(g, at) == Min({FinishTime(g, at, w) : w \in Used(at)})
Makespan(g, at) == Max({FinishTime(g, at, w) : w \in Used(at)})

\* The prefill tokens that are computed more than once, the tokens each worker gets,
\* and the longest queue, times RiskUnit.
Duplicated(g, at) ==
    SumOf([w \in Used(at) |-> Prefill(w, g)], Used(at)) - Min({Prefill(w, g) : w \in Used(at)})
Loads(g, at) == [w \in Used(at) |-> SumOf(g.p90, On(at, w)) + Prefill(w, g)]
Wait(at) == RiskUnit * Max({QueueTime(w) : w \in Used(at)})

\* _score, times RiskUnit and Unit; a fraction, since the skew is one.
Total(g, at) == Max({Cardinality(Used(at)), SumOf(Loads(g, at), Used(at))})
Cost(g, at) ==
    WMakespan * Makespan(g, at) + WPrefill * Duplicated(g, at) * RiskUnit * Unit + WWait * Wait(at)
Score(g, at) ==
    LET total == Total(g, at)
    IN  [num |-> Cost(g, at) * total
                 + WSkew * RiskUnit * Unit * Max(Range(Loads(g, at))) * Cardinality(Used(at)),
         den |-> total]

\* min(scores, key=(score, name))
Before(s, t) ==
    \/ s.score.num * t.score.den < t.score.num * s.score.den
    \/ s.score.num * t.score.den = t.score.num * s.score.den /\ s.name <= t.name

Adaptive(g) ==
    LET candidates == CandidatePlacements(g)
        scores == {[name |-> k, score |-> Score(g, candidates[k])] : k \in DOMAIN candidates}
    IN  candidates[(CHOOSE s \in scores : \A t \in scores : Before(s, t)).name]

\* OfflineOraclePolicy: the expected length of a request is its p90.
Oracle(g) == Adaptive([g EXCEPT !.mean = g.p90])

-------------------------------------------------------------------------------
Init ==
    /\ workers \in [Workers -> WorkerStates]
    /\ counter = 0
    /\ placed = Nothing
    /\ tally = [w \in Workers |-> 0]

\* A heartbeat, or the silence of a worker, which may change who is READY.
Report(w, state) ==
    /\ workers' = [workers EXCEPT ![w] = state]
    /\ tally' = [x \in Workers |-> 0]
    /\ placed' = Nothing
    /\ UNCHANGED counter

Decide(policy, g, at) ==
    /\ placed' = [policy |-> policy, group |-> g, at |-> at]
    /\ UNCHANGED workers

Place(policy, g, at) ==
    /\ Eligible(g) # {}
    /\ Decide(policy, g, at)
    /\ UNCHANGED <<counter, tally>>

\* Mutant: the counter does not advance.
RoundRobinStuck(g) ==
    /\ Eligible(g) # {}
    /\ Decide("round-robin", g, Rotate(g, counter))
    /\ tally' = [w \in Workers |-> tally[w] + Cardinality(On(placed'.at, w))]
    /\ UNCHANGED counter

\* The tally is kept relative to the worker with the fewest requests.
RoundRobin(g) ==
    /\ Eligible(g) # {}
    /\ Decide("round-robin", g, Rotate(g, counter))
    /\ counter' = (counter + 1) % TurnCap
    /\ LET sum == [w \in Workers |-> tally[w] + Cardinality(On(placed'.at, w))]
       IN  tally' = [w \in Workers |-> IF w \in Eligible(g)
                                        THEN sum[w] - Min({sum[x] : x \in Eligible(g)}) ELSE 0]

Next ==
    \/ \E w \in Workers, state \in WorkerStates : Report(w, state)
    \/ \E g \in Rollouts :
          \/ RoundRobin(g)
          \/ Place("fixed-pack", g, FixedPack(g))
          \/ Place("fixed-even-split", g, EvenSplit(g))
          \/ Place("least-queued-tokens", g, LeastQueuedTokens(g))
          \/ Place("least-requests", g, LeastRequests(g))
          \/ Place("cache-aware-group", g, CacheAwareGroup(g))
          \/ \E draw \in Digests : Place("power-of-two", g, PowerOfTwo(g, draw))
          \/ Place("load-proportional-split", g, LoadProportional(g))
          \/ Place("adaptive-group", g, Adaptive(g))
          \/ Place("offline-oracle", g, Oracle(g))

Spec == Init /\ [][Next]_placementVars

-------------------------------------------------------------------------------
\* Whatever the policy, turn or draw, every request of the group gets one worker,
\* which is READY, at the group's version and not silent.
PlacedOnServing ==
    placed # Nothing => \A i \in Samples(placed.group) :
        \E w \in Workers : /\ placed.at[i] = w
                           /\ workers[w].ready /\ workers[w].fresh
                           /\ workers[w].version = placed.group.version

\* What each policy means to balance: the load of a worker before the group, and
\* what a request adds to it.
Balancing == {"least-requests", "least-queued-tokens", "load-proportional-split", "power-of-two"}
LoadBefore(policy, w) ==
    CASE policy = "least-requests" -> workers[w].running + workers[w].queued
      [] policy \in {"least-queued-tokens", "power-of-two"} -> workers[w].prefill + workers[w].decode
      [] policy = "load-proportional-split" -> QueueTime(w)
LoadAdded(policy, w, g, i) ==
    CASE policy = "least-requests" -> 1
      [] policy \in {"least-queued-tokens", "power-of-two"} -> g.prompt + g.p90[i]
      [] policy = "load-proportional-split" -> DecodeTime(w, g.p90[i])

LoadAfter(policy, g, at) ==
    [w \in Eligible(g) |-> LoadBefore(policy, w) +
        SumOf([i \in Samples(g) |-> LoadAdded(policy, w, g, i)], On(at, w))]

Balanced(policy, g, at) ==
    LET load == LoadAfter(policy, g, at)
        without(w, i) == load[w] - LoadAdded(policy, w, g, i)
    IN  \A w \in Used(at) : \E i \in On(at, w) :
            IF policy = "power-of-two" /\ Cardinality(Eligible(g)) > 1
            THEN \E x \in Eligible(g) \ {w} : without(w, i) <= load[x]
            ELSE \A x \in Eligible(g) \ {w} : without(w, i) <= load[x]

\* No balancing policy overloads a worker by more than one request: without one
\* of the requests it got, it is no busier than any other READY worker is in the
\* end (with two random choices: than some other).
GreedyBalanced ==
    placed # Nothing /\ placed.policy \in Balancing =>
        Balanced(placed.policy, placed.group, placed.at)

\* While the READY workers stay the same, round robin, whose offset advances by
\* one for a whole group, never gives one of them more requests than another by
\* more than what one group leaves over.
RoundRobinFair ==
    placed # Nothing /\ placed.policy = "round-robin" =>
        LET n == Cardinality(Eligible(placed.group))
            over == Len(placed.group.p90) % n
        IN  \A w \in Workers : tally[w] <= Min({over, n - over})

\* A group is never packed on a worker when another READY one has at most its
\* queue, at least its rates and its prefix, and less of one queue.
Outdone(g, w) ==
    \E x \in Eligible(g) :
        /\ workers[x].prefill <= workers[w].prefill /\ workers[x].decode <= workers[w].decode
        /\ workers[x].prefill_rate >= workers[w].prefill_rate
        /\ workers[x].decode_rate >= workers[w].decode_rate
        /\ workers[x].matched >= workers[w].matched
        /\ workers[x].prefill + workers[x].decode < workers[w].prefill + workers[w].decode
PackNotOutdone ==
    placed # Nothing /\ placed.policy \in {"fixed-pack", "adaptive-group", "offline-oracle"} =>
        \A w \in Workers : Used(placed.at) = {w} => ~Outdone(placed.group, w)

\* The adaptive policy pays for the duplicated prefill of a split with time: the
\* group is expected to end no later than packed on any of the workers it uses.
SplitPays ==
    placed # Nothing /\ placed.policy = "adaptive-group" =>
        \A w \in Used(placed.at), x \in Used(placed.at) :
            FinishTime(placed.group, placed.at, x) <=
                FinishTime(placed.group, Pack(placed.group, w), w)
===============================================================================
