---------------------------- MODULE PrefixPolicies ----------------------------
(***************************************************************************)
(* The policies of the serving router (router/policy.py): round robin,     *)
(* least load and cache aware, and the tracker of the prompts each worker  *)
(* has answered lately, which stands for its prefix cache.                 *)
(*                                                                         *)
(* Workers are numbered in the order of the configuration file, which is   *)
(* the order the policies see them in.  The weights are whole numbers.     *)
(***************************************************************************)
EXTENDS Integers, Sequences, FiniteSets

CONSTANTS
    Workers,        \* a finite set of numbers
    Prompts,        \* fingerprints of prompt prefixes
    NoPrompt,       \* the request has no prompt
    CacheEntries,   \* max_entries of each tracker
    HitWeight, LoadWeight

ASSUME WorkersAssumption == Workers \subseteq Nat /\ IsFiniteSet(Workers) /\ Workers # {}
ASSUME WeightAssumption == HitWeight \in Nat /\ LoadWeight \in Nat
ASSUME CacheAssumption == CacheEntries \in Nat
ASSUME PromptAssumption == NoPrompt \notin Prompts

EmptyTracker == [queue |-> <<>>, counts |-> [p \in Prompts |-> 0]]

\* Mutant: the evicted entry keeps its count.
EvictUncounted(tracker) ==
    IF Len(tracker.queue) <= CacheEntries THEN tracker
    ELSE [tracker EXCEPT !.queue = Tail(@)]

\* _evict_if_needed: one entry has been added, so at most one is too many.
Evict(tracker) ==
    IF Len(tracker.queue) <= CacheEntries THEN tracker
    ELSE [queue |-> Tail(tracker.queue),
          counts |-> [tracker.counts EXCEPT ![Head(tracker.queue)] = IF @ <= 1 THEN 0 ELSE @ - 1]]

Remember(tracker, prompt) ==
    Evict([queue |-> Append(tracker.queue, prompt),
           counts |-> [tracker.counts EXCEPT ![prompt] = @ + 1]])

Hit(tracker, prompt) == prompt # NoPrompt /\ tracker.counts[prompt] > 0

\* candidates[counter % len(candidates)]
Turn(S, counter) == CHOOSE w \in S : Cardinality({x \in S : x < w}) = counter % Cardinality(S)

LeastLoaded(S, load) == {w \in S : \A x \in S : load[w] <= load[x]}

\* Mutant: a worker that has the prompt is not charged for its load.
ScoreUncharged(w, prompt, load, trackers) ==
    IF Hit(trackers[w], prompt) THEN HitWeight ELSE -(LoadWeight * load[w])

Score(w, prompt, load, trackers) ==
    HitWeight * (IF Hit(trackers[w], prompt) THEN 1 ELSE 0) - LoadWeight * load[w]

\* CacheAwarePolicy.select; load_tolerance is stored and not used.
CacheAware(S, prompt, load, trackers) ==
    IF prompt = NoPrompt THEN LeastLoaded(S, load)
    ELSE {w \in S : \A x \in S : Score(x, prompt, load, trackers) <= Score(w, prompt, load, trackers)}

\* The workers a policy takes its turns over.
Candidates(policy, S, prompt, load, trackers) ==
    CASE policy = "rr" -> S
      [] policy = "least-load" -> LeastLoaded(S, load)
      [] policy = "cache-aware" -> CacheAware(S, prompt, load, trackers)
===============================================================================
