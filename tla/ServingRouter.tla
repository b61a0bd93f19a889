---------------------------- MODULE ServingRouter ----------------------------
(***************************************************************************)
(* The serving router (router/app.py): completions wait for one of         *)
(* max_in_flight slots, are sent to a worker, retried there, and finalised *)
(* in its counts.  A streamed completion gives its slot up when its        *)
(* response is returned and is finalised when the stream ends.  Two ways   *)
(* out never finalise: a client that is gone before its stream starts, and *)
(* an exception that is no httpx.HTTPError.                                *)
(*                                                                         *)
(* The handlers are asyncio tasks: an action is what runs between two      *)
(* awaits.  /v1/chat/completions and /v1/completions have the same body.   *)
(***************************************************************************)
EXTENDS PrefixPolicies

CONSTANTS
    Requests,       \* completions, each sent once by its client
    Streamed,       \* those that ask for a stream
    PromptMixes,    \* the prompts the requests may come with
    MaxInFlight, MaxRetries,
    Policy, FallbackPolicy,
    Window, MinSamples,          \* fallback_window, fallback_min_samples
    FallbackBelow, RecoverAt,    \* hit rates in percent
    TurnCap,        \* the counters of the policies wrap around here
    Nobody

ASSUME RouterAssumption ==
    /\ IsFiniteSet(Requests) /\ Streamed \subseteq Requests
    /\ PromptMixes \subseteq [Requests -> Prompts \union {NoPrompt}]
    /\ MaxInFlight \in Nat \ {0} /\ MaxRetries \in Nat
    /\ Policy \in {"rr", "least-load", "cache-aware"} /\ FallbackPolicy \in {"rr", "least-load"}
    /\ Window \in Nat /\ MinSamples \in Nat /\ FallbackBelow \in Int /\ RecoverAt \in Int
    /\ TurnCap \in Nat \ {0}
    /\ Nobody \notin Workers

VARIABLES
    healthy,      \* worker.healthy
    in_flight,    \* worker.in_flight
    trackers,     \* worker.cache_tracker
    slots,        \* free slots of the semaphore
    waiting,      \* requests that wait for one, first come first served
    requests,     \* the handler of each request
    hits,         \* recent_cache_hits
    fallback,     \* fallback_active
    turns         \* the counters of the policy and of the fallback policy

routerVars == <<healthy, in_flight, trackers, slots, waiting, requests, hits, fallback, turns>>

\* "returned": the StreamingResponse is returned and its generator not started;
\* "lost": it never will be; "broken": an exception has left the handler.
Phases == {"new", "waiting", "sending", "backoff", "returned", "streaming", "done", "lost", "broken"}

Init ==
    /\ healthy = [w \in Workers |-> TRUE]
    /\ in_flight = [w \in Workers |-> 0]
    /\ trackers = [w \in Workers |-> EmptyTracker]
    /\ slots = MaxInFlight
    /\ waiting = <<>>
    /\ \E mix \in PromptMixes :
          requests = [r \in Requests |-> [phase |-> "new", prompt |-> mix[r], worker |-> Nobody,
                                          attempt |-> 0, ok |-> FALSE]]
    /\ hits = <<>>
    /\ fallback = FALSE
    /\ turns = [main |-> 0, fallback |-> 0]

-------------------------------------------------------------------------------
\* choose_worker
Usable == IF \E w \in Workers : healthy[w] THEN {w \in Workers : healthy[w]} ELSE Workers

HitCount == Cardinality({i \in DOMAIN hits : hits[i] = 1})
Samples == IF hits = <<>> THEN 1 ELSE Len(hits)

\* Between the two thresholds the fallback stays as it is.  It is off while the
\* samples are too few, and they never get fewer.
UsesFallback ==
    /\ Policy = "cache-aware" /\ FallbackBelow >= 0 /\ Len(hits) >= MinSamples
    /\ 100 * HitCount < (IF fallback THEN RecoverAt ELSE FallbackBelow) * Samples

Arrive(r) ==
    /\ requests[r].phase = "new"
    /\ requests' = [requests EXCEPT ![r].phase = "waiting"]
    /\ waiting' = Append(waiting, r)
    /\ UNCHANGED <<healthy, in_flight, trackers, slots, hits, fallback, turns>>

Choice(prompt) ==
    IF UsesFallback THEN Candidates(FallbackPolicy, Usable, prompt, in_flight, trackers)
                    ELSE Candidates(Policy, Usable, prompt, in_flight, trackers)
Counter == IF UsesFallback THEN "fallback" ELSE "main"

\* cache_hit_pred: in fallback the prompt is a hit when any worker has it.
Predicted(prompt, w) ==
    IF \/ UsesFallback /\ \E x \in Usable : Hit(trackers[x], prompt)
       \/ ~UsesFallback /\ Hit(trackers[w], prompt)
    THEN 1 ELSE 0

Latest(seq) == IF Len(seq) > Window THEN Tail(seq) ELSE seq

\* The first in the queue gets a slot, a worker and is sent.
Admit(r) ==
    /\ waiting # <<>> /\ r = Head(waiting)
    /\ slots > 0
    /\ LET prompt == requests[r].prompt
           w == Turn(Choice(prompt), turns[Counter])
       IN  /\ in_flight' = [in_flight EXCEPT ![w] = @ + 1]
           /\ requests' = [requests EXCEPT ![r].phase = "sending", ![r].worker = w]
           /\ hits' = IF Policy = "cache-aware" /\ prompt # NoPrompt
                      THEN Latest(Append(hits, Predicted(prompt, w))) ELSE hits
    /\ turns' = [turns EXCEPT ![Counter] = (@ + 1) % TurnCap]
    /\ fallback' = UsesFallback
    /\ waiting' = Tail(waiting)
    /\ slots' = slots - 1
    /\ UNCHANGED <<healthy, trackers>>

-------------------------------------------------------------------------------
End(r, phase, ok) == requests' = [requests EXCEPT ![r].phase = phase, ![r].ok = ok]

Finalize(r, ok) ==
    LET w == requests[r].worker
    IN  /\ in_flight' = [in_flight EXCEPT ![w] = @ - 1]
        /\ trackers' = IF ok /\ requests[r].prompt # NoPrompt
                       THEN [trackers EXCEPT ![w] = Remember(@, requests[r].prompt)] ELSE trackers

\* The worker answers, with an error status or not; a body that is no JSON
\* becomes an error of the router after the request is finalised.
Answered(r, ok) ==
    /\ requests[r].phase = "sending"
    /\ r \notin Streamed
    /\ Finalize(r, ok)
    /\ End(r, "done", ok)
    /\ slots' = slots + 1
    /\ UNCHANGED <<healthy, waiting, hits, fallback, turns>>

\* The head of a streamed answer: the handler returns.
Opened(r, ok) ==
    /\ requests[r].phase = "sending"
    /\ r \in Streamed
    /\ End(r, "returned", ok)
    /\ slots' = slots + 1
    /\ UNCHANGED <<healthy, in_flight, trackers, waiting, hits, fallback, turns>>

\* httpx.HTTPError, a timeout included, with a retry left.
Fails(r) ==
    /\ requests[r].phase = "sending"
    /\ requests[r].attempt < MaxRetries
    /\ End(r, "backoff", FALSE)
    /\ UNCHANGED <<healthy, in_flight, trackers, slots, waiting, hits, fallback, turns>>

\* The next attempt goes to the same worker, healthy or not.
Retry(r) ==
    /\ requests[r].phase = "backoff"
    /\ requests' = [requests EXCEPT ![r].phase = "sending", ![r].attempt = @ + 1]
    /\ UNCHANGED <<healthy, in_flight, trackers, slots, waiting, hits, fallback, turns>>

\* Mutant: the slot is kept.
GivesUpWithSlot(r) ==
    /\ requests[r].phase = "sending"
    /\ requests[r].attempt >= MaxRetries
    /\ Finalize(r, FALSE)
    /\ End(r, "done", FALSE)
    /\ UNCHANGED <<healthy, slots, waiting, hits, fallback, turns>>

\* The last attempt fails: 502.
GivesUp(r) ==
    /\ requests[r].phase = "sending"
    /\ requests[r].attempt >= MaxRetries
    /\ Finalize(r, FALSE)
    /\ End(r, "done", FALSE)
    /\ slots' = slots + 1
    /\ UNCHANGED <<healthy, waiting, hits, fallback, turns>>

\* Another exception, such as a payload that does not encode or a URL that httpx
\* refuses: it passes the except clause, the semaphore is left, and the load is
\* never given back.
Breaks(r) ==
    /\ requests[r].phase = "sending"
    /\ End(r, "broken", FALSE)
    /\ slots' = slots + 1
    /\ UNCHANGED <<healthy, in_flight, trackers, waiting, hits, fallback, turns>>

\* The server takes the first chunk of the stream, or its client is gone.
StreamStarts(r) ==
    /\ requests[r].phase = "returned"
    /\ End(r, "streaming", requests[r].ok)
    /\ UNCHANGED <<healthy, in_flight, trackers, slots, waiting, hits, fallback, turns>>

ClientGone(r) ==
    /\ requests[r].phase = "returned"
    /\ End(r, "lost", requests[r].ok)
    /\ UNCHANGED <<healthy, in_flight, trackers, slots, waiting, hits, fallback, turns>>

\* Mutant: finalised by each chunk.
StreamEndsAgain(r) ==
    /\ requests[r].phase = "streaming"
    /\ Finalize(r, requests[r].ok)
    /\ UNCHANGED requests
    /\ UNCHANGED <<healthy, slots, waiting, hits, fallback, turns>>

\* The stream ends, breaks or loses its client: finalised by its first status.
StreamEnds(r) ==
    /\ requests[r].phase = "streaming"
    /\ Finalize(r, requests[r].ok)
    /\ End(r, "done", requests[r].ok)
    /\ UNCHANGED <<healthy, slots, waiting, hits, fallback, turns>>

\* healthcheck_loop
Check(w) ==
    /\ healthy' = [healthy EXCEPT ![w] = ~@]
    /\ UNCHANGED <<in_flight, trackers, slots, waiting, requests, hits, fallback, turns>>

-------------------------------------------------------------------------------
\* Both endpoints run these steps.
Attempt(r) == (\E ok \in BOOLEAN : Answered(r, ok) \/ Opened(r, ok))
              \/ Fails(r) \/ GivesUp(r) \/ Breaks(r)
Handle(r) == Arrive(r) \/ Admit(r) \/ Attempt(r) \/ Retry(r)
             \/ StreamStarts(r) \/ ClientGone(r) \/ StreamEnds(r)

Next == (\E r \in Requests : Handle(r)) \/ (\E w \in Workers : Check(w))

Spec == Init /\ [][Next]_routerVars

\* The client of httpx has a timeout, the backoff a delay, and the semaphore
\* wakes its first waiter.  A stream may last for ever.
Fairness == \A r \in Requests : WF_routerVars(Admit(r)) /\ WF_routerVars(Attempt(r)) /\ WF_routerVars(Retry(r))
FairSpec == Spec /\ Fairness

-------------------------------------------------------------------------------
\* The handlers that are between the semaphore and their answer, and those
\* that are not finalised at a worker.
Holders == {r \in Requests : requests[r].phase \in {"sending", "backoff"}}
Unfinalised(w) == {r \in Requests : /\ requests[r].worker = w
                                    /\ requests[r].phase \notin {"new", "waiting", "done"}}

RouterTypeOK ==
    /\ healthy \in [Workers -> BOOLEAN]
    /\ in_flight \in [Workers -> Nat]
    /\ trackers \in [Workers -> [queue : Seq(Prompts), counts : [Prompts -> Nat]]]
    /\ slots \in 0..MaxInFlight
    /\ waiting \in Seq(Requests)
    /\ requests \in [Requests -> [phase : Phases, prompt : Prompts \union {NoPrompt},
                                  worker : Workers \union {Nobody},
                                  attempt : 0..MaxRetries, ok : BOOLEAN]]
    /\ hits \in Seq({0, 1}) /\ Len(hits) <= Window
    /\ fallback \in BOOLEAN
    /\ turns \in [main : 0..(TurnCap - 1), fallback : 0..(TurnCap - 1)]

\* Every way out of a handler gives its slot back.  The load a worker is chosen
\* by is the number of its completions that are under way, and of those that
\* were never finalised, because the client was gone before its stream started
\* or an exception passed the handler's except clause; every other completion
\* is finalised exactly once.
AccountsBalance ==
    /\ slots + Cardinality(Holders) = MaxInFlight
    /\ \A w \in Workers : in_flight[w] = Cardinality(Unfinalised(w))

\* A tracker's counts are those of its bounded queue, and it holds nothing but
\* prompts that its worker has answered without an error.
Occurrences(queue, prompt) == {i \in DOMAIN queue : queue[i] = prompt}
AnsweredOk(w, prompt) == {r \in Requests : /\ requests[r].phase = "done" /\ requests[r].ok
                                           /\ requests[r].worker = w /\ requests[r].prompt = prompt}
TrackersTrue ==
    \A w \in Workers :
        /\ Len(trackers[w].queue) <= CacheEntries
        /\ \A p \in Prompts :
              /\ trackers[w].counts[p] = Cardinality(Occurrences(trackers[w].queue, p))
              /\ trackers[w].counts[p] <= Cardinality(AnsweredOk(w, p))

\* A cached prefix draws a completion to a busier worker only as far as its
\* weight buys, and no fallback draws it further: nobody queues behind a hot
\* prefix without limit.
Admitted(r) == requests[r].phase = "waiting" /\ requests'[r].phase = "sending"
PrefixPullBounded ==
    [][Policy = "cache-aware" /\ (fallback' => FallbackPolicy = "least-load") =>
        \A r \in Requests : Admitted(r) =>
            \A x \in Usable :
                LoadWeight * (in_flight[requests'[r].worker] - in_flight[x]) <= HitWeight]_routerVars

\* No completion waits for ever, however many streams stay open: every one is
\* answered, by its worker, by an error of the router, or by the head of a stream.
EveryRequestAnswered ==
    \A r \in Requests : requests[r].phase = "waiting" ~>
        requests[r].phase \in {"returned", "streaming", "done", "lost", "broken"}
===============================================================================
