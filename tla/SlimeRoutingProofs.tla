-------------------------- MODULE SlimeRoutingProofs --------------------------
(***************************************************************************)
(* Theorems about GroupBarrier for groups of any number and size and any   *)
(* policy versions, requests and templates, and, after them, about         *)
(* SlimeRouting for any number of engines and faults, too: the calls of a  *)
(* group share one decision, and the load of a worker never exceeds its    *)
(* calls.                                                                  *)
(***************************************************************************)
EXTENDS SlimeRouting, FiniteSetTheorems, TLAPS

\* What every group satisfies in memory and in the snapshot: the recorded
\* samples are of the group's version and of one template, and a READY group
\* has all of them.
Sound(group) ==
    /\ group.status = "READY" => Completed(group) = Indices
    /\ \A i \in Completed(group) : group.responses[i].served = group.version
    /\ \A i, j \in Completed(group) :
          group.responses[i].template = group.responses[j].template

SoundInv == TypeOK /\ \A g \in Groups : Sound(groups[g]) /\ Sound(saved[g])

-------------------------------------------------------------------------------
\* What recording a response does to a group.
LEMMA RecordEffect ==
    ASSUME NEW group \in GroupStates, NEW i \in Indices, NEW r \in Response
    PROVE  /\ Record(group, i, r) \in GroupStates
           /\ Record(group, i, r).version = group.version
           /\ Record(group, i, r).responses = [group.responses EXCEPT ![i] = r]
           /\ Completed(Record(group, i, r)) = Completed(group) \union {i}
           /\ \/ Record(group, i, r).status = group.status
              \/ Record(group, i, r).status = "READY" /\ Completed(Record(group, i, r)) = Indices
<1> DEFINE recorded == [group EXCEPT !.responses[i] = r, !.failed = @ \ {i}]
           ready == [recorded EXCEPT !.status = "READY"]
<1>1. recorded \in GroupStates /\ ready \in GroupStates
    BY DEF GroupStates, Statuses
<1>2. /\ recorded.responses = [group.responses EXCEPT ![i] = r] /\ recorded.version = group.version
      /\ recorded.status = group.status
      /\ ready.responses = recorded.responses /\ ready.version = group.version
      /\ ready.status = "READY"
    BY DEF GroupStates
<1>3. Completed(recorded) = Completed(group) \union {i} /\ Completed(ready) = Completed(recorded)
    BY <1>2, NoResponseAssumption DEF Completed, GroupStates
<1>4. Record(group, i, r) = IF IsComplete(recorded) THEN ready ELSE recorded
    BY DEF Record
<1>5. IsComplete(recorded) => Completed(recorded) = Indices
    BY DEF IsComplete
<1> HIDE DEF recorded, ready
<1> QED
    BY <1>1, <1>2, <1>3, <1>4, <1>5

\* A recorded response leaves the status alone, or the group is complete.
LEMMA RecordStatus ==
    ASSUME NEW group \in GroupStates, NEW i \in Indices, NEW r \in Response
    PROVE  /\ Record(group, i, r) \in GroupStates
           /\ \/ Record(group, i, r).status = group.status
              \/ Record(group, i, r).status = "READY" /\ Completed(Record(group, i, r)) = Indices
<1>1. PICK new : new = Record(group, i, r)
    OBVIOUS
<1>2. /\ new \in GroupStates
      /\ new.status = group.status \/ (new.status = "READY" /\ Completed(new) = Indices)
    BY <1>1, RecordEffect
<1> QED
    BY <1>1, <1>2

\* A response that passes the checks keeps the group sound.
LEMMA RecordSound ==
    ASSUME NEW group \in GroupStates, NEW i \in Indices, NEW r \in Response,
           Sound(group), r.served = group.version, TemplateAgrees(group, r)
    PROVE  Sound(Record(group, i, r))
<1> DEFINE new == Record(group, i, r)
<1>1. /\ new.version = group.version /\ new.responses = [group.responses EXCEPT ![i] = r]
      /\ Completed(new) = Completed(group) \union {i}
      /\ new.status = group.status \/ Completed(new) = Indices
    BY RecordEffect
<1>2. \A j \in Completed(group) : j # i => new.responses[j] = group.responses[j]
    BY <1>1 DEF Completed, GroupStates
<1>3. new.responses[i] = r
    BY <1>1 DEF GroupStates
<1>4. Completed(new) \subseteq Indices
    BY DEF Completed
<1> HIDE DEF new
<1>5. new.status = "READY" => Completed(new) = Indices
    BY <1>1, <1>4 DEF Sound
<1>6. \A j \in Completed(new) : new.responses[j].served = new.version
    BY <1>1, <1>2, <1>3 DEF Sound
<1>7. \A j, k \in Completed(new) : new.responses[j].template = new.responses[k].template
    BY <1>1, <1>2, <1>3 DEF Sound, TemplateAgrees
<1>8. Sound(new)
    BY <1>5, <1>6, <1>7 DEF Sound
<1> QED
    BY <1>8 DEF new

\* A group just registered is sound.
LEMMA FreshSound ==
    ASSUME NEW v \in Versions
    PROVE  /\ Fresh(v) \in GroupStates /\ Sound(Fresh(v))
           /\ [Fresh(v) EXCEPT !.status = "ABSENT"] \in GroupStates
           /\ Sound([Fresh(v) EXCEPT !.status = "ABSENT"])
BY DEF Fresh, GroupStates, Statuses, Sound, Completed

\* Sound groups stay sound when only failures and a status short of READY change.
LEMMA SameSamples ==
    ASSUME NEW old \in GroupStates, NEW new \in GroupStates, Sound(old),
           new.responses = old.responses, new.version = old.version,
           new.status = "READY" => old.status = "READY"
    PROVE  Sound(new)
BY DEF Sound, Completed

-------------------------------------------------------------------------------
\* The tracker starts without groups.
LEMMA SoundInit == Init => SoundInv
BY FreshSound DEF Init, SoundInv, TypeOK, CountCap

\* Every operation, in any order and with any lost snapshot, keeps the groups
\* sound, in memory and on disk.
LEMMA SoundNext == SoundInv /\ [Next]_vars => SoundInv'
<1> SUFFICES ASSUME SoundInv, [Next]_vars PROVE SoundInv'
    OBVIOUS
<1> USE DEF SoundInv
<1>0. \A n \in 0..CountCap : OneMore(n) \in 0..CountCap
    BY DEF OneMore, CountCap
<1>s. SnapshotOutcomes \subseteq BOOLEAN
    BY DEF SnapshotOutcomes
<1>1. CASE RouteSome
    <2> PICK g \in Groups, version \in Versions, stored \in SnapshotOutcomes :
             Route(g, version, stored)
        BY <1>1 DEF RouteSome
    <2>1. groups' \in [Groups -> GroupStates] /\ \A h \in Groups : Sound(groups'[h])
        BY FreshSound DEF Route, TypeOK
    <2>2. saved' \in [Groups -> GroupStates] /\ \A h \in Groups : Sound(saved'[h])
        BY <1>s, <2>1 DEF Route, Persist, TypeOK
    <2>3. UNCHANGED counted
        BY DEF Route
    <2> QED
        BY <2>1, <2>2, <2>3 DEF TypeOK
<1>2. CASE ReplaySome
    BY <1>2 DEF ReplaySome, Replay, TypeOK
<1>3. CASE CompleteSome
    <2> PICK g \in Groups, i \in 0..Size, requested \in Versions, r \in Response,
             traced \in BOOLEAN, stored \in SnapshotOutcomes :
                Complete(g, i, requested, r, stored, traced)
        BY <1>3 DEF CompleteSome
    <2>1. i \in Indices /\ r.served = groups[g].version /\ TemplateAgrees(groups[g], r)
        BY DEF Complete, Valid
    <2>2. groups[g] \in GroupStates /\ Sound(groups[g])
        BY DEF TypeOK
    <2>3. Record(groups[g], i, r) \in GroupStates /\ Sound(Record(groups[g], i, r))
        BY <2>1, <2>2, RecordEffect, RecordSound
    <2>4. groups' = [groups EXCEPT ![g] = Record(groups[g], i, r)]
        BY DEF Complete
    <2>5. groups' \in [Groups -> GroupStates] /\ \A h \in Groups : Sound(groups'[h])
        BY <2>3, <2>4 DEF TypeOK
    <2>6. saved' \in [Groups -> GroupStates] /\ \A h \in Groups : Sound(saved'[h])
        BY <1>s, <2>5 DEF Complete, Persist, TypeOK
    <2>7. counted' \in [Groups -> 0..CountCap]
        BY <1>0 DEF Complete, TypeOK
    <2> QED
        BY <2>5, <2>6, <2>7 DEF TypeOK
<1>4. CASE FailSome
    <2> PICK g \in Groups, i \in Indices, terminal \in BOOLEAN, stored \in SnapshotOutcomes :
             RecordFailure(g, i, terminal, stored)
        BY <1>4 DEF FailSome
    <2>1. groups[g] \in GroupStates /\ groups'[g] \in GroupStates
        <3>1. groups[g] \in GroupStates
            BY DEF TypeOK
        <3>2. groups'[g] = [groups[g] EXCEPT !.failed = @ \union {i},
                                             !.status = IF terminal THEN "FAILED" ELSE @]
            BY DEF RecordFailure, TypeOK
        <3>3. /\ groups'[g].failed = groups[g].failed \union {i} /\ groups'[g].failed \subseteq Indices
              /\ groups'[g].status \in Statuses
            BY <3>1, <3>2 DEF GroupStates, Statuses
        <3> QED
            BY <3>1, <3>2, <3>3 DEF GroupStates
    <2>2. /\ groups'[g].responses = groups[g].responses /\ groups'[g].version = groups[g].version
          /\ groups'[g].status \in {groups[g].status, "FAILED"}
        BY DEF RecordFailure, TypeOK, GroupStates
    <2>3. Sound(groups'[g])
        BY <2>1, <2>2, SameSamples
    <2>4. groups' \in [Groups -> GroupStates] /\ \A h \in Groups : h # g => groups'[h] = groups[h]
        BY <2>1 DEF RecordFailure, TypeOK
    <2>5. \A h \in Groups : Sound(groups'[h])
        BY <2>3, <2>4
    <2>6. saved' \in [Groups -> GroupStates] /\ \A h \in Groups : Sound(saved'[h])
        BY <1>s, <2>4, <2>5 DEF RecordFailure, Persist, TypeOK
    <2> QED
        BY <2>4, <2>5, <2>6 DEF RecordFailure, TypeOK
<1>5. CASE ExpireSome
    <2> PICK g \in Groups, outcome \in {"DROPPED", "FAILED"}, stored \in SnapshotOutcomes :
             Expire(g, outcome, stored)
        BY <1>5 DEF ExpireSome
    <2>1. groups[g] \in GroupStates /\ groups'[g] \in GroupStates
        <3>1. groups[g] \in GroupStates
            BY DEF TypeOK
        <3>2. groups'[g] = [groups[g] EXCEPT !.status = outcome]
            BY DEF Expire, TypeOK
        <3> QED
            BY <3>1, <3>2 DEF GroupStates, Statuses
    <2>2. /\ groups'[g].responses = groups[g].responses /\ groups'[g].version = groups[g].version
          /\ groups'[g].status = outcome
        BY DEF Expire, TypeOK, GroupStates
    <2>3. Sound(groups'[g])
        BY <2>1, <2>2, SameSamples
    <2>4. groups' \in [Groups -> GroupStates] /\ \A h \in Groups : h # g => groups'[h] = groups[h]
        BY <2>1 DEF Expire, TypeOK
    <2>5. \A h \in Groups : Sound(groups'[h])
        BY <2>3, <2>4
    <2>6. saved' \in [Groups -> GroupStates] /\ \A h \in Groups : Sound(saved'[h])
        BY <1>s, <2>4, <2>5 DEF Expire, Persist, TypeOK
    <2> QED
        BY <2>4, <2>5, <2>6 DEF Expire, TypeOK
<1>6. CASE Restart
    BY <1>6 DEF Restart, TypeOK, CountCap
<1>7. CASE UNCHANGED vars
    BY <1>7 DEF vars, TypeOK
<1> QED
    BY <1>1, <1>2, <1>3, <1>4, <1>5, <1>6, <1>7 DEF Next

\* Every reachable state of the tracker is well typed.
THEOREM TypeCorrect == Spec => []TypeOK
<1>1. SoundInv => TypeOK
    BY DEF SoundInv
<1> QED
    BY SoundInit, SoundNext, <1>1, PTL DEF Spec

\* A READY group is complete and of one policy version and template, however
\* its responses, failures, lost snapshots and restarts interleave.
THEOREM BarrierIsSound == Spec => []ReadyMeansComplete
<1>1. SoundInv => ReadyMeansComplete
    BY DEF SoundInv, Sound, ReadyMeansComplete
<1> QED
    BY SoundInit, SoundNext, <1>1, PTL DEF Spec
-------------------------------------------------------------------------------
\* A group the tracker has no entry for has no samples.
Blank(group) ==
    group.status = "ABSENT" => group.responses = [i \in Indices |-> NoResponse]

BlankInv == SoundInv /\ \A g \in Groups : Blank(groups[g]) /\ Blank(saved[g])

\* No group has an entry at the start.
LEMMA BlankInit == Init => BlankInv
<1> SUFFICES ASSUME Init PROVE \A g \in Groups : Blank(groups[g]) /\ Blank(saved[g])
    BY SoundInit DEF BlankInv
<1>1. PICK v \in Versions : groups = [g \in Groups |-> [Fresh(v) EXCEPT !.status = "ABSENT"]]
    BY DEF Init
<1>2. [Fresh(v) EXCEPT !.status = "ABSENT"].responses = [i \in Indices |-> NoResponse]
    BY DEF Fresh
<1> QED
    BY <1>1, <1>2 DEF Init, Blank

\* Entries are never taken away.
LEMMA BlankNext == BlankInv /\ [Next]_vars => BlankInv'
<1> SUFFICES ASSUME BlankInv, [Next]_vars
             PROVE  \A g \in Groups : Blank(groups'[g]) /\ Blank(saved'[g])
    BY SoundNext DEF BlankInv, Blank
<1> USE DEF BlankInv, SoundInv
<1>1. ASSUME NEW stored, Persist(stored), \A g \in Groups : Blank(groups'[g])
      PROVE  \A g \in Groups : Blank(saved'[g])
    BY <1>1 DEF Persist
<1>2. CASE RouteSome
    BY <1>2, <1>1 DEF RouteSome, Route, Blank, Fresh, TypeOK
<1>3. CASE CompleteSome
    <2> PICK g \in Groups, i \in 0..Size, requested \in Versions, r \in Response,
             traced \in BOOLEAN, stored \in SnapshotOutcomes :
                Complete(g, i, requested, r, stored, traced)
        BY <1>3 DEF CompleteSome
    <2>1. i \in Indices /\ groups[g] \in GroupStates /\ groups[g].status # "ABSENT"
        BY DEF Complete, Valid, Known, TypeOK
    <2>2. Record(groups[g], i, r).status # "ABSENT"
        BY <2>1, RecordEffect
    <2>3. groups' = [groups EXCEPT ![g] = Record(groups[g], i, r)]
        BY DEF Complete
    <2>4. \A h \in Groups : Blank(groups'[h])
        BY <2>2, <2>3 DEF Blank, TypeOK
    <2> QED
        BY <2>4, <1>1 DEF Complete
<1>4. CASE FailSome
    <2> PICK g \in Groups, i \in Indices, terminal \in BOOLEAN, stored \in SnapshotOutcomes :
             RecordFailure(g, i, terminal, stored)
        BY <1>4 DEF FailSome
    <2>1. /\ groups'[g].status # "ABSENT"
          /\ \A h \in Groups : h # g => groups'[h] = groups[h]
        BY DEF RecordFailure, Known, TypeOK, GroupStates
    <2>2. \A h \in Groups : Blank(groups'[h])
        BY <2>1 DEF Blank
    <2> QED
        BY <2>2, <1>1 DEF RecordFailure
<1>5. CASE ExpireSome
    <2> PICK g \in Groups, outcome \in {"DROPPED", "FAILED"}, stored \in SnapshotOutcomes :
             Expire(g, outcome, stored)
        BY <1>5 DEF ExpireSome
    <2>1. /\ groups'[g].status # "ABSENT"
          /\ \A h \in Groups : h # g => groups'[h] = groups[h]
        BY DEF Expire, TypeOK, GroupStates
    <2>2. \A h \in Groups : Blank(groups'[h])
        BY <2>1 DEF Blank
    <2> QED
        BY <2>2, <1>1 DEF Expire
<1>6. CASE ReplaySome \/ Restart \/ UNCHANGED vars
    BY <1>6 DEF ReplaySome, Replay, Restart, vars
<1> QED
    BY <1>2, <1>3, <1>4, <1>5, <1>6 DEF Next

-------------------------------------------------------------------------------
\* The environment groups_barrier checks: snapshots are written, and failures
\* are reported of samples still missing.
Durable == ~SnapshotMayFail /\ ~LateReports

\* The snapshot holds what the memory holds.
StoredInv == BlankInv /\ saved = groups

\* Every operation that changes a group saves it before it returns.
LEMMA StoredNext == ~SnapshotMayFail /\ StoredInv /\ [Next]_vars => StoredInv'
<1> SUFFICES ASSUME ~SnapshotMayFail, StoredInv, [Next]_vars PROVE saved' = groups'
    BY BlankNext DEF StoredInv
<1>1. ASSUME NEW stored \in SnapshotOutcomes, Persist(stored) PROVE saved' = groups'
    BY <1>1 DEF Persist, SnapshotOutcomes
<1>2. CASE RouteSome \/ CompleteSome \/ FailSome \/ ExpireSome
    BY <1>2, <1>1 DEF RouteSome, Route, CompleteSome, Complete, FailSome, RecordFailure,
                      ExpireSome, Expire
<1>3. CASE ReplaySome \/ Restart \/ UNCHANGED vars
    BY <1>3 DEF StoredInv, ReplaySome, Replay, Restart, vars
<1> QED
    BY <1>2, <1>3 DEF Next

\* The barrier the tracker's groups stand for.
Filled == [g \in Groups |-> groups[g].responses]
Released == {g \in Groups : groups[g].status = "READY"}

\* What keeps the samples and the READY groups keeps the barrier.
LEMMA SameBarrier ==
    ASSUME \A g \in Groups : /\ groups'[g].responses = groups[g].responses
                             /\ groups'[g].status = "READY" <=> groups[g].status = "READY"
    PROVE  Filled' = Filled /\ Released' = Released
BY DEF Filled, Released

\* A group that gets a sample it had not, and becomes READY with the last one
\* only, takes a step of the barrier.
LEMMA FillStep ==
    ASSUME TypeOK, NEW g \in Groups, NEW i \in Indices, NEW r \in Response,
           groups[g].responses[i] = NoResponse,
           groups'[g].responses = [groups[g].responses EXCEPT ![i] = r],
           \/ groups'[g].status = groups[g].status
           \/ groups'[g].status = "READY" /\ Completed(groups'[g]) = Indices,
           \A h \in Groups : h # g => groups'[h] = groups[h]
    PROVE  Barrier!Next
<1>1. Filled' = [Filled EXCEPT ![g][i] = r]
    BY DEF Filled, TypeOK
<1>2. Filled[g][i] = NoResponse
    BY DEF Filled
<1>3. CASE groups'[g].status = groups[g].status
    <2>1. Released' = Released
        BY <1>3 DEF Released
    <2>2. Barrier!Fill(g, i)
        BY <1>1, <1>2, <2>1 DEF Filled, Released, Barrier!Fill
    <2> QED
        BY <2>2 DEF Barrier!Next
<1>4. CASE groups'[g].status = "READY" /\ Completed(groups'[g]) = Indices
    <2>1. Released' = Released \union {g}
        BY <1>4 DEF Released
    <2>2. \A j \in Indices : Filled'[g][j] # NoResponse
        BY <1>4 DEF Completed, Filled
    <2>3. Barrier!Fill(g, i)
        BY <1>1, <1>2, <2>1, <2>2 DEF Filled, Released, Barrier!Fill
    <2> QED
        BY <2>3 DEF Barrier!Next
<1> QED
    BY <1>3, <1>4

\* A new response fills its slot, and of the other steps only a failure could
\* take a READY group back.
LEMMA BarrierUnlessFailure ==
    StoredInv /\ (RouteSome \/ ReplaySome \/ CompleteSome \/ ExpireSome \/ Restart \/ UNCHANGED vars) =>
        [Barrier!Next]_(Barrier!barrierVars)
<1> SUFFICES ASSUME StoredInv,
                    RouteSome \/ ReplaySome \/ CompleteSome \/ ExpireSome \/ Restart \/ UNCHANGED vars
             PROVE  Barrier!Next \/ (Filled' = Filled /\ Released' = Released)
    BY DEF Filled, Released, Barrier!barrierVars
<1> USE DEF StoredInv, BlankInv, SoundInv
<1>1. CASE RouteSome
    <2> PICK g \in Groups, version \in Versions, stored \in SnapshotOutcomes :
             Route(g, version, stored)
        BY <1>1 DEF RouteSome
    <2>1. CASE Known(g)
        BY <2>1, SameBarrier DEF Route
    <2>2. CASE ~Known(g)
        <3>1. groups[g].responses = [i \in Indices |-> NoResponse] /\ groups[g].status = "ABSENT"
            BY <2>2 DEF Known, Blank
        <3>2. groups' = [groups EXCEPT ![g] = Fresh(version)]
            BY <2>2 DEF Route
        <3>3. Fresh(version).responses = groups[g].responses /\ Fresh(version).status = "OPEN"
            BY <3>1 DEF Fresh
        <3> QED
            BY <3>1, <3>2, <3>3, SameBarrier DEF TypeOK
    <2> QED
        BY <2>1, <2>2
<1>2. CASE CompleteSome
    <2> PICK g \in Groups, i \in 0..Size, requested \in Versions, r \in Response,
             traced \in BOOLEAN, stored \in SnapshotOutcomes :
                Complete(g, i, requested, r, stored, traced)
        BY <1>2 DEF CompleteSome
    <2>1. i \in Indices /\ groups[g] \in GroupStates /\ groups[g].responses[i] = NoResponse
        BY DEF Complete, Valid, TypeOK
    <2>2. groups'[g] = Record(groups[g], i, r) /\ \A h \in Groups : h # g => groups'[h] = groups[h]
        BY DEF Complete, TypeOK
    <2>3. /\ groups'[g].responses = [groups[g].responses EXCEPT ![i] = r]
          /\ \/ groups'[g].status = groups[g].status
             \/ groups'[g].status = "READY" /\ Completed(groups'[g]) = Indices
        BY <2>1, <2>2, RecordEffect
    <2> QED
        BY <2>1, <2>2, <2>3, FillStep
<1>3. CASE ExpireSome
    <2> PICK g \in Groups, outcome \in {"DROPPED", "FAILED"}, stored \in SnapshotOutcomes :
             Expire(g, outcome, stored)
        BY <1>3 DEF ExpireSome
    <2>1. /\ groups'[g].responses = groups[g].responses
          /\ groups[g].status = "OPEN" /\ groups'[g].status = outcome
          /\ \A h \in Groups : h # g => groups'[h] = groups[h]
        BY DEF Expire, TypeOK, GroupStates
    <2> QED
        BY <2>1, SameBarrier
<1>4. CASE ReplaySome \/ Restart \/ UNCHANGED vars
    BY <1>4, SameBarrier DEF ReplaySome, Replay, Restart, vars
<1> QED
    BY <1>1, <1>2, <1>3, <1>4

\* A failure is no step of the barrier: it is never reported of a READY group.
LEMMA BarrierStep == Durable /\ StoredInv /\ [Next]_vars => [Barrier!Next]_(Barrier!barrierVars)
<1> SUFFICES ASSUME Durable, StoredInv, FailSome PROVE Filled' = Filled /\ Released' = Released
    BY BarrierUnlessFailure DEF Next, Filled, Released, Barrier!barrierVars
<1> USE DEF StoredInv, BlankInv, SoundInv
<1>1. PICK g \in Groups, i \in Indices, terminal \in BOOLEAN, stored \in SnapshotOutcomes :
          RecordFailure(g, i, terminal, stored)
    BY DEF FailSome
<1>2. groups[g].status # "READY"
    BY <1>1 DEF RecordFailure, Durable, Sound, Completed
<1>3. /\ groups'[g].responses = groups[g].responses
      /\ groups'[g].status \in {groups[g].status, "FAILED"}
      /\ \A h \in Groups : h # g => groups'[h] = groups[h]
    BY <1>1 DEF RecordFailure, TypeOK, GroupStates
<1> QED
    BY <1>2, <1>3, SameBarrier

\* The barrier never takes a group back from the trainer, and never changes a
\* slot that is filled.
LEMMA BarrierKeeps ==
    ASSUME TypeOK, [Barrier!Next]_(Barrier!barrierVars)
    PROVE  /\ \A g \in Groups : groups[g].status = "READY" => groups'[g].status = "READY"
           /\ \A g \in Groups, i \in Indices : groups[g].responses[i] # NoResponse =>
                  groups'[g].responses[i] = groups[g].responses[i]
<1>1. Released \subseteq Released'
    BY DEF Filled, Released, Barrier!Next, Barrier!Fill, Barrier!barrierVars
<1>2. ASSUME NEW g \in Groups, NEW i \in Indices, groups[g].responses[i] # NoResponse
      PROVE  Filled'[g][i] = Filled[g][i]
    <2>1. CASE Filled' = Filled
        BY <2>1
    <2>2. CASE Filled' # Filled
        <3>1. Barrier!Next
            BY <2>2 DEF Filled, Barrier!barrierVars
        <3>2. PICK h \in Groups, j \in Indices : Barrier!Fill(h, j)
            BY <3>1 DEF Barrier!Next
        <3>3. PICK r \in Response :
                  Filled[h][j] = NoResponse /\ Filled' = [Filled EXCEPT ![h][j] = r]
            BY <3>2 DEF Filled, Barrier!Fill
        <3>4. Filled \in [Groups -> [Indices -> Response \union {NoResponse}]]
            BY DEF Filled, TypeOK, GroupStates
        <3>5. ~(h = g /\ j = i)
            BY <1>2, <3>3 DEF Filled
        <3> QED
            BY <3>3, <3>4, <3>5
    <2> QED
        BY <2>1, <2>2
<1> QED
    BY <1>1, <1>2 DEF Released, Filled

\* The tracker implements the abstract barrier: one sample per slot, groups
\* released when their last slot is filled, through failures and restarts.
THEOREM BarrierRefinement == ASSUME Durable PROVE Spec => ImplementsBarrier
<1>1. Init => StoredInv
    BY BlankInit DEF Init, StoredInv
<1>2. Init => Barrier!Init
    BY FreshSound DEF Init, Barrier!Init, Fresh
<1>3. StoredInv /\ [Next]_vars => StoredInv'
    BY StoredNext DEF Durable
<1>4. StoredInv /\ [Next]_vars => [Barrier!Next]_(Barrier!barrierVars)
    BY BarrierStep
<1> QED
    BY <1>1, <1>2, <1>3, <1>4, PTL DEF Spec, ImplementsBarrier, Barrier!Spec

\* A READY group stays READY: the trainer may take it at any later time.
THEOREM ReadyStays == ASSUME Durable PROVE Spec => ReadyIsFinal
<1>1. Init => StoredInv
    BY BlankInit DEF Init, StoredInv
<1>2. StoredInv /\ [Next]_vars => StoredInv'
    BY StoredNext DEF Durable
<1>3. StoredInv /\ [Next]_vars =>
        [\A g \in Groups : groups[g].status = "READY" => groups'[g].status = "READY"]_vars
    BY BarrierStep, BarrierKeeps DEF StoredInv, BlankInv, SoundInv
<1> QED
    BY <1>1, <1>2, <1>3, PTL DEF Spec, ReadyIsFinal

\* A recorded sample is never replaced or lost, whatever is sent again and
\* however often the router restarts.
THEOREM SamplesStay == ASSUME Durable PROVE Spec => NoSecondSample
<1>1. Init => StoredInv
    BY BlankInit DEF Init, StoredInv
<1>2. StoredInv /\ [Next]_vars => StoredInv'
    BY StoredNext DEF Durable
<1>3. StoredInv /\ [Next]_vars =>
        [\A g \in Groups, i \in Indices : groups[g].responses[i] # NoResponse =>
             groups'[g].responses[i] = groups[g].responses[i]]_vars
    BY BarrierStep, BarrierKeeps DEF StoredInv, BlankInv, SoundInv
<1> QED
    BY <1>1, <1>2, <1>3, PTL DEF Spec, NoSecondSample

-------------------------------------------------------------------------------
\* A group that has been counted has all its samples, so no response can be
\* its last one again.
CountInv ==
    /\ BlankInv
    /\ \A g \in Groups : counted[g] # 0 => counted[g] = 1 /\ Completed(groups[g]) = Indices

\* A group is counted with its last response, and its samples stay until the
\* router restarts, which clears the count.
LEMMA CountNext == CountInv /\ [Next]_vars => CountInv'
<1> SUFFICES ASSUME CountInv, [Next]_vars, NEW g \in Groups, counted'[g] # 0
             PROVE  counted'[g] = 1 /\ Completed(groups'[g]) = Indices
    BY BlankNext DEF CountInv, Completed
<1> USE DEF CountInv, BlankInv, SoundInv
<1>0. Indices # {}
    BY SizeAssumption DEF Indices
<1>1. ASSUME counted'[g] = counted[g], groups'[g].responses = groups[g].responses
      PROVE  counted'[g] = 1 /\ Completed(groups'[g]) = Indices
    BY <1>1 DEF Completed
<1>2. CASE RouteSome
    <2>1. CASE Known(g)
        BY <1>2, <2>1, <1>1 DEF RouteSome, Route, TypeOK
    <2>2. CASE ~Known(g)
        <3>1. Completed(groups[g]) = {}
            BY <2>2 DEF Known, Blank, Completed
        <3> QED
            BY <1>2, <3>1, <1>0 DEF RouteSome, Route
    <2> QED
        BY <2>1, <2>2
<1>3. CASE CompleteSome
    <2> PICK h \in Groups, i \in 0..Size, requested \in Versions, r \in Response,
             traced \in BOOLEAN, stored \in SnapshotOutcomes :
                Complete(h, i, requested, r, stored, traced)
        BY <1>3 DEF CompleteSome
    <2>1. CASE h # g
        BY <2>1, <1>1 DEF Complete, TypeOK
    <2>2. CASE h = g
        <3> DEFINE new == Record(groups[g], i, r)
        <3>1. i \in Indices /\ groups[g] \in GroupStates /\ i \notin Completed(groups[g])
            BY <2>2 DEF Complete, Valid, TypeOK, Completed
        <3>2. counted[g] = 0
            BY <3>1
        <3>3. groups'[g] = new
            BY <2>2 DEF Complete, TypeOK
        <3>4. /\ new \in GroupStates
              /\ new.status = groups[g].status \/ (new.status = "READY" /\ Completed(new) = Indices)
            BY <3>1, RecordStatus
        <3> HIDE DEF new
        <3>5. counted'[g] = 1 /\ groups'[g].status = "READY" /\ groups[g].status # "READY"
            BY <2>2, <3>2 DEF Complete, OneMore, CountCap, TypeOK
        <3> QED
            BY <3>3, <3>4, <3>5 DEF new
    <2> QED
        BY <2>1, <2>2
<1>4. CASE FailSome
    BY <1>4, <1>1 DEF FailSome, RecordFailure, TypeOK, GroupStates
<1>5. CASE ExpireSome
    BY <1>5, <1>1 DEF ExpireSome, Expire, TypeOK, GroupStates
<1>6. CASE Restart
    BY <1>6 DEF Restart
<1>7. CASE ReplaySome \/ UNCHANGED vars
    BY <1>7, <1>1 DEF ReplaySome, Replay, vars
<1> QED
    BY <1>2, <1>3, <1>4, <1>5, <1>6, <1>7 DEF Next

\* The metrics count a group at most once between two restarts, also when
\* snapshots are lost and responses are sent again.
THEOREM CountIsOne == Spec => []CountedOnce
<1>1. Init => CountInv
    BY BlankInit DEF Init, CountInv
<1>2. CountInv => CountedOnce
    BY DEF CountInv, CountedOnce, BlankInv, SoundInv, TypeOK, CountCap
<1> QED
    BY <1>1, <1>2, CountNext, PTL DEF Spec

-------------------------------------------------------------------------------
LEMMA IndicesNotEmpty == 0 \in Indices
BY SizeAssumption DEF Indices

\* A recorded sample is not failed, and the last one makes the group READY when
\* no other is.
LEMMA RecordDecidesWhenClear ==
    ASSUME NEW group \in GroupStates, NEW i \in Indices, NEW r \in Response
    PROVE  LET new == Record(group, i, r)
           IN  /\ new.failed = group.failed \ {i} /\ new.failed \subseteq Indices
               /\ Completed(new) = Completed(group) \union {i}
               /\ Completed(new) = Indices /\ new.failed = {} => new.status = "READY"
<1> DEFINE recorded == [group EXCEPT !.responses[i] = r, !.failed = @ \ {i}]
           ready == [recorded EXCEPT !.status = "READY"]
<1>1. /\ recorded.failed = group.failed \ {i} /\ recorded.failed \in SUBSET Indices
      /\ recorded.responses = [group.responses EXCEPT ![i] = r]
      /\ ready.failed = recorded.failed /\ ready.responses = recorded.responses /\ ready.status = "READY"
    BY DEF GroupStates
<1>2. Completed(recorded) = Completed(group) \union {i} /\ Completed(ready) = Completed(recorded)
    BY <1>1, NoResponseAssumption DEF Completed, GroupStates
<1>3. Record(group, i, r) = IF IsComplete(recorded) THEN ready ELSE recorded
    BY DEF Record
<1>4. Completed(recorded) = Indices /\ recorded.failed = {} => IsComplete(recorded)
    BY DEF IsComplete
<1> HIDE DEF recorded, ready
<1> QED
    BY <1>1, <1>2, <1>3, <1>4

\* A complete group without failures is READY, and a completed sample is not
\* failed unless failures are reported late.
Answered(group) ==
    /\ Completed(group) = Indices /\ group.failed = {} => group.status = "READY"
    /\ ~LateReports => group.failed \intersect Completed(group) = {}

AnsweredInv == TypeOK /\ \A g \in Groups : Answered(groups[g]) /\ Answered(saved[g])

LEMMA FreshAnswered ==
    ASSUME NEW v \in Versions
    PROVE  Answered(Fresh(v)) /\ Answered([Fresh(v) EXCEPT !.status = "ABSENT"])
BY IndicesNotEmpty DEF Fresh, Answered, Completed

\* A step that changes the samples of one group keeps the others answered, in
\* memory and in the snapshot.
LEMMA AnsweredOne ==
    ASSUME AnsweredInv, TypeOK', NEW g \in Groups, NEW new, groups' = [groups EXCEPT ![g] = new],
           Answered(new), NEW stored, Persist(stored)
    PROVE  AnsweredInv'
<1>1. \A h \in Groups : Answered(groups'[h])
    BY DEF AnsweredInv, TypeOK
<1> HIDE DEF Answered
<1> QED
    BY <1>1 DEF AnsweredInv, Persist

LEMMA AnsweredNext == AnsweredInv /\ SoundInv /\ [Next]_vars => AnsweredInv'
<1> SUFFICES ASSUME AnsweredInv, SoundInv, [Next]_vars PROVE AnsweredInv'
    OBVIOUS
<1>t. TypeOK /\ TypeOK'
    BY SoundNext DEF SoundInv
<1>1. CASE RouteSome
    <2> PICK g \in Groups, version \in Versions, stored \in SnapshotOutcomes :
             Route(g, version, stored)
        BY <1>1 DEF RouteSome
    <2>1. Persist(stored) /\ groups' \in {groups, [groups EXCEPT ![g] = Fresh(version)]}
        BY DEF Route
    <2>2. CASE groups' = groups
        BY <1>t, <2>1, <2>2 DEF AnsweredInv, Persist
    <2>3. CASE groups' = [groups EXCEPT ![g] = Fresh(version)]
        BY <1>t, <2>1, <2>3, FreshAnswered, AnsweredOne
    <2> QED
        BY <2>1, <2>2, <2>3
<1>2. CASE CompleteSome
    <2> PICK g \in Groups, i \in 0..Size, requested \in Versions, r \in Response,
             traced \in BOOLEAN, stored \in SnapshotOutcomes :
                Complete(g, i, requested, r, stored, traced)
        BY <1>2 DEF CompleteSome
    <2>1. /\ i \in Indices /\ groups[g] \in GroupStates /\ Answered(groups[g])
          /\ groups' = [groups EXCEPT ![g] = Record(groups[g], i, r)] /\ Persist(stored)
        BY <1>t DEF Complete, Valid, AnsweredInv, TypeOK
    <2>2. PICK new : new = Record(groups[g], i, r)
        OBVIOUS
    <2>3. /\ new.failed = groups[g].failed \ {i} /\ Completed(new) = Completed(groups[g]) \union {i}
          /\ Completed(new) = Indices /\ new.failed = {} => new.status = "READY"
        BY <2>1, <2>2, RecordDecidesWhenClear
    <2>4. Answered(new)
        BY <2>1, <2>3 DEF Answered
    <2> QED
        BY <1>t, <2>1, <2>2, <2>4, AnsweredOne
<1>3. CASE FailSome
    <2> PICK g \in Groups, i \in Indices, terminal \in BOOLEAN, stored \in SnapshotOutcomes :
             RecordFailure(g, i, terminal, stored)
        BY <1>3 DEF FailSome
    <2>1. PICK new : new = [groups[g] EXCEPT !.failed = @ \union {i},
                                             !.status = IF terminal THEN "FAILED" ELSE @]
        OBVIOUS
    <2>2. groups' = [groups EXCEPT ![g] = new] /\ Persist(stored)
        BY <2>1 DEF RecordFailure
    <2>3. groups[g] \in GroupStates /\ Answered(groups[g])
        BY <1>t DEF AnsweredInv, TypeOK
    <2>4. new.failed = groups[g].failed \union {i} /\ new.responses = groups[g].responses
        BY <2>1, <2>3 DEF GroupStates
    <2>5. LateReports \/ i \notin Completed(groups[g])
        BY DEF RecordFailure, Completed
    <2>6. Answered(new)
        BY <2>3, <2>4, <2>5 DEF Answered, Completed
    <2> QED
        BY <1>t, <2>2, <2>6, AnsweredOne
<1>4. CASE ExpireSome
    <2> PICK g \in Groups, outcome \in {"DROPPED", "FAILED"}, stored \in SnapshotOutcomes :
             Expire(g, outcome, stored)
        BY <1>4 DEF ExpireSome
    <2>1. PICK new : new = [groups[g] EXCEPT !.status = outcome]
        OBVIOUS
    <2>2. groups' = [groups EXCEPT ![g] = new] /\ Persist(stored) /\ groups[g].status = "OPEN"
        BY <2>1 DEF Expire
    <2>3. groups[g] \in GroupStates /\ Answered(groups[g])
        BY <1>t DEF AnsweredInv, TypeOK
    <2>4. new.failed = groups[g].failed /\ new.responses = groups[g].responses
        BY <2>1, <2>3 DEF GroupStates
    <2>5. Answered(new)
        BY <2>2, <2>3, <2>4 DEF Answered, Completed
    <2> QED
        BY <1>t, <2>2, <2>5, AnsweredOne
<1>5. CASE Restart
    BY <1>5, <1>t DEF Restart, AnsweredInv
<1>6. CASE ReplaySome \/ UNCHANGED vars
    BY <1>6, <1>t DEF ReplaySome, Replay, vars, AnsweredInv
<1> QED
    BY <1>1, <1>2, <1>3, <1>4, <1>5, <1>6 DEF Next

\* Once all its samples are answered a group is READY, in whatever order
\* responses, failures, lost snapshots and restarts came, unless the failure of
\* a completed sample was reported.
THEOREM AnsweredGroupsAreReady == Spec => []AnsweredMeansReady
<1>1. Init => AnsweredInv
    BY FreshAnswered, SoundInit DEF Init, AnsweredInv, SoundInv
<1>2. AnsweredInv => AnsweredMeansReady
    BY DEF AnsweredInv, AnsweredMeansReady, Answered, TypeOK, GroupStates
<1> QED
    BY <1>1, <1>2, SoundInit, SoundNext, AnsweredNext, PTL DEF Spec

-------------------------------------------------------------------------------
(* The adapter. *)
\* Types, and groups that are sound although the adapter can fail in the middle
\* of a completion.
SlimeInv == SlimeTypeOK /\ SoundInv

\* What the faults are counted in.
FaultCounts == [engines : 0..MaxFaults, requests : 0..MaxFaults, releases : 0..MaxFaults, process : 0..MaxFaults]

LEMMA SlimeInvInit == SlimeInit => SlimeInv
<1> SUFFICES ASSUME SlimeInit PROVE SlimeInv
    OBVIOUS
<1>1. SoundInv
    BY SoundInit DEF SlimeInit
<1>2. /\ running \in [Engines -> Nat] /\ surplus \in [Engines -> Nat]
      /\ loaded \in [Engines -> Versions]
    BY DEF SlimeInit
<1>3. calls \in [Calls -> [phase : Phases, worker : Engines \union {Nothing}, version : Versions \union {0}]]
    BY DEF SlimeInit, IdleCall, Phases
<1>4. faults \in FaultCounts
    BY MaxFaultsAssumption DEF SlimeInit, FaultCounts
<1> QED
    BY <1>1, <1>2, <1>3, <1>4 DEF SlimeInv, SlimeTypeOK, SoundInv, SlimeInit, FaultCounts

LEMMA FaultTypes ==
    ASSUME SlimeTypeOK, NEW kind \in {"engines", "requests", "releases", "process"}, Fault(kind)
    PROVE  faults' \in FaultCounts
<1>1. /\ faults \in FaultCounts /\ faults.engines \in Nat /\ faults.requests \in Nat
      /\ faults.releases \in Nat /\ faults.process \in Nat
    BY DEF SlimeTypeOK, FaultCounts
<1>2. faults.engines + faults.requests + faults.releases + faults.process < MaxFaults
    BY DEF Fault
<1>3. faults[kind] + 1 \in 0..MaxFaults
    BY <1>1, <1>2, MaxFaultsAssumption
<1> QED
    BY <1>1, <1>3 DEF Fault, FaultCounts

\* What a discovery knows is of the types the variables have.
LEMMA DiscoveryTypes ==
    ASSUME SlimeTypeOK, discovery # Nothing
    PROVE  /\ discovery.caller \in Calls
           /\ discovery.urls \subseteq Engines
           /\ DOMAIN discovery.found \subseteq discovery.urls
           /\ \A w \in DOMAIN discovery.found : discovery.found[w] \in Probes
           /\ discovery = [caller |-> discovery.caller, urls |-> discovery.urls, found |-> discovery.found]
<1>1. PICK urls \in SUBSET Engines : \E seen \in SUBSET urls :
          discovery \in [caller : Calls, urls : {urls}, found : [seen -> Probes]]
    BY DEF SlimeTypeOK
<1>2. PICK seen \in SUBSET urls :
          discovery \in [caller : Calls, urls : {urls}, found : [seen -> Probes]]
    BY <1>1
<1> QED
    BY <1>2

\* A sample fails without failing its group.
SampleFails == \E g \in Groups, i \in Indices, stored \in SnapshotOutcomes :
                  RecordFailure(g, i, FALSE, stored)

\* The tracker's steps the adapter takes.
TrackerStep == RouteSome \/ ReplaySome \/ CompleteSome \/ SampleFails \/ Restart \/ UNCHANGED vars

\* A completion that raises half way, and is reported failed.
HalfFinished == \E c \in Calls : \E r \in Answers(c), kept, stored \in SnapshotOutcomes :
                   FinishRaises(c, r, kept, stored)

LEMMA TrackerStepIsNext == TrackerStep => [Next]_vars
BY DEF TrackerStep, SampleFails, Next, FailSome

\* Whatever the adapter does to the groups is a step of the tracker, but for a
\* completion that raises half way.
LEMMA AdapterSteps ==
    SlimeInv /\ [SlimeNext \/ Over]_slimeVars => TrackerStep \/ HalfFinished
<1> SUFFICES ASSUME SlimeInv, [SlimeNext \/ Over]_slimeVars PROVE TrackerStep \/ HalfFinished
    OBVIOUS
<1>a. SoundInv /\ SlimeTypeOK
    BY DEF SlimeInv
<1>b. ASSUME UNCHANGED vars PROVE TrackerStep
    BY <1>b DEF TrackerStep
<1>c. TRUE \in SnapshotOutcomes
    BY FlagAssumption DEF SnapshotOutcomes
<1>1. ASSUME NEW c \in Calls, AssignCached(c) \/ Discover(c) \/ Cancelled(c) \/ Release(c) \/ LosesRelease(c)
      PROVE  TrackerStep
    BY <1>1, <1>b DEF AssignCached, Discover, Cancelled, Release, LosesRelease
<1>2. ASSUME NEW c \in Calls, NEW r \in Answers(c), Finish(c, r) PROVE TrackerStep
    <2>1. c[1] \in Groups /\ c[2] \in 0..Size /\ r \in Response
        BY SizeAssumption DEF Calls, Indices, Answers
    <2>2. calls[c].version \in Versions
        <3>1. calls[c].version = groups[c[1]].version
            BY <1>2 DEF Finish, Complete, Replay, Valid
        <3>2. groups[c[1]] \in GroupStates
            BY <1>a, <2>1 DEF SoundInv, TypeOK
        <3> QED
            BY <3>1, <3>2 DEF GroupStates
    <2>3. CASE Complete(c[1], c[2], calls[c].version, r, TRUE, TRUE)
        BY <2>1, <2>2, <2>3, <1>c DEF TrackerStep, CompleteSome
    <2>4. CASE Replay(c[1], c[2], calls[c].version, r)
        BY <2>1, <2>2, <2>4 DEF TrackerStep, ReplaySome
    <2> QED
        BY <1>2, <2>3, <2>4 DEF Finish
<1>3. ASSUME NEW c \in Calls, NEW stored \in SnapshotOutcomes, Fail(c, stored) PROVE TrackerStep
    BY <1>3 DEF Fail, TrackerStep, SampleFails, Calls
<1>4. ASSUME NEW c \in Calls, NEW r \in Answers(c), NEW kept \in SnapshotOutcomes, NEW stored \in SnapshotOutcomes,
             FinishRaises(c, r, kept, stored)
      PROVE  HalfFinished
    BY <1>4 DEF HalfFinished
<1>5. ASSUME NEW w \in Engines, NEW own, NEW others, Probe(w, own, others) PROVE TrackerStep
    BY <1>5, <1>b DEF Probe
<1>6. ASSUME NEW again, DiscoveryFails(again) PROVE TrackerStep
    BY <1>6, <1>b DEF DiscoveryFails
<1>7. ASSUME NEW placement \in [Indices -> Engines], AssignFirst(placement) PROVE TrackerStep
    <2>1. PICK target \in Versions : Route(discovery.caller[1], target, TRUE)
        BY <1>7 DEF AssignFirst
    <2>2. discovery.caller[1] \in Groups
        BY <1>a, <1>7, DiscoveryTypes DEF AssignFirst, Discovered, Calls
    <2> QED
        BY <2>1, <2>2, <1>c DEF TrackerStep, RouteSome
<1>8. ASSUME NEW stored \in SnapshotOutcomes, RouteRaises(stored) PROVE TrackerStep
    <2>1. PICK target \in Versions :
              UNCHANGED vars \/ Route(discovery.caller[1], target, stored)
        BY <1>8 DEF RouteRaises
    <2>2. discovery.caller[1] \in Groups
        BY <1>a, <1>8, DiscoveryTypes DEF RouteRaises, Discovered, Calls
    <2> QED
        BY <2>1, <2>2, <1>b DEF TrackerStep, RouteSome
<1>9. ASSUME Crash PROVE TrackerStep
    BY <1>9 DEF Crash, TrackerStep
<1>10. ASSUME NEW w \in Engines, NEW version, EngineListed(w) \/ EngineLoads(w, version) PROVE TrackerStep
    BY <1>10, <1>b DEF EngineListed, EngineLoads
<1>11. ASSUME Over \/ UNCHANGED slimeVars PROVE TrackerStep
    BY <1>11, <1>b DEF Over, slimeVars
<1> QED
    BY <1>1, <1>2, <1>3, <1>4, <1>5, <1>6, <1>7, <1>8, <1>9, <1>10, <1>11
    DEF SlimeNext, AssignFirstSome, RouteRaisesSome, FinishSome

\* What a completion that raises half way does: a new response is recorded, as
\* by a completion, and the sample is marked failed again.
LEMMA HalfFinishedEffect ==
    ASSUME SoundInv, NEW c \in Calls, NEW r \in Answers(c), NEW kept \in SnapshotOutcomes,
           NEW stored \in SnapshotOutcomes, FinishRaises(c, r, kept, stored)
    PROVE  \E g \in Groups, i \in Indices, old \in GroupStates :
              /\ \/ old = groups[g]
                 \/ groups[g].responses[i] = NoResponse /\ old = Record(groups[g], i, r)
              /\ r \in Response /\ Sound(old)
              /\ groups'[g] \in GroupStates /\ Sound(groups'[g])
              /\ groups'[g].responses = old.responses /\ groups'[g].status = old.status
              /\ groups' = [groups EXCEPT ![g] = groups'[g]]
              /\ saved' = groups' \/ saved' = saved \/ (kept /\ saved' = [groups EXCEPT ![g] = old])
              /\ stored => saved' = groups'
              /\ groups[g].status # "ABSENT" /\ UNCHANGED counted
<1> DEFINE g == c[1]
           i == c[2]
           new == groups[g].responses[i] = NoResponse
           old == IF new THEN Record(groups[g], i, r) ELSE groups[g]
           recorded == IF new THEN [groups EXCEPT ![g] = Record(@, i, r)] ELSE groups
<1>1. g \in Groups /\ i \in Indices /\ r \in Response
    BY DEF Calls, Answers
<1>2. /\ r.served = groups[g].version /\ (new => TemplateAgrees(groups[g], r))
      /\ groups[g].status # "ABSENT"
    BY DEF FinishRaises, Valid, Known
<1>3. groups \in [Groups -> GroupStates] /\ groups[g] \in GroupStates /\ Sound(groups[g])
    BY <1>1 DEF SoundInv, TypeOK
<1>4. old \in GroupStates /\ Sound(old)
    BY <1>1, <1>2, <1>3, RecordEffect, RecordSound
<1>5. recorded = [groups EXCEPT ![g] = old]
    BY <1>1, <1>3
<1>6. groups' = [recorded EXCEPT ![g].failed = @ \union {i}]
    BY DEF FinishRaises
<1>7. saved' = IF stored THEN groups' ELSE IF kept THEN recorded ELSE saved
    BY DEF FinishRaises
<1>8. UNCHANGED counted
    BY DEF FinishRaises
<1>9. old = groups[g] \/ (groups[g].responses[i] = NoResponse /\ old = Record(groups[g], i, r))
    OBVIOUS
<1> HIDE DEF old, recorded, new
<1>10. groups' = [groups EXCEPT ![g] = [old EXCEPT !.failed = @ \union {i}]]
    BY <1>1, <1>3, <1>5, <1>6
<1>11. groups'[g] = [old EXCEPT !.failed = @ \union {i}]
    BY <1>1, <1>3, <1>10
<1>12. /\ groups'[g] \in GroupStates /\ groups'[g].responses = old.responses
       /\ groups'[g].version = old.version /\ groups'[g].status = old.status
    BY <1>1, <1>4, <1>11 DEF GroupStates
<1>13. Sound(groups'[g])
    BY <1>4, <1>12, SameSamples
<1>14. groups' = [groups EXCEPT ![g] = groups'[g]]
    BY <1>10, <1>11
<1>15. /\ saved' = groups' \/ saved' = saved \/ (kept /\ saved' = [groups EXCEPT ![g] = old])
       /\ stored => saved' = groups'
    BY <1>5, <1>7
<1> HIDE DEF g, i
<1> QED
    BY <1>1, <1>2, <1>4, <1>8, <1>9, <1>12, <1>13, <1>14, <1>15

\* Whatever the adapter does, the groups stay sound: it takes the tracker's
\* steps, and a completion that raises half way has recorded a checked response.
LEMMA SlimeSoundStep ==
    SlimeInv /\ [SlimeNext \/ Over]_slimeVars => SoundInv'
<1> SUFFICES ASSUME SlimeInv, TrackerStep \/ HalfFinished PROVE SoundInv'
    BY AdapterSteps
<1>1. SoundInv
    BY DEF SlimeInv
<1>2. CASE TrackerStep
    BY <1>1, <1>2, TrackerStepIsNext, SoundNext
<1>3. CASE HalfFinished
    <2>1. PICK c \in Calls : \E r \in Answers(c), kept, stored \in SnapshotOutcomes :
                                FinishRaises(c, r, kept, stored)
        BY <1>3 DEF HalfFinished
    <2>2. PICK r \in Answers(c), kept \in SnapshotOutcomes, stored \in SnapshotOutcomes :
                   FinishRaises(c, r, kept, stored)
        BY <2>1
    <2>3. PICK g \in Groups, old \in GroupStates :
              /\ Sound(old) /\ groups'[g] \in GroupStates /\ Sound(groups'[g])
              /\ groups' = [groups EXCEPT ![g] = groups'[g]]
              /\ saved' = groups' \/ saved' = saved \/ saved' = [groups EXCEPT ![g] = old]
              /\ UNCHANGED counted
        BY <1>1, <2>2, HalfFinishedEffect
    <2>4. groups' \in [Groups -> GroupStates] /\ \A h \in Groups : Sound(groups'[h])
        BY <1>1, <2>3 DEF SoundInv, TypeOK
    <2>5. saved' \in [Groups -> GroupStates] /\ \A h \in Groups : Sound(saved'[h])
        BY <1>1, <2>3, <2>4 DEF SoundInv, TypeOK
    <2> QED
        BY <1>1, <2>3, <2>4, <2>5 DEF SoundInv, TypeOK
<1> QED
    BY <1>2, <1>3

\* The same for the types: a call always holds a worker of the engines and a
\* version, and a discovery only what it has probed.
LEMMA SlimeTypeStep == SlimeInv /\ [SlimeNext \/ Over]_slimeVars => SlimeInv'
<1> SUFFICES ASSUME SlimeInv, [SlimeNext \/ Over]_slimeVars PROVE SlimeTypeOK'
    BY SlimeSoundStep DEF SlimeInv
<1> DEFINE CallTypes == [phase : Phases, worker : Engines \union {Nothing}, version : Versions \union {0}]
           DiscoveryOK(d) == d # Nothing => \E urls \in SUBSET Engines : \E seen \in SUBSET urls :
                                d \in [caller : Calls, urls : {urls}, found : [seen -> Probes]]
<1>a. /\ TypeOK' /\ loaded \in [Engines -> Versions] /\ listed \subseteq Engines
      /\ running \in [Engines -> Nat] /\ surplus \in [Engines -> Nat]
      /\ contexts \in [Groups -> Contexts \union {Nothing}]
      /\ calls \in [Calls -> CallTypes] /\ DiscoveryOK(discovery)
      /\ faults \in FaultCounts
    BY SlimeSoundStep DEF SlimeInv, SlimeTypeOK, SoundInv, FaultCounts
<1>b. SlimeTypeOK
    BY DEF SlimeInv
<1>c. ASSUME /\ loaded' \in [Engines -> Versions] /\ listed' \subseteq Engines
             /\ running' \in [Engines -> Nat] /\ surplus' \in [Engines -> Nat]
             /\ contexts' \in [Groups -> Contexts \union {Nothing}]
             /\ calls' \in [Calls -> CallTypes] /\ DiscoveryOK(discovery')
             /\ faults' \in FaultCounts
      PROVE  SlimeTypeOK'
    BY <1>a, <1>c DEF SlimeTypeOK, FaultCounts
<1>d. Phases = {"idle", "generating", "returned", "raised", "done"}
    BY DEF Phases
<1>e. ASSUME NEW d, NEW urls \in SUBSET Engines, NEW seen \in SUBSET urls,
             d \in [caller : Calls, urls : {urls}, found : [seen -> Probes]]
      PROVE  DiscoveryOK(d)
    BY <1>e
<1>f. ASSUME NEW c \in Calls, NEW phase \in Phases, End(c, phase) PROVE calls' \in [Calls -> CallTypes]
    BY <1>a, <1>f DEF End
<1>g. NothingFound \in [{} -> Probes]
    BY DEF NothingFound
<1>h. ASSUME NEW c \in Calls, NEW context \in Contexts, Assign(c, context) PROVE calls' \in [Calls -> CallTypes]
    BY <1>a, <1>d, <1>h DEF Assign, Contexts, Calls
<1>i. ASSUME discovery # Nothing
      PROVE  /\ Refreshed(discovery.found) \in [Engines -> Nat]
             /\ NoteRefreshed(discovery.found) => surplus' \in [Engines -> Nat]
    BY <1>a, <1>b, <1>i, DiscoveryTypes DEF Refreshed, NoteRefreshed, Probes
<1> HIDE DEF CallTypes, DiscoveryOK
<1>1. ASSUME NEW c \in Calls, AssignCached(c) PROVE SlimeTypeOK'
    <2>1. contexts[c[1]] \in Contexts /\ contexts[c[1]].worker[c[2]] \in Engines
        BY <1>a, <1>1 DEF AssignCached, Calls, Contexts
    <2>2. running' \in [Engines -> Nat]
        BY <1>a, <1>1, <2>1 DEF AssignCached
    <2>3. calls' \in [Calls -> CallTypes]
        BY <1>1, <2>1, <1>h DEF AssignCached
    <2> QED
        BY <1>a, <1>c, <1>1, <2>2, <2>3 DEF AssignCached, environment
<1>2. ASSUME NEW c \in Calls, Discover(c) PROVE SlimeTypeOK'
    <2>1. discovery' \in [caller : Calls, urls : {listed}, found : [{} -> Probes]]
        BY <1>2, <1>g DEF Discover
    <2>2. DiscoveryOK(discovery')
        BY <2>1, <1>a, <1>e
    <2> QED
        BY <1>a, <1>c, <1>2, <2>2 DEF Discover, environment
<1>3. ASSUME NEW c \in Calls, NEW r \in Answers(c), Finish(c, r) PROVE SlimeTypeOK'
    <2>1. contexts' \in [Groups -> Contexts \union {Nothing}]
        BY <1>a, <1>3 DEF Finish
    <2>2. calls' \in [Calls -> CallTypes]
        BY <1>3, <1>d, <1>f DEF Finish
    <2> QED
        BY <1>a, <1>c, <1>3, <2>1, <2>2 DEF Finish, environment
<1>4. ASSUME NEW c \in Calls, NEW stored \in SnapshotOutcomes, Fail(c, stored) PROVE SlimeTypeOK'
    <2>1. calls' \in [Calls -> CallTypes]
        BY <1>4, <1>d, <1>f DEF Fail
    <2>2. faults' \in FaultCounts
        BY <1>a, <1>b, <1>4, FaultTypes DEF Fail
    <2> QED
        BY <1>a, <1>c, <1>4, <2>1, <2>2 DEF Fail, environment
<1>5. ASSUME NEW c \in Calls, NEW r \in Answers(c), NEW kept \in SnapshotOutcomes, NEW stored \in SnapshotOutcomes,
             FinishRaises(c, r, kept, stored)
      PROVE  SlimeTypeOK'
    <2>1. calls' \in [Calls -> CallTypes]
        BY <1>5, <1>d, <1>f DEF FinishRaises
    <2>2. faults' \in FaultCounts
        BY <1>b, <1>5, FaultTypes DEF FinishRaises
    <2>3. UNCHANGED <<running, surplus, contexts, discovery, environment>>
        BY <1>5 DEF FinishRaises
    <2> QED
        BY <1>a, <1>c, <2>1, <2>2, <2>3 DEF environment
<1>6. ASSUME NEW c \in Calls, Cancelled(c) PROVE SlimeTypeOK'
    <2>1. calls' \in [Calls -> CallTypes]
        BY <1>6, <1>d, <1>f DEF Cancelled
    <2>2. faults' \in FaultCounts
        BY <1>b, <1>6, FaultTypes DEF Cancelled
    <2> QED
        BY <1>a, <1>c, <1>6, <2>1, <2>2 DEF Cancelled, environment
<1>7. ASSUME NEW c \in Calls, Release(c) PROVE SlimeTypeOK'
    <2>1. calls' \in [Calls -> CallTypes]
        BY <1>a, <1>d, <1>7 DEF Release, IdleCall, CallTypes
    <2>2. running' \in [Engines -> Nat]
        <3>1. running' = [running EXCEPT ![calls[c].worker] = IF @ > 0 THEN @ - 1 ELSE 0]
            BY <1>7 DEF Release
        <3>2. \A n \in Nat : (IF n > 0 THEN n - 1 ELSE 0) \in Nat
            OBVIOUS
        <3>3. DOMAIN running' = Engines /\ \A w \in Engines : running'[w] \in Nat
            BY <1>a, <3>1, <3>2
        <3>4. running' = [w \in Engines |-> running'[w]]
            BY <1>a, <3>1
        <3> QED
            BY <3>3, <3>4
    <2> QED
        BY <1>a, <1>c, <1>7, <2>1, <2>2 DEF Release, environment
<1>8. ASSUME NEW w \in Engines, NEW own, NEW others, Probe(w, own, others) PROVE SlimeTypeOK'
    <2> DEFINE known == DOMAIN discovery.found
               seen == [version |-> loaded[w], running |-> own + others, others |-> others]
               found == [x \in known \union {w} |-> IF x = w THEN seen ELSE discovery.found[x]]
    <2>1. /\ discovery # Nothing /\ w \in discovery.urls /\ others \in Nat
          /\ own \in 0..Cardinality(Generating(w))
        BY <1>8, MaxOthersAssumption DEF Probe
    <2>a. own + others \in Nat
        BY <2>1
    <2>2. /\ discovery.caller \in Calls /\ discovery.urls \subseteq Engines /\ known \subseteq discovery.urls
          /\ \A x \in known : discovery.found[x] \in Probes
          /\ discovery = [caller |-> discovery.caller, urls |-> discovery.urls, found |-> discovery.found]
        BY <1>b, <2>1, DiscoveryTypes
    <2>3. found \in [known \union {w} -> Probes]
        <3>1. seen \in Probes
            BY <1>a, <2>1, <2>a DEF Probes
        <3> HIDE DEF seen
        <3> QED
            BY <2>2, <3>1
    <2>4. discovery' = [caller |-> discovery.caller, urls |-> discovery.urls, found |-> found]
        BY <1>8, <2>2 DEF Probe
    <2>5. DiscoveryOK(discovery')
        <3> HIDE DEF found
        <3>1. discovery' \in [caller : Calls, urls : {discovery.urls}, found : [known \union {w} -> Probes]]
            BY <2>2, <2>3, <2>4
        <3> QED
            BY <3>1, <2>1, <2>2, <1>e
    <2>6. faults' \in FaultCounts
        BY <1>a, <1>b, <1>8, FaultTypes DEF Probe
    <2> QED
        BY <1>a, <1>c, <1>8, <2>5, <2>6 DEF Probe, environment
<1>9. ASSUME NEW again \in BOOLEAN, DiscoveryFails(again) PROVE SlimeTypeOK'
    <2>1. DiscoveryOK(discovery')
        <3>1. CASE again
            <4>1. discovery' = [caller |-> discovery.caller, urls |-> listed, found |-> NothingFound]
                BY <1>9, <3>1, <1>b, DiscoveryTypes DEF DiscoveryFails
            <4>2. discovery' \in [caller : Calls, urls : {listed}, found : [{} -> Probes]]
                BY <4>1, <1>9, <1>b, <1>g, DiscoveryTypes DEF DiscoveryFails
            <4> QED
                BY <4>2, <1>a, <1>e
        <3>2. CASE ~again
            BY <1>9, <3>2 DEF DiscoveryFails, DiscoveryOK
        <3> QED
            BY <3>1, <3>2
    <2> QED
        BY <1>a, <1>c, <1>9, <2>1 DEF DiscoveryFails, environment
<1>10. ASSUME NEW placement \in [Indices -> Engines], AssignFirst(placement) PROVE SlimeTypeOK'
    <2> DEFINE c == discovery.caller
    <2>1. discovery # Nothing
        BY <1>10 DEF AssignFirst, Discovered
    <2>2. c \in Calls /\ c[1] \in Groups /\ c[2] \in Indices
        BY <1>b, <2>1, DiscoveryTypes DEF Calls
    <2>3. PICK target \in Versions :
              /\ contexts' = [contexts EXCEPT ![c[1]] = [version |-> target, worker |-> placement]]
              /\ Assign(c, contexts'[c[1]])
              /\ running' = [Refreshed(discovery.found) EXCEPT ![placement[c[2]]] = @ + 1]
        BY <1>10 DEF AssignFirst
    <2>4. [version |-> target, worker |-> placement] \in Contexts
        BY DEF Contexts
    <2>5. contexts' \in [Groups -> Contexts \union {Nothing}] /\ contexts'[c[1]] \in Contexts
        BY <1>a, <2>2, <2>3, <2>4
    <2>6. calls' \in [Calls -> CallTypes]
        BY <1>h, <2>2, <2>3, <2>5
    <2>7. running' \in [Engines -> Nat] /\ surplus' \in [Engines -> Nat]
        BY <1>10, <1>i, <2>1, <2>2, <2>3 DEF AssignFirst
    <2>8. DiscoveryOK(discovery')
        BY <1>10 DEF AssignFirst, DiscoveryOK
    <2> QED
        BY <1>a, <1>c, <1>10, <2>5, <2>6, <2>7, <2>8 DEF AssignFirst, environment
<1>11. ASSUME NEW stored \in SnapshotOutcomes, RouteRaises(stored) PROVE SlimeTypeOK'
    <2>1. running' \in [Engines -> Nat] /\ surplus' \in [Engines -> Nat]
        BY <1>11, <1>i DEF RouteRaises, Discovered
    <2>2. DiscoveryOK(discovery')
        BY <1>11 DEF RouteRaises, DiscoveryOK
    <2>3. faults' \in FaultCounts
        BY <1>a, <1>b, <1>11, FaultTypes DEF RouteRaises
    <2> QED
        BY <1>a, <1>c, <1>11, <2>1, <2>2, <2>3 DEF RouteRaises, environment
<1>12. ASSUME Crash PROVE SlimeTypeOK'
    <2>1. /\ running' \in [Engines -> Nat] /\ surplus' \in [Engines -> Nat]
          /\ contexts' \in [Groups -> Contexts \union {Nothing}] /\ DiscoveryOK(discovery')
        BY <1>12 DEF Crash, DiscoveryOK
    <2>2. calls' \in [Calls -> CallTypes]
        BY <1>12, <1>d DEF Crash, IdleCall, CallTypes
    <2>3. faults' \in FaultCounts
        BY <1>b, <1>12, FaultTypes DEF Crash
    <2> QED
        BY <1>a, <1>c, <1>12, <2>1, <2>2, <2>3 DEF Crash, environment
<1>13. ASSUME NEW w \in Engines, EngineListed(w) \/ \E version \in Versions : EngineLoads(w, version)
       PROVE  SlimeTypeOK'
    <2>1. faults' \in FaultCounts
        BY <1>b, <1>13, FaultTypes DEF EngineListed, EngineLoads
    <2>2. loaded' \in [Engines -> Versions] /\ listed' \subseteq Engines
        BY <1>a, <1>13 DEF EngineListed, EngineLoads
    <2>3. UNCHANGED <<running, surplus, contexts, discovery, calls>>
        BY <1>13 DEF EngineListed, EngineLoads, adapter
    <2> QED
        BY <1>a, <1>c, <2>1, <2>2, <2>3
<1>14. ASSUME Over \/ UNCHANGED slimeVars PROVE SlimeTypeOK'
    <2>1. UNCHANGED <<loaded, listed, running, surplus, contexts, discovery, calls, faults>>
        BY <1>14 DEF Over, slimeVars, adapter, environment
    <2> QED
        BY <1>a, <1>c, <2>1
<1>15. ASSUME NEW c \in Calls, LosesRelease(c) PROVE SlimeTypeOK'
    <2>1. calls' \in [Calls -> CallTypes]
        BY <1>a, <1>d, <1>15 DEF LosesRelease, IdleCall, CallTypes
    <2>2. faults' \in FaultCounts
        BY <1>b, <1>15, FaultTypes DEF LosesRelease
    <2>3. surplus' \in [Engines -> Nat]
        <3>1. surplus' = [surplus EXCEPT ![calls[c].worker] = surplus[calls[c].worker] + 1]
            BY <1>15 DEF LosesRelease
        <3>2. surplus \in [Engines -> Nat]
            BY <1>a
        <3>3. calls[c].worker \in Engines => surplus[calls[c].worker] + 1 \in Nat
            BY <3>2
        <3> QED
            BY ONLY <3>1, <3>2, <3>3
    <2>4. DiscoveryOK(discovery')
        <3> DEFINE w == calls[c].worker
                   known == DOMAIN discovery.found
                   found == [discovery.found EXCEPT ![w].others = @ + 1]
        <3>1. CASE discovery # Nothing /\ w \in known
            <4>1. /\ discovery.caller \in Calls /\ discovery.urls \subseteq Engines /\ known \subseteq discovery.urls
                  /\ \A x \in known : discovery.found[x] \in Probes
                  /\ discovery = [caller |-> discovery.caller, urls |-> discovery.urls, found |-> discovery.found]
                BY <1>b, <3>1, DiscoveryTypes
            <4>2. discovery.found[w] \in Probes /\ [discovery.found[w] EXCEPT !.others = @ + 1] \in Probes
                BY <3>1, <4>1 DEF Probes
            <4>3. found \in [known -> Probes]
                BY <4>1, <4>2
            <4>4. discovery' = [discovery EXCEPT !.found = found]
                BY <1>15, <3>1 DEF LosesRelease
            <4> HIDE DEF found
            <4>5. discovery' \in [caller : Calls, urls : {discovery.urls}, found : [known -> Probes]]
                BY <4>1, <4>3, <4>4
            <4> QED
                BY <4>1, <4>5, <1>e
        <3>2. CASE ~(discovery # Nothing /\ w \in known)
            <4>1. discovery' = discovery
                BY <1>15, <3>2 DEF LosesRelease
            <4> QED
                BY <1>a, <4>1
        <3> QED
            BY <3>1, <3>2
    <2> QED
        BY <1>a, <1>c, <1>15, <2>1, <2>2, <2>3, <2>4 DEF LosesRelease, environment
<1> QED
    BY <1>1, <1>2, <1>3, <1>4, <1>5, <1>6, <1>7, <1>8, <1>9, <1>10, <1>11, <1>12, <1>13, <1>14, <1>15
    DEF SlimeNext, AssignFirstSome, RouteRaisesSome, FinishSome
\* The adapter keeps its types: the target of a route is a version, a call in
\* flight has a worker, a group a decision or none, for any number of groups,
\* samples, engines and faults.
THEOREM SlimeTypesCorrect == SlimeSpec => []SlimeTypeOK
<1>1. SlimeInv => SlimeTypeOK
    BY DEF SlimeInv
<1> QED
    BY SlimeInvInit, SlimeTypeStep, <1>1, PTL DEF SlimeSpec
\* A READY group is complete, of one version and one template, although the
\* adapter can fail in the middle of a completion and retry the sample.
THEOREM SlimeGroupsAreSound == SlimeSpec => []ReadyMeansComplete
<1>1. SlimeInv => ReadyMeansComplete
    BY DEF SlimeInv, SoundInv, Sound, ReadyMeansComplete
<1> QED
    BY SlimeInvInit, SlimeTypeStep, <1>1, PTL DEF SlimeSpec

-------------------------------------------------------------------------------
\* Why the calls of a group share its decision: a decision has the version the
\* group is registered at, and a discovery is for a group that has none.  The
\* decision of an open group is dropped with its process only.
Shared(c) ==
    calls[c].phase = "generating" =>
        /\ Known(c[1]) /\ calls[c].version = groups[c[1]].version
        /\ groups[c[1]].status = "OPEN" =>
              contexts[c[1]] # Nothing /\ calls[c].worker = contexts[c[1]].worker[c[2]]
Registered(g) == contexts[g] # Nothing => Known(g) /\ contexts[g].version = groups[g].version

DecisionInv ==
    /\ SlimeInv
    /\ \A g \in Groups : Registered(g)
    /\ \A c \in Calls : Shared(c)
    /\ discovery # Nothing => contexts[discovery.caller[1]] = Nothing

\* What a step of the tracker leaves of a group it knows.
Kept(g) == Known(g) => /\ groups'[g].status # "ABSENT" /\ groups'[g].version = groups[g].version
                       /\ groups'[g].status = "OPEN" => groups[g].status = "OPEN"

LEMMA RecordKept ==
    ASSUME NEW group \in GroupStates, NEW i \in Indices, NEW r \in Response, group.status # "ABSENT"
    PROVE  /\ Record(group, i, r).status # "ABSENT"
           /\ Record(group, i, r).version = group.version
           /\ Record(group, i, r).status = "OPEN" => group.status = "OPEN"
BY RecordEffect

LEMMA TrackerKeeps ==
    ASSUME SlimeInv, NEW c \in Calls, NEW r \in Answers(c), NEW kept, NEW stored,
           \/ Complete(c[1], c[2], calls[c].version, r, TRUE, TRUE)
           \/ Replay(c[1], c[2], calls[c].version, r)
           \/ FinishRaises(c, r, kept, stored)
    PROVE  \A g \in Groups : Kept(g)
<1> SUFFICES ASSUME NEW g \in Groups, Known(g) PROVE Kept(g)
    BY DEF Kept
<1>1. /\ groups \in [Groups -> GroupStates] /\ c[1] \in Groups /\ c[2] \in Indices /\ r \in Response
      /\ groups[g] \in GroupStates
    BY DEF SlimeInv, SoundInv, TypeOK, Calls, Answers
<1>2. CASE Replay(c[1], c[2], calls[c].version, r)
    BY <1>2 DEF Replay, Kept, Known
<1>3. CASE Complete(c[1], c[2], calls[c].version, r, TRUE, TRUE)
    <2>1. groups' = [groups EXCEPT ![c[1]] = Record(groups[c[1]], c[2], r)]
        BY <1>3 DEF Complete
    <2> QED
        BY <1>1, <2>1, RecordKept DEF Kept, Known
<1>4. CASE FinishRaises(c, r, kept, stored)
    <2> DEFINE h == c[1]
               recorded == IF groups[h].responses[c[2]] = NoResponse
                           THEN [groups EXCEPT ![h] = Record(groups[h], c[2], r)] ELSE groups
    <2>1. groups' = [recorded EXCEPT ![h].failed = @ \union {c[2]}]
        BY <1>4 DEF FinishRaises
    <2>2. recorded \in [Groups -> GroupStates]
        BY <1>1, RecordEffect
    <2>3. /\ recorded[g].status # "ABSENT" /\ recorded[g].version = groups[g].version
          /\ recorded[g].status = "OPEN" => groups[g].status = "OPEN"
        BY <1>1, RecordKept DEF Known
    <2> HIDE DEF recorded
    <2>4. groups'[g].status = recorded[g].status /\ groups'[g].version = recorded[g].version
        BY <1>1, <2>1, <2>2 DEF GroupStates
    <2> QED
        BY <2>3, <2>4 DEF Kept
<1> QED
    BY <1>2, <1>3, <1>4

LEMMA FailKeeps ==
    ASSUME SlimeInv, NEW c \in Calls, NEW stored, RecordFailure(c[1], c[2], FALSE, stored)
    PROVE  \A g \in Groups : Kept(g)
<1>1. groups \in [Groups -> GroupStates] /\ c[1] \in Groups
    BY DEF SlimeInv, SoundInv, TypeOK, Calls
<1> QED
    BY <1>1 DEF RecordFailure, Kept, Known, GroupStates

LEMMA DecisionInit == SlimeInit => DecisionInv
<1> SUFFICES ASSUME SlimeInit PROVE DecisionInv
    OBVIOUS
<1>1. \A c \in Calls : calls[c].phase = "idle"
    BY DEF SlimeInit, IdleCall
<1>2. discovery = Nothing /\ \A g \in Groups : contexts[g] = Nothing
    BY DEF SlimeInit
<1> QED
    BY <1>1, <1>2, SlimeInvInit DEF DecisionInv, Shared, Registered
\* A step that makes no decision and starts no call: what generates after it
\* did so before.
Quiet == /\ UNCHANGED contexts
         /\ \A c \in Calls : calls'[c].phase = "generating" => calls'[c] = calls[c]

LEMMA QuietStep ==
    ASSUME DecisionInv, SlimeInv', \A g \in Groups : Kept(g), Quiet,
           discovery' # Nothing => contexts[discovery'.caller[1]] = Nothing
    PROVE  DecisionInv'
<1>1. ASSUME NEW g \in Groups PROVE Registered(g)'
    BY DEF DecisionInv, Registered, Quiet, Kept, Known
<1>2. ASSUME NEW c \in Calls PROVE Shared(c)'
    <2> SUFFICES ASSUME calls'[c].phase = "generating" PROVE Shared(c)'
        BY DEF Shared
    <2>1. c[1] \in Groups
        BY DEF Calls
    <2>2. calls'[c] = calls[c] /\ contexts' = contexts
        BY DEF Quiet
    <2>3. /\ Known(c[1]) /\ calls[c].version = groups[c[1]].version
          /\ groups[c[1]].status = "OPEN" =>
                contexts[c[1]] # Nothing /\ calls[c].worker = contexts[c[1]].worker[c[2]]
        BY <2>2 DEF DecisionInv, Shared
    <2> QED
        BY <2>1, <2>2, <2>3 DEF Kept, Shared, Known
<1> QED
    BY <1>1, <1>2 DEF DecisionInv, Quiet

\* A call ends, or gives its place back.
LEMMA EndIsQuiet ==
    ASSUME SlimeInv, NEW c \in Calls, NEW phase \in Phases \ {"generating"}, End(c, phase)
    PROVE  \A d \in Calls : calls'[d].phase = "generating" => calls'[d] = calls[d]
<1>1. calls \in [Calls -> [phase : Phases, worker : Engines \union {Nothing}, version : Versions \union {0}]]
    BY DEF SlimeInv, SlimeTypeOK
<1>2. \A d \in Calls : d # c => calls'[d] = calls[d]
    BY <1>1 DEF End
<1>3. calls'[c].phase = phase
    BY <1>1 DEF End
<1> QED
    BY <1>2, <1>3

LEMMA DecisionStep == DecisionInv /\ [SlimeNext \/ Over]_slimeVars => DecisionInv'
<1> SUFFICES ASSUME DecisionInv, [SlimeNext \/ Over]_slimeVars PROVE DecisionInv'
    OBVIOUS
<1>a. SlimeInv /\ SlimeInv'
    BY SlimeTypeStep DEF DecisionInv
<1>b. /\ calls \in [Calls -> [phase : Phases, worker : Engines \union {Nothing}, version : Versions \union {0}]]
      /\ contexts \in [Groups -> Contexts \union {Nothing}] /\ groups \in [Groups -> GroupStates]
    BY <1>a DEF SlimeInv, SlimeTypeOK, TypeOK
<1>c. {"returned", "raised"} \subseteq Phases \ {"generating"} /\ TRUE \in SnapshotOutcomes
    BY FlagAssumption DEF Phases, SnapshotOutcomes
<1>d. ASSUME UNCHANGED vars, Quiet, discovery' # Nothing => contexts[discovery'.caller[1]] = Nothing
      PROVE  DecisionInv'
    BY <1>a, <1>d, QuietStep DEF vars, Kept, Known
<1>e. ASSUME UNCHANGED discovery PROVE discovery' # Nothing => contexts[discovery'.caller[1]] = Nothing
    BY <1>e DEF DecisionInv
<1>1. ASSUME NEW c \in Calls, AssignCached(c) PROVE DecisionInv'
    <2>1. UNCHANGED <<groups, contexts, discovery>> /\ contexts[c[1]] # Nothing /\ c[1] \in Groups
        BY <1>1 DEF AssignCached, vars, Calls
    <2>2. calls' = [calls EXCEPT ![c] = [phase |-> "generating", version |-> contexts[c[1]].version,
                                         worker |-> contexts[c[1]].worker[c[2]]]]
        BY <1>1 DEF AssignCached, Assign
    <2>3. \A d \in Calls : d # c => calls'[d] = calls[d]
        BY <1>b, <2>2
    <2>4. calls'[c].version = contexts[c[1]].version /\ calls'[c].worker = contexts[c[1]].worker[c[2]]
        BY <1>b, <2>2
    <2>5. Registered(c[1])
        BY <2>1 DEF DecisionInv
    <2>6. Shared(c)'
        BY <2>1, <2>4, <2>5 DEF Shared, Registered, Known
    <2>7. ASSUME NEW d \in Calls, d # c PROVE Shared(d)'
        BY <2>1, <2>3, <2>7 DEF Shared, Known, DecisionInv
    <2>8. \A g \in Groups : Registered(g)'
        BY <2>1 DEF Registered, Known, DecisionInv
    <2> QED
        BY <1>a, <1>e, <2>1, <2>6, <2>7, <2>8 DEF DecisionInv
<1>2. ASSUME NEW c \in Calls, Discover(c) PROVE DecisionInv'
    <2>1. discovery'.caller = c /\ contexts[c[1]] = Nothing /\ Quiet
        BY <1>2 DEF Discover, Quiet
    <2> QED
        BY <1>2, <1>d, <2>1 DEF Discover
<1>3. ASSUME NEW c \in Calls, NEW r \in Answers(c), Finish(c, r) PROVE DecisionInv'
    <2>1. \A g \in Groups : Kept(g)
        BY <1>a, <1>c, <1>3, TrackerKeeps DEF Finish
    <2>2. \A d \in Calls : calls'[d].phase = "generating" => calls'[d] = calls[d]
        BY <1>a, <1>c, <1>3, EndIsQuiet DEF Finish
    <2>3. UNCHANGED discovery /\ c[1] \in Groups
        BY <1>3 DEF Finish, Calls
    <2>4. contexts' = IF groups'[c[1]].status = "READY" THEN [contexts EXCEPT ![c[1]] = Nothing] ELSE contexts
        BY <1>3 DEF Finish
    <2>5. CASE groups'[c[1]].status = "READY"
        <3>1. \A g \in Groups : contexts'[g] = IF g = c[1] THEN Nothing ELSE contexts[g]
            BY <1>b, <2>4, <2>5
        <3>2. ASSUME NEW g \in Groups PROVE Registered(g)'
            BY <2>1, <3>1 DEF DecisionInv, Registered, Kept, Known
        <3>3. ASSUME NEW d \in Calls, calls'[d].phase = "generating" PROVE Shared(d)'
            <4>1. d[1] \in Groups /\ calls'[d] = calls[d]
                BY <2>2, <3>3 DEF Calls
            <4>2. Shared(d) /\ calls[d].phase = "generating"
                BY <3>3, <4>1 DEF DecisionInv
            <4> QED
                BY <2>1, <2>5, <3>1, <4>1, <4>2 DEF Shared, Kept, Known
        <3>4. \A d \in Calls : Shared(d)'
            BY <3>3 DEF Shared
        <3>5. discovery' # Nothing => contexts'[discovery'.caller[1]] = Nothing
            <4> SUFFICES ASSUME discovery # Nothing PROVE contexts'[discovery.caller[1]] = Nothing
                BY <2>3
            <4>1. discovery.caller[1] \in Groups /\ contexts[discovery.caller[1]] = Nothing
                BY <1>a, DiscoveryTypes DEF DecisionInv, SlimeInv, Calls
            <4> QED
                BY <3>1, <4>1
        <3> QED
            BY <1>a, <3>2, <3>4, <3>5 DEF DecisionInv
    <2>6. CASE groups'[c[1]].status # "READY"
        BY <1>a, <1>e, <2>1, <2>2, <2>3, <2>4, <2>6, QuietStep DEF Quiet
    <2> QED
        BY <2>5, <2>6
<1>4. ASSUME NEW c \in Calls, NEW stored \in SnapshotOutcomes, Fail(c, stored) PROVE DecisionInv'
    <2>1. \A g \in Groups : Kept(g)
        BY <1>4, FailKeeps, <1>a DEF Fail
    <2>2. Quiet /\ UNCHANGED discovery
        BY <1>a, <1>c, <1>4, EndIsQuiet DEF Fail, Quiet
    <2> QED
        BY <1>a, <1>e, <2>1, <2>2, QuietStep
<1>5. ASSUME NEW c \in Calls, NEW r \in Answers(c), NEW kept \in SnapshotOutcomes, NEW stored \in SnapshotOutcomes,
             FinishRaises(c, r, kept, stored)
      PROVE  DecisionInv'
    <2>1. \A g \in Groups : Kept(g)
        BY <1>a, <1>5, TrackerKeeps
    <2>2. Quiet /\ UNCHANGED discovery
        BY <1>a, <1>c, <1>5, EndIsQuiet DEF FinishRaises, Quiet
    <2> QED
        BY <1>a, <1>e, <2>1, <2>2, QuietStep
<1>6. ASSUME NEW c \in Calls, Cancelled(c) PROVE DecisionInv'
    <2>1. Quiet /\ UNCHANGED <<vars, discovery>>
        BY <1>a, <1>c, <1>6, EndIsQuiet DEF Cancelled, Quiet
    <2> QED
        BY <1>d, <1>e, <2>1
<1>7. ASSUME NEW c \in Calls, Release(c) PROVE DecisionInv'
    <2>1. calls' = [calls EXCEPT ![c] = [IdleCall EXCEPT !.phase =
                       IF calls[c].phase = "returned" THEN "done" ELSE "idle"]]
        BY <1>7 DEF Release
    <2>2. calls'[c].phase \in {"done", "idle"} /\ \A d \in Calls : d # c => calls'[d] = calls[d]
        BY <1>b, <2>1 DEF IdleCall
    <2>3. Quiet /\ UNCHANGED <<vars, discovery>>
        BY <1>7, <2>2 DEF Release, Quiet
    <2> QED
        BY <1>d, <1>e, <2>3
<1>8. ASSUME NEW w \in Engines, NEW own, NEW others, Probe(w, own, others) PROVE DecisionInv'
    <2>1. discovery # Nothing /\ discovery'.caller = discovery.caller
        BY <1>a, <1>8, DiscoveryTypes DEF Probe, SlimeInv
    <2>2. Quiet /\ UNCHANGED vars
        BY <1>8 DEF Probe, Quiet
    <2> QED
        BY <1>d, <2>1, <2>2 DEF DecisionInv
<1>9. ASSUME NEW again \in BOOLEAN, DiscoveryFails(again) PROVE DecisionInv'
    <2>1. discovery # Nothing /\ (discovery' # Nothing => discovery'.caller = discovery.caller)
        BY <1>a, <1>9, DiscoveryTypes DEF DiscoveryFails, SlimeInv
    <2>2. Quiet /\ UNCHANGED vars
        BY <1>9 DEF DiscoveryFails, Quiet
    <2> QED
        BY <1>d, <2>1, <2>2 DEF DecisionInv
<1>10. ASSUME NEW placement \in [Indices -> Engines], AssignFirst(placement) PROVE DecisionInv'
    <2>1. discovery # Nothing /\ discovery' = Nothing
        BY <1>10 DEF AssignFirst, Discovered
    <2>c. PICK c \in Calls : c = discovery.caller
        BY <1>a, <2>1, DiscoveryTypes DEF SlimeInv
    <2> DEFINE g == c[1]
    <2>2. g \in Groups /\ contexts[g] = Nothing
        BY <2>c, <2>1 DEF Calls, DecisionInv
    <2>3. PICK target \in Versions :
              /\ Route(g, target, TRUE)
              /\ contexts' = [contexts EXCEPT ![g] = [version |-> target, worker |-> placement]]
              /\ Assign(c, contexts'[g])
        BY <1>10, <2>c DEF AssignFirst
    <2>4. groups'[g].status # "ABSENT" /\ groups'[g].version = target /\ (Known(g) => groups' = groups)
        BY <1>b, <2>2, <2>3 DEF Route, Fresh, Known
    <2>5. [version |-> target, worker |-> placement] # Nothing
        BY NothingAssumption DEF Contexts
    <2>6. /\ contexts'[g] = [version |-> target, worker |-> placement]
          /\ \A h \in Groups : h # g => contexts'[h] = contexts[h] /\ groups'[h] = groups[h]
        BY <1>b, <2>2, <2>3 DEF Route
    <2>7. /\ calls'[c] = [phase |-> "generating", version |-> target, worker |-> placement[c[2]]]
          /\ \A d \in Calls : d # c => calls'[d] = calls[d]
        BY <1>b, <2>2, <2>3, <2>6 DEF Assign
    <2>8. \A h \in Groups : Registered(h)'
        BY <2>2, <2>4, <2>6 DEF DecisionInv, Registered, Known
    <2>9. Shared(c)'
        BY <2>4, <2>5, <2>6, <2>7 DEF Shared, Known
    <2>10. ASSUME NEW d \in Calls, d # c PROVE Shared(d)'
        <3>1. Shared(d) /\ d[1] \in Groups /\ calls'[d] = calls[d]
            BY <2>7, <2>10 DEF DecisionInv, Calls
        <3>2. CASE d[1] = g
            \* A call that still generates for a group without a decision: the
            \* group is not open, and stays as it is.
            BY <2>2, <2>4, <3>1, <3>2 DEF Shared, Known
        <3>3. CASE d[1] # g
            BY <2>6, <3>1, <3>3 DEF Shared, Known
        <3> QED
            BY <3>2, <3>3
    <2> QED
        BY <1>a, <2>1, <2>8, <2>9, <2>10 DEF DecisionInv
<1>11. ASSUME NEW stored \in SnapshotOutcomes, RouteRaises(stored) PROVE DecisionInv'
    <2>1. discovery # Nothing /\ discovery' = Nothing /\ Quiet
        BY <1>11 DEF RouteRaises, Discovered, Quiet
    <2>2. discovery.caller[1] \in Groups
        BY <1>a, <2>1, DiscoveryTypes DEF Calls, SlimeInv
    <2>3. PICK target \in Versions : UNCHANGED vars \/ Route(discovery.caller[1], target, stored)
        BY <1>11 DEF RouteRaises
    <2>4. \A g \in Groups : Kept(g)
        BY <1>b, <2>2, <2>3 DEF Route, Kept, Known, vars
    <2> QED
        BY <1>a, <2>1, <2>4, QuietStep
<1>12. ASSUME Crash PROVE DecisionInv'
    <2>1. discovery' = Nothing /\ \A g \in Groups : contexts'[g] = Nothing
        BY <1>12 DEF Crash
    <2>2. \A c \in Calls : calls'[c].phase = "idle"
        BY <1>12 DEF Crash, IdleCall
    <2> QED
        BY <1>a, <2>1, <2>2 DEF DecisionInv, Registered, Shared
<1>13. ASSUME NEW w \in Engines, EngineListed(w) \/ \E version \in Versions : EngineLoads(w, version)
       PROVE  DecisionInv'
    BY <1>13, <1>d, <1>e DEF EngineListed, EngineLoads, adapter, Quiet
<1>14. ASSUME Over \/ UNCHANGED slimeVars PROVE DecisionInv'
    <2>1. UNCHANGED <<vars, contexts, discovery, calls>>
        BY <1>14 DEF Over, slimeVars, adapter
    <2> QED
        BY <1>d, <1>e, <2>1 DEF Quiet
<1>15. ASSUME NEW c \in Calls, LosesRelease(c) PROVE DecisionInv'
    <2>1. calls' = [calls EXCEPT ![c] = IdleCall]
        BY <1>15 DEF LosesRelease
    <2>2. calls'[c].phase = "idle" /\ \A d \in Calls : d # c => calls'[d] = calls[d]
        BY <1>b, <2>1 DEF IdleCall
    <2>3. Quiet /\ UNCHANGED vars
        BY <1>15, <2>2 DEF LosesRelease, Quiet
    <2>4. ASSUME discovery' # Nothing PROVE discovery # Nothing /\ discovery'.caller = discovery.caller
        BY <1>a, <1>15, <2>4, DiscoveryTypes DEF LosesRelease, SlimeInv
    <2> QED
        BY <1>d, <2>3, <2>4 DEF DecisionInv
<1> QED
    BY <1>1, <1>2, <1>3, <1>4, <1>5, <1>6, <1>7, <1>8, <1>9, <1>10, <1>11, <1>12, <1>13, <1>14, <1>15
    DEF SlimeNext, AssignFirstSome, RouteRaisesSome, FinishSome

\* The first call of a group decides for all of them: whatever is retried,
\* cancelled, reloaded or unlisted meanwhile, every call that generates for an
\* open group has its version and the worker the decision gives it.
THEOREM OneDecision == SlimeSpec => []SameDecision
<1>1. DecisionInv => SameDecision
    BY DEF DecisionInv, Shared, SameDecision
<1> QED
    BY DecisionInit, DecisionStep, <1>1, PTL DEF SlimeSpec
-------------------------------------------------------------------------------
\* Counting calls.
LEMMA CallsFinite == IsFiniteSet(Calls)
<1>1. IsFiniteSet(Indices)
    BY SizeAssumption, FS_Interval DEF Indices
<1> QED
    BY <1>1, GroupsAssumption, FS_Product DEF Calls

LEMMA Counting ==
    ASSUME NEW S \in SUBSET Calls
    PROVE  /\ IsFiniteSet(S) /\ Cardinality(S) \in Nat
           /\ \A T \in SUBSET S : Cardinality(T) \in Nat /\ Cardinality(T) <= Cardinality(S)
           /\ \A c \in Calls \ S : Cardinality(S \union {c}) = Cardinality(S) + 1
           /\ \A c \in S : Cardinality(S \ {c}) = Cardinality(S) - 1
<1>1. IsFiniteSet(S)
    BY CallsFinite, FS_Subset
<1>2. Cardinality(S) \in Nat
    BY <1>1, FS_CardinalityType
<1>3. ASSUME NEW T \in SUBSET S PROVE Cardinality(T) \in Nat /\ Cardinality(T) <= Cardinality(S)
    BY <1>1, FS_Subset, FS_CardinalityType
<1>4. ASSUME NEW c \in Calls \ S PROVE Cardinality(S \union {c}) = Cardinality(S) + 1
    BY <1>1, FS_AddElement
<1>5. ASSUME NEW c \in S PROVE Cardinality(S \ {c}) = Cardinality(S) - 1
    BY <1>1, FS_RemoveElement
<1> QED
    BY <1>1, <1>2, <1>3, <1>4, <1>5

\* Why no load leaks: what an engine has reported to a discovery is covered by
\* calls in flight and requests of others, and no call gives its place back before
\* the discovery ends; one that never will is counted with the others.  The call
\* that discovers has no place yet.
Loaded(w, count, more) == count <= Cardinality(InFlight(w)) + more

LoadInv ==
    /\ SlimeInv
    /\ \A w \in Engines : Loaded(w, running[w], surplus[w])
    /\ discovery # Nothing => /\ calls[discovery.caller].phase = "idle"
                              /\ \A w \in DOMAIN discovery.found :
                                    Loaded(w, discovery.found[w].running, discovery.found[w].others)

LEMMA InFlightCounts ==
    ASSUME NEW w
    PROVE  /\ InFlight(w) \subseteq Calls /\ Cardinality(InFlight(w)) \in Nat
           /\ Cardinality(InFlight(w))' \in Nat
           /\ Generating(w) \subseteq InFlight(w)
           /\ Cardinality(Generating(w)) \in Nat /\ Cardinality(Generating(w)) <= Cardinality(InFlight(w))
<1>1. InFlight(w) \subseteq Calls /\ InFlight(w)' \subseteq Calls /\ Generating(w) \subseteq InFlight(w)
    BY DEF InFlight, Generating
<1> QED
    BY <1>1, Counting

LEMMA LoadInit == SlimeInit => LoadInv
<1> SUFFICES ASSUME SlimeInit PROVE LoadInv
    OBVIOUS
<1>1. discovery = Nothing /\ \A w \in Engines : running[w] = 0 /\ surplus[w] = 0
    BY DEF SlimeInit
<1>2. \A w \in Engines : Loaded(w, running[w], surplus[w])
    BY <1>1, InFlightCounts DEF Loaded
<1> QED
    BY <1>1, <1>2, SlimeInvInit DEF LoadInv

\* A call that takes a place is in flight, and no other changes.
LEMMA AssignCounts ==
    ASSUME SlimeInv, NEW c \in Calls, calls[c].phase = "idle", NEW context \in Contexts, Assign(c, context)
    PROVE  /\ context.worker[c[2]] \in Engines
           /\ Cardinality(InFlight(context.worker[c[2]]))' = Cardinality(InFlight(context.worker[c[2]])) + 1
           /\ \A w \in Engines \ {context.worker[c[2]]} : InFlight(w)' = InFlight(w)
<1> DEFINE at == context.worker[c[2]]
<1>1. at \in Engines
    BY DEF Contexts, Calls
<1>2. calls \in [Calls -> [phase : Phases, worker : Engines \union {Nothing}, version : Versions \union {0}]]
    BY DEF SlimeInv, SlimeTypeOK
<1>3. /\ calls'[c].phase = "generating" /\ calls'[c].worker = at
      /\ \A d \in Calls : d # c => calls'[d] = calls[d]
    BY <1>2 DEF Assign
<1> HIDE DEF at
<1>4. c \notin InFlight(at) /\ InFlight(at)' = InFlight(at) \union {c} /\ InFlight(at) \subseteq Calls
    BY <1>3 DEF InFlight
<1>5. Cardinality(InFlight(at) \union {c}) = Cardinality(InFlight(at)) + 1
    BY <1>4, Counting
<1>6. \A w \in Engines \ {at} : InFlight(w)' = InFlight(w)
    BY <1>3 DEF InFlight
<1> QED
    BY <1>1, <1>4, <1>5, <1>6 DEF at
\* A step that moves no call in or out of flight.
Still == \A c \in Calls : \/ calls'[c] = calls[c]
                         \/ /\ calls'[c].worker = calls[c].worker
                            /\ calls[c].phase = "generating" /\ calls'[c].phase \in {"returned", "raised"}

LEMMA StillCounts ==
    ASSUME Still
    PROVE  /\ \A w \in Engines : InFlight(w)' = InFlight(w)
           /\ \A c \in Calls : calls[c].phase = "idle" => calls'[c].phase = "idle"
BY DEF Still, InFlight

LEMMA EndIsStill ==
    ASSUME SlimeInv, NEW c \in Calls, NEW phase \in {"returned", "raised"}, calls[c].phase = "generating", End(c, phase)
    PROVE  Still
<1>1. calls \in [Calls -> [phase : Phases, worker : Engines \union {Nothing}, version : Versions \union {0}]]
    BY DEF SlimeInv, SlimeTypeOK
<1>2. calls'[c] = [calls[c] EXCEPT !.phase = phase] /\ \A d \in Calls : d # c => calls'[d] = calls[d]
    BY <1>1 DEF End
<1> QED
    BY <1>1, <1>2 DEF Still

LEMMA StillStep ==
    ASSUME LoadInv, SlimeInv', Still, UNCHANGED <<running, surplus, discovery>>
    PROVE  LoadInv'
<1>1. \A w \in Engines : Loaded(w, running[w], surplus[w])'
    BY StillCounts DEF LoadInv, Loaded
<1>2. ASSUME discovery # Nothing
      PROVE  /\ calls'[discovery.caller].phase = "idle"
             /\ \A w \in DOMAIN discovery.found :
                   discovery.found[w].running <= Cardinality(InFlight(w))' + discovery.found[w].others
    <2>1. discovery.caller \in Calls /\ DOMAIN discovery.found \subseteq Engines
        BY <1>2, DiscoveryTypes DEF LoadInv, SlimeInv
    <2> QED
        BY <1>2, <2>1, StillCounts DEF LoadInv, Loaded
<1> QED
    BY <1>1, <1>2 DEF LoadInv, Loaded

LEMMA LoadStep == LoadInv /\ [SlimeNext \/ Over]_slimeVars => LoadInv'
<1> SUFFICES ASSUME LoadInv, [SlimeNext \/ Over]_slimeVars PROVE LoadInv'
    OBVIOUS
<1>a. SlimeInv /\ SlimeTypeOK /\ SlimeInv'
    BY SlimeTypeStep DEF LoadInv, SlimeInv
<1>b. /\ calls \in [Calls -> [phase : Phases, worker : Engines \union {Nothing}, version : Versions \union {0}]]
      /\ contexts \in [Groups -> Contexts \union {Nothing}]
      /\ running \in [Engines -> Nat] /\ surplus \in [Engines -> Nat] /\ surplus' \in [Engines -> Nat]
    BY <1>a DEF SlimeInv, SlimeTypeOK
<1>c. \A w \in Engines : running[w] <= Cardinality(InFlight(w)) + surplus[w]
    BY DEF LoadInv, Loaded
<1>d. ASSUME UNCHANGED <<running, surplus, discovery, calls>> PROVE LoadInv'
    BY <1>a, <1>d, StillStep DEF Still
<1>e. ASSUME discovery # Nothing, NoteRefreshed(discovery.found)
      PROVE  \A w \in Engines : Refreshed(discovery.found)[w] <= Cardinality(InFlight(w)) + surplus'[w]
    BY <1>c, <1>e DEF Refreshed, NoteRefreshed, LoadInv, Loaded
<1>1. ASSUME NEW c \in Calls, AssignCached(c) PROVE LoadInv'
    <2>1. PICK context \in Contexts :
              /\ context = contexts[c[1]] /\ Assign(c, context)
              /\ calls[c].phase = "idle" /\ discovery' = Nothing
        BY <1>1, <1>b DEF AssignCached, Calls
    <2> DEFINE at == context.worker[c[2]]
    <2>2. running' = [running EXCEPT ![at] = @ + 1]
        BY <1>1, <2>1 DEF AssignCached
    <2>3. /\ at \in Engines
          /\ Cardinality(InFlight(at))' = Cardinality(InFlight(at)) + 1
          /\ \A w \in Engines \ {at} : InFlight(w)' = InFlight(w)
        BY <1>a, <2>1, AssignCounts
    <2>4. ASSUME NEW w \in Engines PROVE running'[w] <= Cardinality(InFlight(w))' + surplus'[w]
        <3>1. /\ running[w] <= Cardinality(InFlight(w)) + surplus[w] /\ running[w] \in Nat
              /\ Cardinality(InFlight(w)) \in Nat /\ surplus[w] \in Nat /\ surplus' = surplus
            BY <1>b, <1>c, <1>1, InFlightCounts DEF AssignCached
        <3> QED
            BY <1>b, <2>2, <2>3, <3>1
    <2> QED
        BY <1>a, <2>1, <2>4 DEF LoadInv, Loaded
<1>2. ASSUME NEW c \in Calls, Discover(c) PROVE LoadInv'
    <2>1. UNCHANGED <<running, surplus, calls>> /\ calls[c].phase = "idle"
        BY <1>2 DEF Discover
    <2>2. discovery'.caller = c /\ DOMAIN discovery'.found = {}
        BY <1>2 DEF Discover, NothingFound
    <2> QED
        BY <1>a, <1>c, <2>1, <2>2 DEF LoadInv, Loaded, InFlight
<1>3. ASSUME NEW c \in Calls, calls[c].phase = "generating", NEW phase \in {"returned", "raised"},
             End(c, phase), UNCHANGED <<running, surplus, discovery>>
      PROVE  LoadInv'
    BY <1>a, <1>3, EndIsStill, StillStep
<1>4. ASSUME NEW c \in Calls, Release(c) PROVE LoadInv'
    <2>c. PICK at \in Engines \union {Nothing} : at = calls[c].worker
        BY <1>b
    <2>1. /\ discovery' = Nothing /\ calls[c].phase \in {"returned", "raised"}
          /\ running' = [running EXCEPT ![at] = IF @ > 0 THEN @ - 1 ELSE 0]
          /\ calls' = [calls EXCEPT ![c] = [IdleCall EXCEPT !.phase =
                          IF calls[c].phase = "returned" THEN "done" ELSE "idle"]]
        BY <1>4, <2>c DEF Release
    <2>2. calls'[c].phase \in {"done", "idle"} /\ \A d \in Calls : d # c => calls'[d] = calls[d]
        BY <1>b, <2>1 DEF IdleCall
    <2>3. InFlight(at)' = InFlight(at) \ {c} /\ c \in InFlight(at)
          /\ \A w \in Engines \ {at} : InFlight(w)' = InFlight(w)
        BY <2>c, <2>1, <2>2 DEF InFlight
    <2>4. Cardinality(InFlight(at))' = Cardinality(InFlight(at)) - 1
        BY <2>3, InFlightCounts, Counting
    <2>5. ASSUME NEW w \in Engines PROVE running'[w] <= Cardinality(InFlight(w))' + surplus'[w]
        <3>1. /\ running[w] <= Cardinality(InFlight(w)) + surplus[w] /\ running[w] \in Nat
              /\ Cardinality(InFlight(w)) \in Nat /\ Cardinality(InFlight(w))' \in Nat
              /\ surplus[w] \in Nat /\ surplus' = surplus
            BY <1>b, <1>c, <1>4, InFlightCounts DEF Release
        <3>2. CASE w = at
            BY <1>b, <2>1, <2>4, <3>1, <3>2
        <3>3. CASE w # at
            BY <1>b, <2>1, <2>3, <3>1, <3>3
        <3> QED
            BY <3>2, <3>3
    <2> QED
        BY <1>a, <2>1, <2>5 DEF LoadInv, Loaded
<1>5. ASSUME NEW w \in Engines, NEW own, NEW others, Probe(w, own, others) PROVE LoadInv'
    <2>1. /\ discovery # Nothing /\ own \in 0..Cardinality(Generating(w)) /\ others \in Nat
          /\ UNCHANGED <<running, surplus, calls>> /\ discovery'.caller = discovery.caller
          /\ discovery'.found = [x \in DOMAIN discovery.found \union {w} |->
                IF x = w THEN [version |-> loaded[w], running |-> own + others, others |-> others]
                         ELSE discovery.found[x]]
        BY <1>a, <1>5, DiscoveryTypes, MaxOthersAssumption DEF Probe
    <2>2. own + others <= Cardinality(InFlight(w)) + others
        BY <2>1, InFlightCounts
    <2>3. \A x \in DOMAIN discovery'.found :
              discovery'.found[x].running <= Cardinality(InFlight(x)) + discovery'.found[x].others
        BY <2>1, <2>2 DEF LoadInv, Loaded
    <2>4. calls'[discovery'.caller].phase = "idle"
        BY <2>1 DEF LoadInv
    <2> QED
        BY <1>a, <1>c, <2>1, <2>3, <2>4 DEF LoadInv, Loaded, InFlight
<1>6. ASSUME NEW again \in BOOLEAN, DiscoveryFails(again) PROVE LoadInv'
    <2>1. UNCHANGED <<running, surplus, calls>> /\ discovery # Nothing
        BY <1>6 DEF DiscoveryFails
    <2>2. discovery' # Nothing => discovery'.caller = discovery.caller /\ DOMAIN discovery'.found = {}
        BY <1>a, <1>6, DiscoveryTypes DEF DiscoveryFails, NothingFound
    <2> QED
        BY <1>a, <1>c, <2>1, <2>2 DEF LoadInv, Loaded, InFlight
<1>7. ASSUME NEW placement \in [Indices -> Engines], AssignFirst(placement) PROVE LoadInv'
    <2>1. discovery # Nothing /\ discovery' = Nothing
        BY <1>7 DEF AssignFirst, Discovered
    <2>2. PICK c \in Calls : c = discovery.caller
        BY <1>a, <2>1, DiscoveryTypes
    <2> DEFINE at == placement[c[2]]
    <2>3. PICK target \in Versions :
              /\ contexts' = [contexts EXCEPT ![c[1]] = [version |-> target, worker |-> placement]]
              /\ Assign(c, contexts'[c[1]])
              /\ running' = [Refreshed(discovery.found) EXCEPT ![at] = @ + 1]
              /\ NoteRefreshed(discovery.found)
        BY <1>7, <2>2 DEF AssignFirst
    <2>4. /\ contexts'[c[1]] = [version |-> target, worker |-> placement] /\ c[2] \in Indices
          /\ [version |-> target, worker |-> placement] \in Contexts
        BY <1>b, <2>3 DEF Contexts, Calls
    <2>5. calls[c].phase = "idle"
        BY <2>1, <2>2 DEF LoadInv
    <2>6. /\ at \in Engines
          /\ Cardinality(InFlight(at))' = Cardinality(InFlight(at)) + 1
          /\ \A w \in Engines \ {at} : InFlight(w)' = InFlight(w)
        BY <1>a, <2>3, <2>4, <2>5, AssignCounts
    <2>7. Refreshed(discovery.found) \in [Engines -> Nat]
        BY <1>a, <1>b, <2>1, DiscoveryTypes DEF Refreshed, Probes
    <2>8. ASSUME NEW w \in Engines PROVE running'[w] <= Cardinality(InFlight(w))' + surplus'[w]
        <3>1. /\ Refreshed(discovery.found)[w] <= Cardinality(InFlight(w)) + surplus'[w]
              /\ Refreshed(discovery.found)[w] \in Nat /\ Cardinality(InFlight(w)) \in Nat
              /\ surplus'[w] \in Nat
            BY <1>b, <1>e, <2>1, <2>3, <2>7, InFlightCounts
        <3> QED
            BY <2>3, <2>6, <2>7, <3>1
    <2> QED
        BY <1>a, <2>1, <2>8 DEF LoadInv, Loaded
<1>8. ASSUME NEW stored \in SnapshotOutcomes, RouteRaises(stored) PROVE LoadInv'
    <2>1. discovery # Nothing /\ discovery' = Nothing /\ UNCHANGED calls
          /\ running' = Refreshed(discovery.found) /\ NoteRefreshed(discovery.found)
        BY <1>8 DEF RouteRaises, Discovered
    <2> QED
        BY <1>a, <1>e, <2>1 DEF LoadInv, Loaded, InFlight
<1>9. ASSUME Crash PROVE LoadInv'
    <2>1. discovery' = Nothing /\ \A w \in Engines : running'[w] = 0 /\ surplus'[w] = 0
        BY <1>9 DEF Crash
    <2> QED
        BY <1>a, <2>1, InFlightCounts DEF LoadInv, Loaded
<1>10. ASSUME NEW w \in Engines, EngineListed(w) \/ \E version \in Versions : EngineLoads(w, version)
       PROVE  LoadInv'
    BY <1>10, <1>d DEF EngineListed, EngineLoads, adapter
<1>11. ASSUME Over \/ UNCHANGED slimeVars PROVE LoadInv'
    <2>1. UNCHANGED <<running, surplus, discovery, calls>>
        BY <1>11 DEF Over, slimeVars, adapter
    <2> QED
        BY <1>d, <2>1
<1>12. ASSUME NEW c \in Calls,
              \/ \E r \in Answers(c) : Finish(c, r)
              \/ \E stored \in SnapshotOutcomes : Fail(c, stored)
              \/ \E r \in Answers(c), kept, stored \in SnapshotOutcomes : FinishRaises(c, r, kept, stored)
              \/ Cancelled(c)
       PROVE  LoadInv'
    BY <1>3, <1>12 DEF Finish, Fail, FinishRaises, Cancelled
<1>13. ASSUME NEW c \in Calls, LosesRelease(c) PROVE LoadInv'
    <2>c. PICK at \in Engines \union {Nothing} : at = calls[c].worker
        BY <1>b
    <2>1. /\ calls[c].phase \in {"returned", "raised"} /\ UNCHANGED running
          /\ surplus' = [surplus EXCEPT ![at] = @ + 1]
          /\ calls' = [calls EXCEPT ![c] = IdleCall]
        BY <1>13, <2>c DEF LosesRelease
    <2>2. calls'[c].phase = "idle" /\ \A d \in Calls : d # c => calls'[d] = calls[d]
        BY <1>b, <2>1 DEF IdleCall
    <2>3. InFlight(at)' = InFlight(at) \ {c} /\ c \in InFlight(at)
          /\ \A w \in Engines \ {at} : InFlight(w)' = InFlight(w)
        BY <2>c, <2>1, <2>2 DEF InFlight
    <2>4. Cardinality(InFlight(at))' = Cardinality(InFlight(at)) - 1
        BY <2>3, InFlightCounts, Counting
    <2>5. ASSUME NEW w \in Engines PROVE running'[w] <= Cardinality(InFlight(w))' + surplus'[w]
        <3>1. /\ running[w] <= Cardinality(InFlight(w)) + surplus[w] /\ running[w] \in Nat
              /\ Cardinality(InFlight(w)) \in Nat /\ Cardinality(InFlight(w))' \in Nat
              /\ surplus[w] \in Nat
            BY <1>b, <1>c, InFlightCounts
        <3>2. CASE w = at
            BY <1>b, <2>1, <2>4, <3>1, <3>2
        <3>3. CASE w # at
            BY <1>b, <2>1, <2>3, <3>1, <3>3
        <3> QED
            BY <3>2, <3>3
    <2>6. ASSUME discovery' # Nothing
          PROVE  /\ calls'[discovery'.caller].phase = "idle"
                 /\ \A w \in DOMAIN discovery'.found :
                       discovery'.found[w].running <= Cardinality(InFlight(w))' + discovery'.found[w].others
        <3>1. /\ discovery # Nothing /\ discovery.caller \in Calls /\ DOMAIN discovery.found \subseteq Engines
              /\ \A w \in DOMAIN discovery.found : discovery.found[w] \in Probes
              /\ discovery = [caller |-> discovery.caller, urls |-> discovery.urls, found |-> discovery.found]
            BY <1>a, <1>13, <2>6, DiscoveryTypes DEF LosesRelease
        <3>2. /\ discovery'.caller = discovery.caller /\ DOMAIN discovery'.found = DOMAIN discovery.found
              /\ \A w \in DOMAIN discovery.found :
                    /\ discovery'.found[w].running = discovery.found[w].running
                    /\ discovery'.found[w].others =
                           IF w = at THEN discovery.found[w].others + 1 ELSE discovery.found[w].others
            BY <1>13, <2>c, <3>1 DEF LosesRelease, Probes
        <3>3. calls[discovery.caller].phase = "idle"
            BY <3>1 DEF LoadInv
        <3>4. ASSUME NEW w \in DOMAIN discovery.found
              PROVE  discovery'.found[w].running <= Cardinality(InFlight(w))' + discovery'.found[w].others
            <4>1. /\ discovery.found[w].running <= Cardinality(InFlight(w)) + discovery.found[w].others
                  /\ discovery.found[w].running \in Nat /\ discovery.found[w].others \in Nat
                  /\ Cardinality(InFlight(w)) \in Nat /\ Cardinality(InFlight(w))' \in Nat /\ w \in Engines
                BY <3>1, InFlightCounts DEF LoadInv, Loaded, Probes
            <4>2. CASE w = at
                BY <2>4, <3>2, <4>1, <4>2
            <4>3. CASE w # at
                BY <2>3, <3>2, <4>1, <4>3
            <4> QED
                BY <4>2, <4>3
        <3> QED
            BY <2>1, <2>2, <3>1, <3>2, <3>3, <3>4
    <2> QED
        BY <1>a, <2>5, <2>6 DEF LoadInv, Loaded
<1> QED
    BY <1>1, <1>2, <1>4, <1>5, <1>6, <1>7, <1>8, <1>9, <1>10, <1>11, <1>12, <1>13
    DEF SlimeNext, AssignFirstSome, RouteRaisesSome, FinishSome

\* A worker is never believed busier than with the calls it has in flight, the
\* requests of others that its last refresh was told of, and the releases cancelled
\* since that probe.  Each discovery overwrites the count with a number that was
\* true earlier, but release() waits for the lock a discovery holds: so nothing
\* else is left in the count, for any number of clients, calls and cancellations.
THEOREM NoCountLeaks == SlimeSpec => []CountsNeverLeak
<1>1. LoadInv => CountsNeverLeak
    BY DEF LoadInv, Loaded, CountsNeverLeak
<1> QED
    BY LoadInit, LoadStep, <1>1, PTL DEF SlimeSpec

-------------------------------------------------------------------------------
\* Why a group whose calls have all returned is READY: while nothing but engines
\* and requests fails, a sample has a response exactly when its call has returned,
\* no sample that has one is failed, and the last response makes the group READY.
HasReturned(call) == call.phase \in {"returned", "done"}
Told(g) ==
    /\ \A i \in Indices : i \in Completed(groups[g]) <=> HasReturned(calls[<<g, i>>])
    /\ groups[g].failed \intersect Completed(groups[g]) = {}
    /\ groups[g].status = "ABSENT" => Completed(groups[g]) = {}
    /\ Completed(groups[g]) = Indices => groups[g].status = "READY" /\ contexts[g] = Nothing

ReturnInv ==
    faults.process = 0 /\ faults.releases = 0 =>
        /\ discovery # Nothing => calls[discovery.caller].phase = "idle"
        /\ \A g \in Groups : Told(g)

\* Only a fault of the process, or of a release, counts as one.
LEMMA ProcessFaults ==
    ASSUME SlimeTypeOK, NEW kind \in {"engines", "requests", "releases", "process"}, Fault(kind)
    PROVE  /\ faults.process \in Nat /\ faults.releases \in Nat
           /\ faults'.process = faults.process + (IF kind = "process" THEN 1 ELSE 0)
           /\ faults'.releases = faults.releases + (IF kind = "releases" THEN 1 ELSE 0)
BY DEF SlimeTypeOK, Fault

\* A recorded sample is not failed, and the last one makes the group READY.
LEMMA RecordDecides ==
    ASSUME NEW group \in GroupStates, NEW i \in Indices, NEW r \in Response,
           group.failed \intersect Completed(group) = {}
    PROVE  LET new == Record(group, i, r)
           IN  /\ new.failed \intersect Completed(new) = {}
               /\ Completed(new) = Indices => new.status = "READY"
<1>1. PICK new : new = Record(group, i, r)
    OBVIOUS
<1>2. /\ new.failed = group.failed \ {i} /\ new.failed \subseteq Indices
      /\ Completed(new) = Completed(group) \union {i}
      /\ Completed(new) = Indices /\ new.failed = {} => new.status = "READY"
    BY <1>1, RecordDecidesWhenClear
<1>3. new.failed \intersect Completed(new) = {}
    BY <1>2
<1> QED
    BY <1>1, <1>2, <1>3

\* Nobody has returned from a group that is not registered, or just was.
LEMMA NobodyBack == \A v : Completed(Fresh(v)) = {} /\ Fresh(v).failed = {}
BY DEF Completed, Fresh

LEMMA ReturnInit == SlimeInit => ReturnInv
<1> SUFFICES ASSUME SlimeInit PROVE ReturnInv
    OBVIOUS
<1>1. \A c \in Calls : ~HasReturned(calls[c])
    BY DEF SlimeInit, IdleCall, HasReturned
<1>2. \A g \in Groups : groups[g].failed = {} /\ Completed(groups[g]) = {}
    <2>1. PICK v \in Versions : groups = [g \in Groups |-> [Fresh(v) EXCEPT !.status = "ABSENT"]]
        BY DEF SlimeInit, Init
    <2>2. /\ [Fresh(v) EXCEPT !.status = "ABSENT"].failed = {}
          /\ Completed([Fresh(v) EXCEPT !.status = "ABSENT"]) = {}
        BY DEF Fresh, Completed
    <2> QED
        BY <2>1, <2>2
<1>3. discovery = Nothing
    BY DEF SlimeInit
<1>4. \A g \in Groups : Told(g)
    BY <1>1, <1>2, IndicesNotEmpty DEF Told, Calls
<1> QED
    BY <1>3, <1>4 DEF ReturnInv

\* A step that leaves the groups and their decisions alone, and in which no call
\* returns or starts over.
LEMMA ToldStays ==
    ASSUME \A g \in Groups : Told(g), UNCHANGED <<groups, contexts>>,
           \A c \in Calls : HasReturned(calls'[c]) <=> HasReturned(calls[c])
    PROVE  \A g \in Groups : Told(g)'
<1>1. ASSUME NEW g \in Groups PROVE Told(g)'
    <2>1. \A i \in Indices : i \in Completed(groups[g]) <=> HasReturned(calls'[<<g, i>>])
        BY DEF Told, Calls
    <2>2. groups'[g] = groups[g] /\ contexts'[g] = contexts[g]
        OBVIOUS
    <2> QED
        BY <2>1, <2>2 DEF Told, HasReturned
<1> QED
    BY <1>1

\* A call ends in a way that does not count as returned.
LEMMA EndTold ==
    ASSUME SlimeInv, NEW c \in Calls, NEW phase, End(c, phase)
    PROVE  calls'[c].phase = phase /\ \A d \in Calls : d # c => calls'[d] = calls[d]
BY DEF SlimeInv, SlimeTypeOK, End

LEMMA AssignTold ==
    ASSUME SlimeInv, NEW c \in Calls, NEW context, Assign(c, context)
    PROVE  calls'[c].phase = "generating" /\ \A d \in Calls : d # c => calls'[d] = calls[d]
BY DEF SlimeInv, SlimeTypeOK, Assign

LEMMA ReturnStep == SlimeInv /\ ReturnInv /\ [SlimeNext \/ Over]_slimeVars => ReturnInv'
<1> SUFFICES ASSUME SlimeInv, ReturnInv, [SlimeNext \/ Over]_slimeVars,
                    faults'.process = 0, faults'.releases = 0
             PROVE  /\ discovery' # Nothing => calls'[discovery'.caller].phase = "idle"
                    /\ \A g \in Groups : Told(g)'
    BY DEF ReturnInv
<1> DEFINE Goal == /\ discovery' # Nothing => calls'[discovery'.caller].phase = "idle"
                   /\ \A g \in Groups : Told(g)'
<1>a. /\ SlimeTypeOK /\ groups \in [Groups -> GroupStates]
      /\ contexts \in [Groups -> Contexts \union {Nothing}]
    BY DEF SlimeInv, SlimeTypeOK, TypeOK
<1>b. ASSUME Fault("process") \/ Fault("releases") PROVE FALSE
    BY <1>a, <1>b, ProcessFaults
<1>c. ASSUME UNCHANGED faults \/ Fault("engines") \/ Fault("requests")
      PROVE  /\ discovery # Nothing => calls[discovery.caller].phase = "idle"
             /\ \A g \in Groups : Told(g)
    <2>1. faults.process = 0 /\ faults.releases = 0
        BY <1>a, <1>c, ProcessFaults
    <2> QED
        BY <2>1 DEF ReturnInv
<1>d. discovery # Nothing => discovery.caller \in Calls
    BY <1>a, DiscoveryTypes
<1> HIDE DEF Goal
<1>1. ASSUME NEW c \in Calls, AssignCached(c) PROVE Goal
    <2>1. /\ calls[c].phase = "idle" /\ calls'[c].phase = "generating" /\ discovery' = Nothing
          /\ \A d \in Calls : d # c => calls'[d] = calls[d]
        BY <1>1, AssignTold DEF AssignCached
    <2>2. \A d \in Calls : HasReturned(calls'[d]) <=> HasReturned(calls[d])
        BY <2>1 DEF HasReturned
    <2>3. UNCHANGED <<groups, contexts>> /\ \A g \in Groups : Told(g)
        BY <1>1, <1>c DEF AssignCached, vars
    <2> QED
        BY <2>1, <2>2, <2>3, ToldStays DEF Goal
<1>2. ASSUME NEW c \in Calls, Discover(c) PROVE Goal
    <2>1. UNCHANGED <<groups, contexts, calls>> /\ \A g \in Groups : Told(g)
        BY <1>2, <1>c DEF Discover, vars
    <2>2. discovery'.caller = c /\ calls[c].phase = "idle"
        BY <1>2 DEF Discover
    <2> QED
        BY <2>1, <2>2, ToldStays DEF Goal
<1>3. ASSUME NEW c \in Calls, NEW r \in Answers(c), Finish(c, r) PROVE Goal
    <2>1. PICK g \in Groups : \E i \in Indices : c = <<g, i>>
        BY DEF Calls
    <2>2. PICK i \in Indices : c = <<g, i>>
        BY <2>1
    <2>3. /\ discovery # Nothing => calls[discovery.caller].phase = "idle"
          /\ \A h \in Groups : Told(h)
          /\ UNCHANGED discovery /\ r \in Response
        BY <1>3, <1>c DEF Finish, Answers
    <2>4. /\ calls[c].phase = "generating" /\ calls'[c].phase = "returned"
          /\ \A d \in Calls : d # c => calls'[d] = calls[d]
        BY <1>3, EndTold DEF Finish
    <2>5. i \notin Completed(groups[g]) /\ groups[g] \in GroupStates
        BY <1>a, <2>2, <2>3, <2>4 DEF Told, HasReturned
    <2>6. Complete(g, i, calls[c].version, r, TRUE, TRUE)
        <3>1. ~Replay(g, i, calls[c].version, r)
            BY <2>5 DEF Replay, Completed
        <3> QED
            BY <1>3, <2>2, <3>1 DEF Finish
    <2> DEFINE new == Record(groups[g], i, r)
    <2>7. groups' = [groups EXCEPT ![g] = new] /\ groups[g].status # "ABSENT"
        BY <2>6 DEF Complete, Valid, Known
    <2>8. /\ Completed(new) = Completed(groups[g]) \union {i} /\ new.status # "ABSENT"
          /\ new.failed \intersect Completed(new) = {}
          /\ Completed(new) = Indices => new.status = "READY"
        <3>1. groups[g].failed \intersect Completed(groups[g]) = {}
            BY <2>3 DEF Told
        <3>2. Completed(new) = Completed(groups[g]) \union {i} /\ new.status # "ABSENT"
            BY <2>3, <2>5, <2>7, RecordEffect
        <3>3. /\ new.failed \intersect Completed(new) = {}
              /\ Completed(new) = Indices => new.status = "READY"
            BY <2>3, <2>5, <3>1, RecordDecides
        <3> QED
            BY <3>2, <3>3
    <2> HIDE DEF new
    <2>9. groups'[g] = new /\ \A h \in Groups : h # g => groups'[h] = groups[h]
        BY <1>a, <2>7
    <2>10. contexts' = IF groups'[g].status = "READY" THEN [contexts EXCEPT ![g] = Nothing] ELSE contexts
        BY <1>3, <2>2 DEF Finish
    <2>11. /\ groups'[g].status = "READY" => contexts'[g] = Nothing
           /\ \A h \in Groups : h # g => contexts'[h] = contexts[h]
        BY <1>a, <2>10
    <2>12. Told(g)'
        <3>1. \A j \in Indices : j \in Completed(new) <=> HasReturned(calls'[<<g, j>>])
            <4>1. ASSUME NEW j \in Indices, j # i
                  PROVE  j \in Completed(new) <=> HasReturned(calls'[<<g, j>>])
                <5>1. <<g, j>> \in Calls /\ <<g, j>> # c
                    BY <2>2, <4>1 DEF Calls
                <5>2. j \in Completed(groups[g]) <=> HasReturned(calls[<<g, j>>])
                    BY <2>3 DEF Told
                <5> QED
                    BY <2>4, <2>8, <4>1, <5>1, <5>2
            <4>2. i \in Completed(new) /\ HasReturned(calls'[<<g, i>>])
                BY <2>2, <2>4, <2>8 DEF HasReturned
            <4> QED
                BY <4>1, <4>2
        <3> QED
            BY <2>8, <2>9, <2>11, <3>1 DEF Told, HasReturned
    <2>13. ASSUME NEW h \in Groups, h # g PROVE Told(h)'
        <3>1. \A j \in Indices : calls'[<<h, j>>] = calls[<<h, j>>]
            <4>1. \A j \in Indices : <<h, j>> \in Calls /\ <<h, j>> # c
                BY <2>2, <2>13 DEF Calls
            <4> QED
                BY <2>4, <4>1
        <3>2. groups'[h] = groups[h] /\ contexts'[h] = contexts[h]
            BY <2>9, <2>11, <2>13
        <3>3. Told(h)
            BY <2>3
        <3> QED
            BY <3>1, <3>2, <3>3 DEF Told, HasReturned
    <2>14. discovery' # Nothing => calls'[discovery'.caller].phase = "idle"
        BY <1>d, <2>3, <2>4
    <2> QED
        BY <2>12, <2>13, <2>14 DEF Goal
<1>4. ASSUME NEW c \in Calls, NEW stored \in SnapshotOutcomes, Fail(c, stored) PROVE Goal
    <2>1. PICK g \in Groups : \E i \in Indices : c = <<g, i>>
        BY DEF Calls
    <2>2. PICK i \in Indices : c = <<g, i>>
        BY <2>1
    <2>3. /\ discovery # Nothing => calls[discovery.caller].phase = "idle"
          /\ \A h \in Groups : Told(h)
          /\ UNCHANGED <<discovery, contexts>>
        BY <1>4, <1>c DEF Fail
    <2>4. /\ calls[c].phase = "generating" /\ calls'[c].phase = "raised"
          /\ \A d \in Calls : d # c => calls'[d] = calls[d]
        BY <1>4, EndTold DEF Fail
    <2>5. i \notin Completed(groups[g]) /\ groups[g] \in GroupStates
        BY <1>a, <2>2, <2>3, <2>4 DEF Told, HasReturned
    <2>6. groups' = [groups EXCEPT ![g].failed = @ \union {i}, ![g].status = @]
        BY <1>4, <2>2 DEF Fail, RecordFailure
    <2>7. /\ groups'[g].failed = groups[g].failed \union {i}
          /\ groups'[g].status = groups[g].status /\ groups'[g].responses = groups[g].responses
          /\ \A h \in Groups : h # g => groups'[h] = groups[h]
        BY <1>a, <2>5, <2>6 DEF GroupStates
    <2>8. \A d \in Calls : HasReturned(calls'[d]) <=> HasReturned(calls[d])
        BY <2>4 DEF HasReturned
    <2>9. ASSUME NEW h \in Groups PROVE Told(h)'
        <3>1. \A j \in Indices : HasReturned(calls'[<<h, j>>]) <=> HasReturned(calls[<<h, j>>])
            BY <2>8 DEF Calls
        <3>2. /\ groups'[h].status = groups[h].status /\ contexts'[h] = contexts[h]
              /\ Completed(groups'[h]) = Completed(groups[h])
              /\ groups'[h].failed = IF h = g THEN groups[g].failed \union {i} ELSE groups[h].failed
            BY <2>3, <2>7 DEF Completed
        <3>3. groups'[h].failed \intersect Completed(groups'[h]) = {}
            BY <2>3, <2>5, <3>2 DEF Told
        <3>4. Told(h)
            BY <2>3
        <3> QED
            BY <3>1, <3>2, <3>3, <3>4 DEF Told, HasReturned
    <2>10. discovery' # Nothing => calls'[discovery'.caller].phase = "idle"
        BY <1>d, <2>3, <2>4
    <2> QED
        BY <2>9, <2>10 DEF Goal
<1>5. ASSUME NEW c \in Calls, NEW r \in Answers(c), NEW kept \in SnapshotOutcomes,
             NEW stored \in SnapshotOutcomes, FinishRaises(c, r, kept, stored)
      PROVE  Goal
    BY <1>5, <1>b DEF FinishRaises
<1>6. ASSUME NEW c \in Calls, Cancelled(c) PROVE Goal
    <2>1. /\ discovery # Nothing => calls[discovery.caller].phase = "idle"
          /\ \A h \in Groups : Told(h)
          /\ UNCHANGED <<discovery, groups, contexts>>
        BY <1>6, <1>c DEF Cancelled, vars
    <2>2. /\ calls[c].phase = "generating" /\ calls'[c].phase = "raised"
          /\ \A d \in Calls : d # c => calls'[d] = calls[d]
        BY <1>6, EndTold DEF Cancelled
    <2>3. \A d \in Calls : HasReturned(calls'[d]) <=> HasReturned(calls[d])
        BY <2>2 DEF HasReturned
    <2>4. discovery' # Nothing => calls'[discovery'.caller].phase = "idle"
        BY <1>d, <2>1, <2>2
    <2> QED
        BY <2>1, <2>3, <2>4, ToldStays DEF Goal
<1>7. ASSUME NEW c \in Calls, Release(c) PROVE Goal
    <2>1. /\ discovery' = Nothing /\ \A h \in Groups : Told(h)
          /\ UNCHANGED <<groups, contexts>>
        BY <1>7, <1>c DEF Release, vars
    <2>2. /\ calls[c].phase \in {"returned", "raised"}
          /\ calls'[c].phase = IF calls[c].phase = "returned" THEN "done" ELSE "idle"
          /\ \A d \in Calls : d # c => calls'[d] = calls[d]
        BY <1>7 DEF Release, IdleCall, SlimeInv, SlimeTypeOK
    <2>3. \A d \in Calls : HasReturned(calls'[d]) <=> HasReturned(calls[d])
        BY <2>2 DEF HasReturned
    <2> QED
        BY <2>1, <2>3, ToldStays DEF Goal
<1>8. ASSUME NEW w \in Engines, NEW own, NEW others, Probe(w, own, others) PROVE Goal
    <2>1. /\ discovery # Nothing /\ calls[discovery.caller].phase = "idle"
          /\ \A h \in Groups : Told(h)
          /\ UNCHANGED <<groups, contexts, calls>>
        BY <1>8, <1>c DEF Probe, vars
    <2>2. discovery'.caller = discovery.caller
        BY <1>8, <1>a, DiscoveryTypes DEF Probe
    <2> QED
        BY <2>1, <2>2, ToldStays DEF Goal
<1>9. ASSUME NEW again \in BOOLEAN, DiscoveryFails(again) PROVE Goal
    <2>1. /\ discovery # Nothing /\ calls[discovery.caller].phase = "idle"
          /\ \A h \in Groups : Told(h)
          /\ UNCHANGED <<groups, contexts, calls>>
        BY <1>9, <1>c DEF DiscoveryFails, vars
    <2>2. discovery' # Nothing => discovery'.caller = discovery.caller
        BY <1>9, <1>a, DiscoveryTypes DEF DiscoveryFails
    <2> QED
        BY <2>1, <2>2, ToldStays DEF Goal
<1>10. ASSUME NEW placement \in [Indices -> Engines], AssignFirst(placement) PROVE Goal
    <2>1. PICK target \in Versions :
             /\ Route(discovery.caller[1], target, TRUE)
             /\ contexts' = [contexts EXCEPT ![discovery.caller[1]] = [version |-> target, worker |-> placement]]
             /\ Assign(discovery.caller, contexts'[discovery.caller[1]])
        BY <1>10 DEF AssignFirst
    <2>2. /\ discovery # Nothing /\ calls[discovery.caller].phase = "idle" /\ discovery' = Nothing
          /\ \A h \in Groups : Told(h)
        BY <1>10, <1>c DEF AssignFirst, Discovered
    <2>3. PICK c \in Calls : c = discovery.caller
        BY <1>d, <2>2
    <2>4. PICK g \in Groups : \E i \in Indices : c = <<g, i>>
        BY DEF Calls
    <2>5. PICK i \in Indices : c = <<g, i>>
        BY <2>4
    <2>6. /\ calls'[c].phase = "generating" /\ \A d \in Calls : d # c => calls'[d] = calls[d]
        BY <2>1, <2>3, AssignTold
    <2>7. \A d \in Calls : HasReturned(calls'[d]) <=> HasReturned(calls[d])
        BY <2>2, <2>3, <2>6 DEF HasReturned
    <2>8. i \notin Completed(groups[g])
        BY <2>2, <2>3, <2>5 DEF Told, HasReturned
    <2>9. /\ groups' = IF Known(g) THEN groups ELSE [groups EXCEPT ![g] = Fresh(target)]
          /\ \A h \in Groups : h # g => contexts'[h] = contexts[h]
        BY <1>a, <2>1, <2>3, <2>5 DEF Route
    <2>10. ASSUME NEW h \in Groups PROVE Told(h)'
        <3>1. Told(h) /\ \A j \in Indices : HasReturned(calls'[<<h, j>>]) <=> HasReturned(calls[<<h, j>>])
            BY <2>2, <2>7 DEF Calls
        <3>2. CASE h # g
            <4>1. groups'[h] = groups[h] /\ contexts'[h] = contexts[h]
                BY <1>a, <2>9, <3>2
            <4> QED
                BY <3>1, <4>1 DEF Told, HasReturned
        <3>3. CASE h = g /\ Known(g)
            <4>1. groups'[h] = groups[h]
                BY <2>9, <3>3
            <4> QED
                BY <2>8, <3>1, <3>3, <4>1 DEF Told, HasReturned
        <3>4. CASE h = g /\ ~Known(g)
            <4>1. groups'[h] = Fresh(target) /\ Completed(groups[h]) = {}
                BY <1>a, <2>9, <3>1, <3>4 DEF Told, Known
            <4>2. Completed(groups'[h]) = {} /\ groups'[h].failed = {}
                BY <4>1, NobodyBack
            <4>3. \A j \in Indices : ~HasReturned(calls'[<<h, j>>])
                BY <3>1, <4>1 DEF Told
            <4> QED
                BY <4>2, <4>3, IndicesNotEmpty DEF Told, HasReturned
        <3> QED
            BY <3>2, <3>3, <3>4
    <2> QED
        BY <2>2, <2>10 DEF Goal
<1>11. ASSUME NEW stored \in SnapshotOutcomes, RouteRaises(stored) PROVE Goal
    <2>1. discovery' = Nothing /\ UNCHANGED <<vars, faults, contexts, calls>>
        BY <1>11, <1>b DEF RouteRaises
    <2>2. UNCHANGED <<groups, contexts, calls>> /\ \A g \in Groups : Told(g)
        BY <2>1, <1>c DEF vars
    <2> QED
        BY <2>1, <2>2, ToldStays DEF Goal
<1>12. ASSUME Crash PROVE Goal
    BY <1>12, <1>b DEF Crash
<1>13. ASSUME NEW w \in Engines, EngineListed(w) \/ \E version \in Versions : EngineLoads(w, version)
       PROVE  Goal
    <2>1. UNCHANGED <<groups, contexts, calls, discovery>>
        BY <1>13 DEF EngineListed, EngineLoads, vars, adapter
    <2>2. /\ discovery # Nothing => calls[discovery.caller].phase = "idle"
          /\ \A g \in Groups : Told(g)
        BY <1>13, <1>c DEF EngineListed, EngineLoads
    <2> QED
        BY <2>1, <2>2, ToldStays DEF Goal
<1>14. ASSUME Over \/ UNCHANGED slimeVars PROVE Goal
    <2>1. UNCHANGED <<groups, contexts, calls, discovery, faults>>
        BY <1>14 DEF Over, slimeVars, vars, adapter
    <2> QED
        BY <2>1, <1>c, ToldStays DEF Goal
<1>16. ASSUME NEW c \in Calls, LosesRelease(c) PROVE Goal
    BY <1>16, <1>b DEF LosesRelease
<1>15. Goal
    BY <1>1, <1>2, <1>3, <1>4, <1>5, <1>6, <1>7, <1>8, <1>9, <1>10, <1>11, <1>12, <1>13, <1>14, <1>16
    DEF SlimeNext, AssignFirstSome, RouteRaisesSome, FinishSome
<1> QED
    BY <1>15 DEF Goal

\* Once every call of a group has returned, the group is READY and its decision
\* forgotten, whatever raised, was cancelled or answered by another version on the
\* way (slime_adapter.py, finish, fail and release), unless the adapter's process
\* itself failed or a release was cancelled.
THEOREM ReturnedGroupsAreReady == SlimeSpec => []ReturnedMeansReady
<1>1. SlimeInv /\ ReturnInv => ReturnedMeansReady
    <2> SUFFICES ASSUME SlimeInv, ReturnInv, faults.process = 0, faults.releases = 0, NEW g \in Groups,
                        \A i \in Indices : calls[<<g, i>>].phase \in {"returned", "done"}
                 PROVE  groups[g].status = "READY" /\ contexts[g] = Nothing
        BY DEF ReturnedMeansReady
    <2>1. Told(g)
        BY DEF ReturnInv
    <2>2. Completed(groups[g]) = Indices
        BY <2>1 DEF Told, HasReturned, Completed
    <2> QED
        BY <2>1, <2>2 DEF Told
<1> QED
    BY SlimeInvInit, SlimeTypeStep, ReturnInit, ReturnStep, <1>1, PTL DEF SlimeSpec
-------------------------------------------------------------------------------
\* While snapshots are written, memory and snapshot stay the same, also when
\* the trace row of a completion is not written and the completion raises.
LEMMA SlimeStoredStep ==
    ~SnapshotMayFail /\ SlimeInv /\ StoredInv /\ [SlimeNext \/ Over]_slimeVars => StoredInv'
<1> SUFFICES ASSUME ~SnapshotMayFail, SlimeInv, StoredInv, [SlimeNext \/ Over]_slimeVars PROVE StoredInv'
    OBVIOUS
<1>1. CASE TrackerStep
    BY <1>1, TrackerStepIsNext, StoredNext
<1>2. CASE HalfFinished
    <2>1. PICK c \in Calls : \E r \in Answers(c), kept, stored \in SnapshotOutcomes :
                                FinishRaises(c, r, kept, stored)
        BY <1>2 DEF HalfFinished
    <2>2. PICK r \in Answers(c), kept \in SnapshotOutcomes, stored \in SnapshotOutcomes :
                   FinishRaises(c, r, kept, stored)
        BY <2>1
    <2>3. PICK g \in Groups, i \in Indices, old \in GroupStates :
              /\ old = groups[g] \/ old = Record(groups[g], i, r)
              /\ r \in Response /\ groups'[g].status = old.status
              /\ groups' = [groups EXCEPT ![g] = groups'[g]]
              /\ stored => saved' = groups'
              /\ groups[g].status # "ABSENT"
        BY <2>2, HalfFinishedEffect DEF SlimeInv
    <2>4. saved' = groups'
        BY <2>3 DEF SnapshotOutcomes
    <2>5. groups'[g].status # "ABSENT"
        <3>1. groups \in [Groups -> GroupStates] /\ groups[g] \in GroupStates
            BY DEF SlimeInv, SoundInv, TypeOK
        <3>2. r \in Response
            BY <2>3
        <3>3. \/ Record(groups[g], i, r).status = groups[g].status
              \/ Record(groups[g], i, r).status = "READY"
            BY <3>1, <3>2, RecordStatus
        <3> QED
            BY <2>3, <3>3
    <2>6. \A h \in Groups : Blank(groups'[h])
        <3>1. \A h \in Groups : h # g => groups'[h] = groups[h]
            BY <2>3 DEF SlimeInv, SoundInv, TypeOK
        <3> QED
            BY <2>5, <3>1 DEF Blank, StoredInv, BlankInv
    <2>7. SoundInv'
        BY SlimeSoundStep
    <2> QED
        BY <2>4, <2>6, <2>7 DEF StoredInv, BlankInv, Blank
<1> QED
    BY <1>1, <1>2, AdapterSteps

\* A completion that raises half way has filled its slot, or nothing; a failure
\* reported by the adapter leaves slots and statuses alone.
LEMMA SlimeBarrierStep ==
    SlimeInv /\ StoredInv /\ [SlimeNext \/ Over]_slimeVars => [Barrier!Next]_(Barrier!barrierVars)
<1> SUFFICES ASSUME SlimeInv, StoredInv, TrackerStep \/ HalfFinished
             PROVE  [Barrier!Next]_(Barrier!barrierVars)
    BY AdapterSteps
<1>a. TypeOK
    BY DEF SlimeInv, SoundInv
<1>1. ASSUME Filled' = Filled, Released' = Released PROVE [Barrier!Next]_(Barrier!barrierVars)
    BY <1>1 DEF Filled, Released, Barrier!barrierVars
<1>2. CASE SampleFails
    <2>1. PICK g \in Groups, i \in Indices, stored \in SnapshotOutcomes : RecordFailure(g, i, FALSE, stored)
        BY <1>2 DEF SampleFails
    <2>2. /\ groups'[g].responses = groups[g].responses /\ groups'[g].status = groups[g].status
          /\ \A h \in Groups : h # g => groups'[h] = groups[h]
        BY <1>a, <2>1 DEF RecordFailure, TypeOK, GroupStates
    <2> QED
        BY <1>1, <2>2, SameBarrier
<1>3. CASE HalfFinished
    <2>1. PICK c \in Calls : \E r \in Answers(c), kept, stored \in SnapshotOutcomes :
                                FinishRaises(c, r, kept, stored)
        BY <1>3 DEF HalfFinished
    <2>2. PICK r \in Answers(c), kept \in SnapshotOutcomes, stored \in SnapshotOutcomes :
                   FinishRaises(c, r, kept, stored)
        BY <2>1
    <2>3. PICK g \in Groups, i \in Indices, old \in GroupStates :
              /\ \/ old = groups[g]
                 \/ groups[g].responses[i] = NoResponse /\ old = Record(groups[g], i, r)
              /\ r \in Response
              /\ groups'[g].responses = old.responses /\ groups'[g].status = old.status
              /\ groups' = [groups EXCEPT ![g] = groups'[g]]
        BY <2>2, HalfFinishedEffect DEF SlimeInv
    <2>4. \A h \in Groups : h # g => groups'[h] = groups[h]
        BY <1>a, <2>3 DEF TypeOK
    <2>5. CASE old = groups[g]
        BY <1>1, <2>3, <2>4, <2>5, SameBarrier
    <2>6. CASE groups[g].responses[i] = NoResponse /\ old = Record(groups[g], i, r)
        <3>1. groups[g] \in GroupStates
            BY <1>a DEF TypeOK
        <3>2. /\ groups'[g].responses = [groups[g].responses EXCEPT ![i] = r]
              /\ \/ groups'[g].status = groups[g].status
                 \/ groups'[g].status = "READY" /\ Completed(groups'[g]) = Indices
            BY <2>3, <2>6, <3>1, RecordEffect DEF Completed
        <3> QED
            BY <1>a, <2>3, <2>4, <2>6, <3>2, FillStep
    <2> QED
        BY <2>3, <2>5, <2>6
<1> QED
    BY <1>2, <1>3, BarrierUnlessFailure DEF TrackerStep

\* The adapter implements the barrier too: whatever calls interleave, are
\* retried, cancelled or start again in a new process, and also when a
\* completion raises after it was recorded and is reported failed, a sample is
\* filled once and a group released with its last one (slime_adapter.py,
\* generate_with_rl_router), as long as snapshots are written.
THEOREM AdapterRefinesBarrier == ASSUME ~SnapshotMayFail PROVE SlimeSpec => ImplementsBarrier
<1>1. SlimeInit => SlimeInv /\ StoredInv
    BY SlimeInvInit, BlankInit DEF SlimeInit, Init, StoredInv
<1>2. SlimeInit => Barrier!Init
    BY FreshSound DEF SlimeInit, Init, Barrier!Init, Fresh
<1>3. SlimeInv /\ StoredInv /\ [SlimeNext \/ Over]_slimeVars => SlimeInv' /\ StoredInv'
    BY SlimeTypeStep, SlimeStoredStep
<1> QED
    BY <1>1, <1>2, <1>3, SlimeBarrierStep, PTL DEF SlimeSpec, ImplementsBarrier, Barrier!Spec

\* "A sample index cannot become two training samples after retry": what a call
\* has recorded, no later call, retry or restart of the adapter replaces.
THEOREM AdapterKeepsSamples == ASSUME ~SnapshotMayFail PROVE SlimeSpec => NoSecondSample
<1>1. SlimeInit => SlimeInv /\ StoredInv
    BY SlimeInvInit, BlankInit DEF SlimeInit, Init, StoredInv
<1>2. SlimeInv /\ StoredInv /\ [SlimeNext \/ Over]_slimeVars => SlimeInv' /\ StoredInv'
    BY SlimeTypeStep, SlimeStoredStep
<1>3. SlimeInv /\ StoredInv /\ [SlimeNext \/ Over]_slimeVars =>
        [\A g \in Groups, i \in Indices : groups[g].responses[i] # NoResponse =>
             groups'[g].responses[i] = groups[g].responses[i]]_vars
    BY SlimeBarrierStep, BarrierKeeps DEF SlimeInv, SoundInv
<1> QED
    BY <1>1, <1>2, <1>3, PTL DEF SlimeSpec, NoSecondSample

\* A group the trainer may have taken stays READY, also when one of its samples
\* is reported failed afterwards.
THEOREM AdapterKeepsReady == ASSUME ~SnapshotMayFail PROVE SlimeSpec => ReadyIsFinal
<1>1. SlimeInit => SlimeInv /\ StoredInv
    BY SlimeInvInit, BlankInit DEF SlimeInit, Init, StoredInv
<1>2. SlimeInv /\ StoredInv /\ [SlimeNext \/ Over]_slimeVars => SlimeInv' /\ StoredInv'
    BY SlimeTypeStep, SlimeStoredStep
<1>3. SlimeInv /\ StoredInv /\ [SlimeNext \/ Over]_slimeVars =>
        [\A g \in Groups : groups[g].status = "READY" => groups'[g].status = "READY"]_vars
    BY SlimeBarrierStep, BarrierKeeps DEF SlimeInv, SoundInv
<1> QED
    BY <1>1, <1>2, <1>3, PTL DEF SlimeSpec, ReadyIsFinal
===============================================================================
