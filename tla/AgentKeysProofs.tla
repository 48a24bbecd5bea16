--------------------------- MODULE AgentKeysProofs ---------------------------
(***************************************************************************)
(* The cache of agent keys is coherent but for the races it admits, for    *)
(* any number of agents, keys and requests.                                *)
(***************************************************************************)
EXTENDS AgentKeys, TLAPS

\* A call that holds a copy of the table knows whether it is still the table's.
CopyKnown == \A c \in Calls :
  At(c, "fill") /\ ~call[c].outdated => call[c].keys = Effective(active)

IInv == TypeOK /\ CopyKnown /\ StaleIsExplained

-----------------------------------------------------------------------------
\* What agentPublicKeys returns is a map of keys, whatever rows it was given.
LEMMA EffectiveIsMap == ASSUME NEW rows \in Maps PROVE Effective(rows) \in Maps
BY AgentKeysAssumption DEF Effective

LEMMA NoKeysIsMap == NoKeys \in Maps
BY DEF NoKeys, Maps

LEMMA IdleIsCall == Idle \in CallSet
BY NoKeysIsMap DEF Idle, CallSet

\* A call that has looked the cache up.
LEMMA LookedUp ==
  ASSUME NEW pc \in {"query", "accepted", "refused"}, NEW a \in Agents, NEW k \in KeyVals
  PROVE  /\ [Idle EXCEPT !.pc = pc, !.agent = a, !.key = k] \in CallSet
         /\ [Idle EXCEPT !.pc = pc, !.agent = a, !.key = k].pc = pc
BY NoKeysIsMap DEF Idle, CallSet

\* A request is accepted or refused by the keys it is shown.
LEMMA OutcomeIsVerdict ==
  ASSUME NEW keys, NEW a, NEW k
  PROVE  Outcome(keys, a, k) \in {"accepted", "refused"}
BY DEF Outcome

\* A lookup changes nothing but its call.
LEMMA Lookups ==
  ASSUME TypeOK, NEW c \in Calls, LookupHit(c) \/ LookupMiss(c)
  PROVE  /\ call'[c] \in CallSet
         /\ call'[c].pc \in {"query", "accepted", "refused"}
         /\ call' = [call EXCEPT ![c] = call'[c]]
         /\ UNCHANGED <<active, cache, fresh, drifted>>
<1>1. CASE LookupHit(c)
  <2>1. PICK a \in Agents, k \in KeyVals :
          /\ call' = [call EXCEPT ![c] =
                        [Idle EXCEPT !.pc = Outcome(cache, a, k), !.agent = a, !.key = k]]
          /\ UNCHANGED <<active, cache, fresh, drifted>>
    BY <1>1 DEF LookupHit
  <2> DEFINE verdict == Outcome(cache, a, k)
             new     == [Idle EXCEPT !.pc = verdict, !.agent = a, !.key = k]
  <2>2. call' = [call EXCEPT ![c] = new]
    BY <2>1
  <2>3. verdict \in {"query", "accepted", "refused"}
    BY OutcomeIsVerdict
  <2> HIDE DEF verdict
  <2>4. new \in CallSet /\ new.pc = verdict
    BY <2>3, NoKeysIsMap DEF Idle, CallSet
  <2> HIDE DEF new
  <2> QED
    BY <2>1, <2>2, <2>3, <2>4 DEF TypeOK
<1>2. CASE LookupMiss(c)
  <2>1. PICK a \in Agents, k \in KeyVals :
          /\ call' = [call EXCEPT ![c] = [Idle EXCEPT !.pc = "query", !.agent = a, !.key = k]]
          /\ UNCHANGED <<active, cache, fresh, drifted>>
    BY <1>2 DEF LookupMiss
  <2> DEFINE new == [Idle EXCEPT !.pc = "query", !.agent = a, !.key = k]
  <2>2. new \in CallSet /\ new.pc \in {"query", "accepted", "refused"}
    BY LookedUp
  <2> HIDE DEF new
  <2>3. call' = [call EXCEPT ![c] = new]
    BY <2>1 DEF new
  <2> QED
    BY <2>1, <2>2, <2>3 DEF TypeOK
<1> QED
  BY <1>1, <1>2

\* A write marks the copies it overtakes and changes nothing else of a call.
LEMMA OvertakenCalls ==
  ASSUME TypeOK, NEW rows \in Maps, NEW d \in Calls
  PROVE  /\ Overtaken(rows) \in [Calls -> CallSet]
         /\ Overtaken(rows)[d].pc = call[d].pc
         /\ Overtaken(rows)[d].keys = call[d].keys
         /\ Overtaken(rows)[d].outdated
              = (call[d].outdated \/ (At(d, "fill") /\ call[d].keys # Effective(rows)))
BY DEF TypeOK, Overtaken, CallSet, At

\* Every statement of a host's request leaves a table of keys.
LEMMA WriteTypes ==
  ASSUME TypeOK, NEW c \in Calls, NEW a \in Agents, NEW entry \in KeyVals \cup {NoKey},
         Write(c, a, entry) \/ WriteLost(c, a, entry)
  PROVE  active' \in Maps
BY DEF TypeOK, Maps, Write, WriteLost

\* The state keeps its types.
LEMMA NextTypes == TypeOK /\ [Next]_vars => TypeOK'
<1> SUFFICES ASSUME TypeOK, [Next]_vars PROVE TypeOK'
  OBVIOUS
<1>1. ASSUME NEW c \in Calls, LookupHit(c) \/ LookupMiss(c) PROVE TypeOK'
  BY <1>1, Lookups DEF TypeOK
<1>2. ASSUME NEW c \in Calls, Query(c) PROVE TypeOK'
  BY <1>2, EffectiveIsMap DEF TypeOK, Query, CallSet
<1>3. ASSUME NEW c \in Calls, QueryCut(c) PROVE TypeOK'
  <2>1. PICK got \in SUBSET Agents :
          LET keys == Effective([a \in Agents |-> IF a \in got THEN active[a] ELSE NoKey])
          IN  /\ call' = [call EXCEPT ![c].pc = "fill", ![c].keys = keys,
                                      ![c].outdated = (keys # Effective(active))]
              /\ UNCHANGED <<active, cache, fresh, drifted>>
    BY <1>3 DEF QueryCut
  <2> DEFINE keys == Effective([a \in Agents |-> IF a \in got THEN active[a] ELSE NoKey])
  <2>2. [a \in Agents |-> IF a \in got THEN active[a] ELSE NoKey] \in Maps
    BY DEF TypeOK, Maps
  <2>3. keys \in Maps
    BY <2>2, EffectiveIsMap
  <2>4. (keys # Effective(active)) \in BOOLEAN
    OBVIOUS
  <2> HIDE DEF keys
  <2>5. call' \in [Calls -> CallSet]
    BY <2>1, <2>3, <2>4 DEF TypeOK, CallSet, keys
  <2> QED
    BY <2>1, <2>5 DEF TypeOK
<1>4. ASSUME NEW c \in Calls, Fill(c) PROVE TypeOK'
  BY <1>4 DEF TypeOK, Fill, CallSet, Outcome
<1>5. ASSUME NEW c \in Calls, Reply(c) \/ Invalidate(c) PROVE TypeOK'
  BY <1>5, IdleIsCall, NoKeysIsMap DEF TypeOK, Reply, Invalidate
<1>6. ASSUME NEW c \in Calls, NEW a \in Agents, NEW entry \in KeyVals \cup {NoKey},
             Write(c, a, entry)
      PROVE  TypeOK'
  <2>1. active' \in Maps
    BY <1>6, WriteTypes
  <2>2. Overtaken(active') \in [Calls -> CallSet]
    BY <2>1, OvertakenCalls
  <2>3. [Idle EXCEPT !.pc = "invalidate", !.agent = a] \in CallSet
    BY NoKeysIsMap DEF Idle, CallSet
  <2> QED
    BY <1>6, <2>1, <2>2, <2>3 DEF TypeOK, Write
<1>7. ASSUME NEW c \in Calls, NEW a \in Agents, NEW entry \in KeyVals \cup {NoKey},
             WriteLost(c, a, entry)
      PROVE  TypeOK'
  <2>1. active' \in Maps
    BY <1>7, WriteTypes
  <2>2. Overtaken(active') \in [Calls -> CallSet]
    BY <2>1, OvertakenCalls
  <2> QED
    BY <1>7, <2>1, <2>2 DEF TypeOK, WriteLost
<1>8. CASE Expire \/ Restart \/ UNCHANGED vars
  BY <1>8, IdleIsCall, NoKeysIsMap DEF TypeOK, Expire, Restart, vars
<1> QED
  BY <1>1, <1>2, <1>3, <1>4, <1>5, <1>6, <1>7, <1>8
     DEF Next, Starts, Continue, Answered, Upsert, UpsertLost, Revoke, RevokeLost

-----------------------------------------------------------------------------
\* A copy that no write has overtaken is the table's.
LEMMA NextCopies == TypeOK /\ CopyKnown /\ [Next]_vars => CopyKnown'
<1> SUFFICES ASSUME TypeOK, CopyKnown, [Next]_vars, NEW d \in Calls,
                    At(d, "fill")', ~call'[d].outdated
             PROVE  call'[d].keys = Effective(active')
  BY DEF CopyKnown
<1>0. ASSUME NEW c \in Calls, LookupHit(c) \/ LookupMiss(c)
      PROVE  call'[d] = call[d] /\ active' = active
  BY <1>0, Lookups DEF At, TypeOK
<1>1. ASSUME NEW c \in Calls, Reply(c) \/ Invalidate(c)
      PROVE  call'[d] = call[d] /\ active' = active
  BY <1>1 DEF Reply, Invalidate, TypeOK, At, Idle
<1>2. ASSUME NEW c \in Calls, Query(c)
      PROVE  call'[d].keys = Effective(active')
  BY <1>2 DEF Query, TypeOK, CallSet, At, CopyKnown
<1>3. ASSUME NEW c \in Calls, QueryCut(c)
      PROVE  call'[d].keys = Effective(active')
  <2>1. CASE d = c
    <3>1. PICK got \in SUBSET Agents :
            LET keys == Effective([a \in Agents |-> IF a \in got THEN active[a] ELSE NoKey])
            IN  /\ call' = [call EXCEPT ![c].pc = "fill", ![c].keys = keys,
                                        ![c].outdated = (keys # Effective(active))]
                /\ UNCHANGED <<active, cache, fresh, drifted>>
      BY <1>3 DEF QueryCut
    <3> DEFINE keys == Effective([a \in Agents |-> IF a \in got THEN active[a] ELSE NoKey])
    <3>2. call' = [call EXCEPT ![c].pc = "fill", ![c].keys = keys,
                               ![c].outdated = (keys # Effective(active))]
      BY <3>1
    <3> HIDE DEF keys
    <3>3. call'[c].keys = keys /\ call'[c].outdated = (keys # Effective(active))
      BY <3>2 DEF TypeOK, CallSet
    <3> QED
      BY <2>1, <3>1, <3>3
  <2>2. CASE d # c
    <3>1. call'[d] = call[d] /\ active' = active
      BY <1>3, <2>2 DEF QueryCut, TypeOK
    <3> QED
      BY <3>1 DEF CopyKnown, At
  <2> QED
    BY <2>1, <2>2
<1>4. ASSUME NEW c \in Calls, Fill(c)
      PROVE  call'[d] = call[d] /\ active' = active
  BY <1>4 DEF Fill, TypeOK, CallSet, At, Outcome
<1>5. ASSUME NEW c \in Calls, NEW a \in Agents, NEW entry \in KeyVals \cup {NoKey},
             Write(c, a, entry) \/ WriteLost(c, a, entry)
      PROVE  call'[d].keys = Effective(active')
  <2>1. active' \in Maps
    BY <1>5, WriteTypes
  <2>2. call'[d] = Overtaken(active')[d]
    <3>1. Idle.pc = "idle"
      BY DEF Idle
    <3> QED
      BY <1>5, <2>1, OvertakenCalls DEF Write, WriteLost, At, Idle
  <2> QED
    BY <2>1, <2>2, OvertakenCalls DEF At
<1>6. CASE Expire \/ Restart \/ UNCHANGED vars
  BY <1>6 DEF Expire, Restart, vars, At, Idle, CopyKnown
<1> QED
  BY <1>0, <1>1, <1>2, <1>3, <1>4, <1>5, <1>6
     DEF Next, Starts, Continue, Answered, Upsert, UpsertLost, Revoke, RevokeLost, CopyKnown, At

\* The cache drifts from the table only where StaleIsExplained says.
LEMMA NextStale == IInv /\ [Next]_vars => StaleIsExplained'
<1> SUFFICES ASSUME IInv, [Next]_vars, Stale', ~drifted'
             PROVE  \E c \in Calls : At(c, "invalidate")'
  BY DEF StaleIsExplained
<1>0. TypeOK /\ CopyKnown /\ StaleIsExplained
  BY DEF IInv
<1>1. ASSUME NEW c \in Calls, LookupHit(c) \/ LookupMiss(c) \/ Query(c) \/ QueryCut(c) \/ Reply(c)
      PROVE  \E d \in Calls : At(d, "invalidate")'
  <2>1. PICK d \in Calls : At(d, "invalidate")
    BY <1>0, <1>1 DEF LookupHit, LookupMiss, Query, QueryCut, Reply, StaleIsExplained, Stale
  <2>2. d # c /\ call'[d] = call[d]
    BY <1>0, <1>1, <2>1 DEF LookupHit, LookupMiss, Query, QueryCut, Reply, At, TypeOK
  <2> QED
    BY <2>1, <2>2 DEF At
<1>2. ASSUME NEW c \in Calls, Fill(c) PROVE FALSE
  BY <1>0, <1>2 DEF Fill, CopyKnown, Stale
<1>3. ASSUME NEW c \in Calls, Invalidate(c) PROVE FALSE
  BY <1>3 DEF Invalidate, Stale
<1>4. ASSUME NEW c \in Calls, NEW a \in Agents, NEW entry \in KeyVals \cup {NoKey},
             Write(c, a, entry)
      PROVE  \E d \in Calls : At(d, "invalidate")'
  <2>1. active' \in Maps
    BY <1>0, <1>4, WriteTypes
  <2>2. Overtaken(active') \in [Calls -> CallSet]
    BY <1>0, <2>1, OvertakenCalls
  <2>3. call'[c].pc = "invalidate"
    BY <1>4, <2>2 DEF Write, Idle
  <2> QED
    BY <2>3 DEF At
<1>5. ASSUME NEW c \in Calls, NEW a \in Agents, NEW entry \in KeyVals \cup {NoKey},
             WriteLost(c, a, entry)
      PROVE  FALSE
  BY <1>5 DEF WriteLost, Stale
<1>6. CASE Expire \/ Restart
  BY <1>6 DEF Expire, Restart, Stale
<1>7. CASE UNCHANGED vars
  BY <1>0, <1>7 DEF vars, Stale, StaleIsExplained, At
<1> QED
  BY <1>1, <1>2, <1>3, <1>4, <1>5, <1>6, <1>7
     DEF Next, Starts, Continue, Answered, Upsert, UpsertLost, Revoke, RevokeLost

-----------------------------------------------------------------------------
LEMMA Inductive == Spec => []IInv
<1>1. Init => IInv
  <2> SUFFICES ASSUME Init PROVE IInv
    OBVIOUS
  <2>1. TypeOK
    BY IdleIsCall, NoKeysIsMap DEF Init, TypeOK
  <2>2. CopyKnown /\ StaleIsExplained
    BY DEF Init, CopyKnown, StaleIsExplained, Stale, At, Idle
  <2> QED
    BY <2>1, <2>2 DEF IInv
<1>2. IInv /\ [Next]_vars => IInv'
  BY NextTypes, NextCopies, NextStale DEF IInv
<1> QED
  BY <1>1, <1>2, PTL DEF Spec

\* Every variable of the registry and its cache keeps its type.
THEOREM KeyTypes == Spec => []TypeOK
<1>1. IInv => TypeOK
  BY DEF IInv
<1> QED
  BY <1>1, Inductive, PTL

\* agentPublicKeys serves a copy that differs from the registry only between a
\* write and its own invalidation, or after a fill that raced a write or a read
\* that failed, or after a write whose answer was lost.
THEOREM CacheCoherence == Spec => []StaleIsExplained
<1>1. IInv => StaleIsExplained
  BY DEF IInv
<1> QED
  BY <1>1, Inductive, PTL
=============================================================================
