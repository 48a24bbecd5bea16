------------------------------ MODULE AgentKeys ------------------------------
(***************************************************************************)
(* Keys of server-to-server agents: the table agent_api_keys, written by   *)
(* hosts (api/agent_keys.go), and the copy of it that one process keeps in *)
(* memory and every signed request reads (middleware/auth.go).             *)
(*                                                                         *)
(* A map of keys is a function on all agents, NoKey where the Go map has   *)
(* no entry.  AGENT_PUBLIC_KEYS_JSON is the constant Env; a variable that  *)
(* is unset yields a nil map, which is never a hit when it is cached.      *)
(***************************************************************************)

CONSTANTS
  Agents, KeyVals,   \* agents, and the public keys they may register
  Env,               \* the keys of the environment variable
  NoKey,
  Calls              \* requests in flight

Maps   == [Agents -> KeyVals \cup {NoKey}]
NoKeys == [a \in Agents |-> NoKey]

ASSUME AgentKeysAssumption == NoKey \notin KeyVals /\ Env \in Maps

VARIABLES
  active,   \* agent_api_keys: the key in the agent's active row; a revoked row is
            \* to every query as good as none
  cache,    \* runtimeAgentKeyCache.keys; NoKeys is nil
  fresh,    \* now is before runtimeAgentKeyCache.expiresAt
  call,     \* the requests in flight
  drifted   \* history: the cache was filled from a read that the table has
            \* since overtaken, or while the table could not be read
vars == <<active, cache, fresh, call, drifted>>

\* outdated is history too: the table has changed since this call read it.
CallSet ==
  [pc : {"idle", "query", "fill", "accepted", "refused", "invalidate"},
   agent : Agents \cup {NoKey}, key : KeyVals \cup {NoKey},
   keys : Maps, outdated : BOOLEAN]

Idle == [pc |-> "idle", agent |-> NoKey, key |-> NoKey, keys |-> NoKeys, outdated |-> FALSE]

TypeOK ==
  /\ active \in Maps
  /\ cache \in Maps /\ fresh \in BOOLEAN
  /\ call \in [Calls -> CallSet]
  /\ drifted \in BOOLEAN

At(c, pc) == call[c].pc = pc

-----------------------------------------------------------------------------
(* What the registry says. *)

\* The environment speaks for a registry that has no active key at all.
Effective(rows) == IF rows = NoKeys THEN Env ELSE rows

-----------------------------------------------------------------------------
(* verifyAgentSignature: a request of agent a, properly signed with key k. *)

\* A slip: an agent without a key is told apart from a wrong signature.
OutcomeUnknown(keys, a, k) ==
  IF keys[a] = NoKey THEN "unknown" ELSE IF keys[a] = k THEN "accepted" ELSE "refused"

Outcome(keys, a, k) == IF keys[a] = k THEN "accepted" ELSE "refused"

\* A slip: an entry is used whatever its age.
LookupHitExpired(c) == \E a \in Agents, k \in KeyVals :
  /\ At(c, "idle") /\ cache # NoKeys
  /\ call' = [call EXCEPT ![c] = [Idle EXCEPT !.pc = Outcome(cache, a, k), !.agent = a, !.key = k]]
  /\ UNCHANGED <<active, cache, fresh, drifted>>

\* The entry is there and has not expired: the answer is the cache's.
LookupHit(c) == \E a \in Agents, k \in KeyVals :
  /\ At(c, "idle") /\ fresh /\ cache # NoKeys
  /\ call' = [call EXCEPT ![c] = [Idle EXCEPT !.pc = Outcome(cache, a, k), !.agent = a, !.key = k]]
  /\ UNCHANGED <<active, cache, fresh, drifted>>

LookupMiss(c) == \E a \in Agents, k \in KeyVals :
  /\ At(c, "idle") /\ ~(fresh /\ cache # NoKeys)
  /\ call' = [call EXCEPT ![c] = [Idle EXCEPT !.pc = "query", !.agent = a, !.key = k]]
  /\ UNCHANGED <<active, cache, fresh, drifted>>

\* The table is read outside the lock.
Query(c) ==
  /\ At(c, "query")
  /\ call' = [call EXCEPT ![c].pc = "fill", ![c].keys = Effective(active)]
  /\ UNCHANGED <<active, cache, fresh, drifted>>

\* The result breaks off after some of its rows, or before the first: the code
\* does not ask rows.Err, and takes what it has, or else the environment's keys.
QueryCut(c) == \E got \in SUBSET Agents :
  LET keys == Effective([a \in Agents |-> IF a \in got THEN active[a] ELSE NoKey])
  IN  /\ At(c, "query")
      /\ call' = [call EXCEPT ![c].pc = "fill", ![c].keys = keys,
                              ![c].outdated = (keys # Effective(active))]
      /\ UNCHANGED <<active, cache, fresh, drifted>>

\* The copy is stored, whatever happened since it was read, and this request is
\* decided by it.
Fill(c) ==
  /\ At(c, "fill")
  /\ cache' = call[c].keys /\ fresh' = TRUE
  /\ drifted' = call[c].outdated
  /\ call' = [call EXCEPT ![c].pc = Outcome(call[c].keys, call[c].agent, call[c].key)]
  /\ UNCHANGED active

\* The handler behind the check answers.
Reply(c) ==
  /\ call[c].pc \in {"accepted", "refused"}
  /\ call' = [call EXCEPT ![c] = Idle]
  /\ UNCHANGED <<active, cache, fresh, drifted>>

-----------------------------------------------------------------------------
(* UpsertAgentKey and RevokeAgentKey: a statement, then the invalidation. *)

\* Calls that hold a copy of the table now hold an old one if rows differ.
Overtaken(rows) ==
  [d \in Calls |->
     [call[d] EXCEPT !.outdated = @ \/ (At(d, "fill") /\ call[d].keys # Effective(rows))]]

Write(c, a, entry) ==
  /\ At(c, "idle") /\ active' = [active EXCEPT ![a] = entry]
  /\ call' = [Overtaken(active') EXCEPT ![c] = [Idle EXCEPT !.pc = "invalidate", !.agent = a]]
  /\ UNCHANGED <<cache, fresh, drifted>>

\* The statement takes effect, but its answer is lost, and the handler gives up
\* before the invalidation.
WriteLost(c, a, entry) ==
  /\ At(c, "idle") /\ active' = [active EXCEPT ![a] = entry]
  /\ call' = Overtaken(active')
  /\ drifted' = (drifted \/ (fresh /\ cache # NoKeys /\ cache # Effective(active')))
  /\ UNCHANGED <<cache, fresh>>

\* A slip: a revocation that leaves the cache to expire.
RevokeOnly(c) == \E a \in Agents :
  /\ At(c, "idle") /\ active' = [active EXCEPT ![a] = NoKey]
  /\ call' = Overtaken(active')
  /\ UNCHANGED <<cache, fresh, drifted>>

Upsert(c)     == \E a \in Agents, k \in KeyVals : Write(c, a, k)
UpsertLost(c) == \E a \in Agents, k \in KeyVals : WriteLost(c, a, k)
Revoke(c)     == \E a \in Agents : Write(c, a, NoKey)
RevokeLost(c) == \E a \in Agents : WriteLost(c, a, NoKey)

Invalidate(c) ==
  /\ At(c, "invalidate")
  /\ cache' = NoKeys /\ fresh' = FALSE /\ drifted' = FALSE
  /\ call' = [call EXCEPT ![c] = Idle]
  /\ UNCHANGED active

-----------------------------------------------------------------------------
(* Time, and the process. *)

Expire ==
  /\ fresh
  /\ fresh' = FALSE /\ drifted' = FALSE
  /\ UNCHANGED <<active, cache, call>>

Restart ==
  /\ cache' = NoKeys /\ fresh' = FALSE /\ drifted' = FALSE
  /\ call' = [c \in Calls |-> Idle]
  /\ UNCHANGED active

-----------------------------------------------------------------------------
Init ==
  /\ active = NoKeys
  /\ cache = NoKeys /\ fresh = FALSE /\ drifted = FALSE
  /\ call = [c \in Calls |-> Idle]

Answered(c) == Query(c) \/ Fill(c) \/ Reply(c) \/ Invalidate(c)
Continue(c) == Answered(c) \/ QueryCut(c)

Starts(c) == LookupHit(c) \/ LookupMiss(c) \/ Upsert(c) \/ Revoke(c)

Next ==
  \/ \E c \in Calls : Starts(c) \/ Continue(c) \/ UpsertLost(c) \/ RevokeLost(c)
  \/ Expire \/ Restart

Spec == Init /\ [][Next]_vars

\* Calls return, entries expire, and outages end: from some time on the server
\* stays up and the database answers.  Nobody is obliged to make requests.
Calm == Expire \/ \E c \in Calls : Starts(c) \/ Answered(c)

Fairness ==
  /\ \A c \in Calls : WF_vars(Continue(c))
  /\ WF_vars(Expire)
  /\ <>[][Calm]_vars
FairSpec == Spec /\ Fairness

-----------------------------------------------------------------------------
(* Properties. *)

Stale == fresh /\ cache # NoKeys /\ cache # Effective(active)

\* The cache may differ from the registry only between a write and its own
\* invalidation, after a fill from an overtaken or failed read, and after a
\* write whose answer was lost: with invalidation after the write and fills
\* that race nobody, agentPublicKeys is coherent.
StaleIsExplained == Stale => drifted \/ \E c \in Calls : At(c, "invalidate")

\* If the registry settles on a key for an agent (or on none), then so do the
\* answers: from some time on no request of the agent signed with another key
\* passes verifyAgentSignature, and none with this key is refused.  Every stale
\* copy, whichever race stored it, lasts for one TTL at most.
AnswersSettle ==
  \A a \in Agents, k \in KeyVals :
    /\ <>[](Effective(active)[a] = k) =>
         <>[](\A c \in Calls : ~(call[c].agent = a /\ call[c].key = k /\ At(c, "refused")))
    /\ <>[](Effective(active)[a] # k) =>
         <>[](\A c \in Calls : ~(call[c].agent = a /\ call[c].key = k /\ At(c, "accepted")))
=============================================================================
