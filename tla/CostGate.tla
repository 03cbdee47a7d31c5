------------------------------ MODULE CostGate ------------------------------
(***************************************************************************)
(* Gate 4, core/cost/limiter.py enforce_cost: one Lua script counts a      *)
(* request on its tenant's and its user's counters together, and Python    *)
(* compares the two counts with the caps after the script has moved them.  *)
(* A store that does not answer lets the request through.                  *)
(***************************************************************************)
EXTENDS Integers, FiniteSets

CONSTANTS Requests,
          Counters,      \* cost:tenant:{t} and cost:user:{t}:{s}
          Contexts,      \* the tenant and subject a request may come for
          CountersOf,    \* the two counters of each
          Amount,        \* the `amount` each request charges
          Limit,         \* cost_per_tenant_limit, cost_per_user_limit
          Window,        \* cost_window_seconds
          Leftover       \* counters an older deployment may have left without a TTL, and at what

ASSUME RequestsAssumption ==
    /\ IsFiniteSet(Requests)
    /\ CountersOf \in [Contexts -> SUBSET Counters]
    /\ Amount \in [Requests -> Nat \ {0}]
ASSUME LimitsAssumption ==
    /\ Limit \in [Counters -> Nat]
    /\ Window \in Nat \ {0}
    /\ DOMAIN Leftover \subseteq Counters /\ Leftover \in [DOMAIN Leftover -> Nat \ {0}]

VARIABLES count,     \* each counter: its value and the ticks it has left
          wire,      \* scripts cut off from their caller, not yet run
          pc,        \* each request: not come, at the gate, answered
          context,   \* the RequestContext gates 1 and 2 made of it
          verdict,   \* what the gate told it
          counted    \* history: who was counted since the counter was created

vars == <<count, wire, pc, context, verdict, counted>>

NoExpiry == -1
Gone == [n |-> 0, ttl |-> 0]
NoContext == [tenant |-> "none", subject |-> "none"]

Verdicts == {"none", "allowed", "denied", "bypassed"}

TypeOK ==
    /\ count \in [Counters -> [n : Nat, ttl : -1..Window]]
    /\ wire \subseteq Requests
    /\ pc \in [Requests -> {"arrive", "gate", "done"}]
    /\ context \in [Requests -> Contexts \cup {NoContext}]
    /\ verdict \in [Requests -> Verdicts]
    /\ counted \in [Counters -> SUBSET Requests]

Init ==
    /\ \E old \in SUBSET DOMAIN Leftover :
         count = [c \in Counters |-> IF c \in old THEN [n |-> Leftover[c], ttl |-> NoExpiry]
                                                 ELSE Gone]
    /\ wire = {}
    /\ pc = [r \in Requests |-> "arrive"]
    /\ context = [r \in Requests |-> NoContext]
    /\ verdict = [r \in Requests |-> "none"]
    /\ counted = [c \in Counters |-> {}]

-----------------------------------------------------------------------------

\* mutant: every request adds a window to what is left.
IncrByExtend(c, amount) ==
    [n |-> c.n + amount, ttl |-> IF c.ttl = NoExpiry THEN Window ELSE c.ttl + Window]
\* mutant: every request restarts the window.
IncrByRefresh(c, amount) == [n |-> c.n + amount, ttl |-> Window]
\* INCRBY, and EXPIRE only a counter that is new or has no TTL.
IncrBy(c, amount) ==
    [n |-> c.n + amount, ttl |-> IF c.n = 0 \/ c.ttl = NoExpiry THEN Window ELSE c.ttl]

\* _INCR_BOTH_SCRIPT
IncrBothScript(r) ==
    /\ count' = [c \in Counters |-> IF c \in CountersOf[context[r]]
                                      THEN IncrBy(count[c], Amount[r]) ELSE count[c]]
    /\ counted' = [c \in Counters |-> IF c \in CountersOf[context[r]]
                                        THEN counted[c] \cup {r} ELSE counted[c]]

\* mutant: the caps are compared with the counts before this request.
OverCapBefore(r) == \E c \in CountersOf[context[r]] : count[c].n > Limit[c]

\* The counts the script returned, compared with the two caps.
OverCap(r) == \E c \in CountersOf[context[r]] : count'[c].n > Limit[c]

Tell(r, v) ==
    /\ pc' = [pc EXCEPT ![r] = "done"]
    /\ verdict' = [verdict EXCEPT ![r] = v]

Arrive(r, x) ==
    /\ pc[r] = "arrive"
    /\ pc' = [pc EXCEPT ![r] = "gate"]
    /\ context' = [context EXCEPT ![r] = x]
    /\ UNCHANGED <<count, wire, verdict, counted>>

\* The script answered: under both caps, or 429.
Answered(r) ==
    /\ pc[r] = "gate"
    /\ IncrBothScript(r)
    /\ Tell(r, IF OverCap(r) THEN "denied" ELSE "allowed")
    /\ UNCHANGED <<wire, context>>

\* A timeout, a lost connection, the pool or the open breaker: allow.  The
\* script may already be on its way.
FailOpen(r) ==
    /\ pc[r] = "gate"
    /\ Tell(r, "bypassed")
    /\ wire' = wire \/ wire' = wire \cup {r}
    /\ UNCHANGED <<count, context, counted>>

\* The client goes away while the script is awaited.
Disconnect(r) ==
    /\ pc[r] = "gate"
    /\ Tell(r, "none")
    /\ wire' = wire \/ wire' = wire \cup {r}
    /\ UNCHANGED <<count, context, counted>>

\* The server runs, or never gets, a script nobody waits for.
Late ==
    \E r \in wire :
        /\ wire' = wire \ {r}
        /\ IncrBothScript(r) \/ UNCHANGED <<count, counted>>
        /\ UNCHANGED <<pc, context, verdict>>

Expiring(c) == count[c].ttl = 1

Tick ==
    /\ count' = [c \in Counters |->
                   IF Expiring(c) THEN Gone
                   ELSE [count[c] EXCEPT !.ttl = IF @ > 1 THEN @ - 1 ELSE @]]
    /\ counted' = [c \in Counters |-> IF Expiring(c) THEN {} ELSE counted[c]]
    /\ UNCHANGED <<wire, pc, context, verdict>>

Next ==
    \/ \E r \in Requests : \E x \in Contexts : Arrive(r, x)
    \/ \E r \in Requests : Answered(r) \/ FailOpen(r) \/ Disconnect(r)
    \/ Late
    \/ Tick

Spec == Init /\ [][Next]_vars

-----------------------------------------------------------------------------
(* Properties *)

Admitted(c) == {r \in counted[c] : verdict[r] = "allowed"}

\* Quota is counted in units, of which a request charges Amount[r].
Units(requests) == UNION {{r} \X (1..Amount[r]) : r \in requests}

\* Between two expiries of a counter the requests the gate allowed on it add up
\* to no more than its cap, whatever else was denied, bypassed or counted late.
AdmittedWithinCap ==
    \A c \in Counters : Cardinality(Units(Admitted(c))) <= Limit[c]

\* Every count is inside a window, and a window only runs down: no counter
\* counts for ever, also one found without a TTL (audit M4), and a caller that
\* keeps asking over its cap is not locked out longer than the window that
\* locked it out -- whether the script's reply was read or not.
CountsInsideAWindow ==
    [][\A c \in Counters :
         /\ count'[c].n > count[c].n => count'[c].ttl > 0
         /\ count[c].ttl > 0 => count'[c].ttl <= count[c].ttl]_vars
=============================================================================
