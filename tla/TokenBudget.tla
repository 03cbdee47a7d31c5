----------------------------- MODULE TokenBudget -----------------------------
(***************************************************************************)
(* The token budget, core/cost/limiter.py token_preflight and              *)
(* enforce_token_cost, as judgements use it: read both counters before the *)
(* first model call, charge both after every answer.  The read and the     *)
(* charges are far apart, and judgements run beside each other.            *)
(*                                                                         *)
(* A slot is one place under max_inflight: it runs judgements one after    *)
(* another.  A judgement's passes are a number of calls it may still make; *)
(* which pass makes a call, and what is answered, is ModelPasses.          *)
(***************************************************************************)
EXTENDS Integers, FiniteSets

CONSTANTS Slots,
          Counters,      \* tokens:tenant:{t} and tokens:user:{t}:{s}
          CountersOf,    \* the counters of each slot's caller
          Limit,         \* cost_tokens_per_tenant_limit, ..._per_user_limit
          WarnAt,        \* limit * cost_token_warning_ratio, rounded up
          Window,        \* cost_window_seconds
          Passes,        \* model passes of one judgement
          Tokens,        \* what one answer may cost
          Leftover,      \* values an old counter with no TTL may have
          MaxBypasses,   \* bound: pre-flights the store does not answer
          MaxLost        \* bound: charges the store does not answer in time

ASSUME SlotsAssumption ==
    /\ IsFiniteSet(Slots)
    /\ CountersOf \in [Slots -> SUBSET Counters]
    /\ \A c \in Counters : \E s \in Slots : c \in CountersOf[s]
ASSUME BudgetAssumption ==
    /\ Limit \in [Counters -> Nat \ {0}] /\ WarnAt \in [Counters -> Nat \ {0}]
    /\ \A c \in Counters : WarnAt[c] <= Limit[c]   \* the ratio is below 1
    /\ Window \in Nat \ {0} /\ Passes \in Nat \ {0}
    /\ Tokens \subseteq Nat \ {0}
    /\ \E most \in Tokens : \A t \in Tokens : t <= most
    /\ \A c \in Counters : Leftover \subseteq 1..Limit[c]
    /\ MaxBypasses \in Nat /\ MaxLost \in Nat

VARIABLES total,      \* each counter: its value and the ticks it has left
          wire,       \* charges cut off from their caller, not yet run
          pc,         \* each slot: free, at the pre-flight, spending
          left,       \* calls its judgement may still place
          bypasses,   \* pre-flights that failed open so far
          lost,       \* charges that failed open so far
          warned,     \* history: warnings in the life of each counter
          missed      \* history: a charge of this counter never told its caller

vars == <<total, wire, pc, left, bypasses, lost, warned, missed>>

NoExpiry == -1
Gone == [n |-> 0, ttl |-> 0]
MostTokens == CHOOSE t \in Tokens : \A u \in Tokens : u <= t

TypeOK ==
    /\ total \in [Counters -> [n : Nat, ttl : -1..Window]]
    /\ wire \subseteq Slots \X Tokens \X (1..MaxLost)
    /\ pc \in [Slots -> {"free", "preflight", "spending"}]
    /\ left \in [Slots -> 0..(2 * Passes)]
    /\ bypasses \in 0..MaxBypasses
    /\ lost \in 0..MaxLost
    /\ warned \in [Counters -> Nat]
    /\ missed \in [Counters -> BOOLEAN]

Init ==
    /\ total \in [Counters -> {Gone} \cup {[n |-> v, ttl |-> NoExpiry] : v \in Leftover}]
    /\ wire = {}
    /\ pc = [s \in Slots |-> "free"]
    /\ left = [s \in Slots |-> 0]
    /\ bypasses = 0
    /\ lost = 0
    /\ warned = [c \in Counters |-> 0]
    /\ missed = [c \in Counters |-> total[c].n > 0]

-----------------------------------------------------------------------------
(* The pre-flight: an MGET and two comparisons. *)

\* mutant: over the limit, not at or over it.
AtBudgetOver(c) == total[c].n > Limit[c]
AtBudget(c) == total[c].n >= Limit[c]

NearBudget(c) == total[c].n >= WarnAt[c]

\* A pass answers once, and once more when it may reprompt.
Calls(near) == IF near THEN Passes ELSE 2 * Passes

Spend(s, near) ==
    /\ pc' = [pc EXCEPT ![s] = "spending"]
    /\ left' = [left EXCEPT ![s] = Calls(near)]

Reserve(s) ==
    /\ pc[s] = "free"
    /\ pc' = [pc EXCEPT ![s] = "preflight"]
    /\ UNCHANGED <<total, wire, left, bypasses, lost, warned, missed>>

\* Both counters under their limits: judge, without reprompts when one is near.
PreflightAdmits(s) ==
    /\ pc[s] = "preflight"
    /\ \A c \in CountersOf[s] : ~AtBudget(c)
    /\ Spend(s, \E c \in CountersOf[s] : NearBudget(c))
    /\ UNCHANGED <<total, wire, bypasses, lost, warned, missed>>

\* 429 token_budget_exceeded.
PreflightDenies(s) ==
    /\ pc[s] = "preflight"
    /\ \E c \in CountersOf[s] : AtBudget(c)
    /\ pc' = [pc EXCEPT ![s] = "free"]
    /\ UNCHANGED <<total, wire, left, bypasses, lost, warned, missed>>

\* The store does not answer, or its breaker refuses: judge in full.
PreflightBypassed(s) ==
    /\ pc[s] = "preflight"
    /\ bypasses < MaxBypasses
    /\ bypasses' = bypasses + 1
    /\ Spend(s, FALSE)
    /\ UNCHANGED <<total, wire, lost, warned, missed>>

-----------------------------------------------------------------------------
(* The charge: _ADD_TOKENS_SCRIPT, and what Python reads out of its reply. *)

\* mutant: every charge adds a window to what is left.
ChargedExtend(c, t) ==
    [n |-> c.n + t, ttl |-> IF c.ttl = NoExpiry THEN Window ELSE c.ttl + Window]
Charged(c, t) ==
    [n |-> c.n + t, ttl |-> IF c.n = 0 \/ c.ttl = NoExpiry THEN Window ELSE c.ttl]

\* INCRBY both, and EXPIRE a counter that is new or has no TTL.
AddTokensScript(s, t) ==
    total' = [c \in Counters |-> IF c \in CountersOf[s]
                                   THEN Charged(total[c], t) ELSE total[c]]

\* mutant: warn on every charge over the threshold.
CrossesEvery(c, t) == total'[c].n >= WarnAt[c]
\* _warn_on_crossing: the reply, and the reply less what this call added.
Crosses(c, t) == total'[c].n - t < WarnAt[c] /\ total'[c].n >= WarnAt[c]

\* A call is answered: its tokens are charged, and a crossing is warned of.
AnswerCharged(s) ==
    /\ pc[s] = "spending" /\ left[s] > 0
    /\ left' = [left EXCEPT ![s] = @ - 1]
    /\ \E t \in Tokens :
          /\ AddTokensScript(s, t)
          /\ warned' = [c \in Counters |->
                IF c \in CountersOf[s] /\ Crosses(c, t) THEN warned[c] + 1 ELSE warned[c]]
    /\ UNCHANGED <<wire, pc, bypasses, lost, missed>>

\* The charge fails open, or its judgement is cancelled under it: the script
\* is lost or still on its way.
AnswerUncharged(s) ==
    /\ pc[s] = "spending" /\ left[s] > 0
    /\ lost < MaxLost
    /\ lost' = lost + 1
    /\ left' = [left EXCEPT ![s] = @ - 1]
    /\ wire' = wire \/ \E t \in Tokens : wire' = wire \cup {<<s, t, lost + 1>>}
    /\ UNCHANGED <<total, pc, bypasses, warned, missed>>

\* The judgement ends: answered, failed, cancelled, with or without calls left.
JudgementEnds(s) ==
    /\ pc[s] = "spending"
    /\ pc' = [pc EXCEPT ![s] = "free"]
    /\ left' = [left EXCEPT ![s] = 0]
    /\ UNCHANGED <<total, wire, bypasses, lost, warned, missed>>

\* The server runs, or never gets, a charge nobody reads the reply of.
LateCharge ==
    \E w \in wire :
        /\ wire' = wire \ {w}
        /\ \/ /\ AddTokensScript(w[1], w[2])
              /\ missed' = [c \in Counters |-> missed[c] \/ c \in CountersOf[w[1]]]
           \/ UNCHANGED <<total, missed>>
        /\ UNCHANGED <<pc, left, bypasses, lost, warned>>

Expiring(c) == total[c].ttl = 1

Tick ==
    /\ total' = [c \in Counters |->
                   IF Expiring(c) THEN Gone
                   ELSE [total[c] EXCEPT !.ttl = IF @ > 1 THEN @ - 1 ELSE @]]
    /\ warned' = [c \in Counters |-> IF Expiring(c) THEN 0 ELSE warned[c]]
    /\ missed' = [c \in Counters |-> IF Expiring(c) THEN FALSE ELSE missed[c]]
    /\ UNCHANGED <<wire, pc, left, bypasses, lost>>

Next ==
    \/ \E s \in Slots :
         \/ Reserve(s) \/ PreflightAdmits(s) \/ PreflightDenies(s) \/ PreflightBypassed(s)
         \/ AnswerCharged(s) \/ AnswerUncharged(s) \/ JudgementEnds(s)
    \/ LateCharge
    \/ Tick

Spec == Init /\ [][Next]_vars

-----------------------------------------------------------------------------
(* Properties *)

SlotsOf(c) == {s \in Slots : c \in CountersOf[s]}

\* What is charged although the store did not answer: bypassed judgements in
\* full, and charges that landed late.
Unguarded == (bypasses * 2 * Passes + lost) * MostTokens

\* The check and the charges are apart, but the damage is bounded for as long as
\* callers keep trying.  When the last judgement was admitted below the
\* threshold, every slot may still spend a whole judgement; when it was admitted
\* between the threshold and the limit, it spends a degraded one.
OvershootBounded ==
    \A c \in Counters :
        LET slots == Cardinality(SlotsOf(c)) IN
        \/ total[c].n <= WarnAt[c] - 1 + slots * 2 * Passes * MostTokens + Unguarded
        \/ total[c].n <= Limit[c] - 1 + (slots * 2 - 1) * Passes * MostTokens + Unguarded

\* A crossing of the warning threshold is warned of exactly once in the life of
\* the counter, whichever worker's charge crosses it; unless a charge landed
\* that no caller read.
WarnedOnce ==
    \A c \in Counters : ~missed[c] => warned[c] = IF total[c].n >= WarnAt[c] THEN 1 ELSE 0

=============================================================================
