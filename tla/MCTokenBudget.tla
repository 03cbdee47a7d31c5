---------------------------- MODULE MCTokenBudget ----------------------------
(***************************************************************************)
(* Two slots of one tenant, each serving another user.                     *)
(***************************************************************************)
EXTENDS TokenBudget, TLC

CONSTANTS s1, s2, tenant, user1, user2

MCCountersOf == [s \in Slots |-> {tenant, IF s = s1 THEN user1 ELSE user2}]
\* A tenant budget with room between its threshold and its limit, and user
\* budgets whose threshold rounds up to the limit.
MCLimit == [c \in Counters |-> IF c = tenant THEN 5 ELSE 3]
MCWarnAt == [c \in Counters |-> IF c = tenant THEN 2 ELSE 3]
=============================================================================
