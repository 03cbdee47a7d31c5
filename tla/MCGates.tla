------------------------------- MODULE MCGates -------------------------------
(***************************************************************************)
(* Three requests, one of them charging 2, of two users of one tenant and  *)
(* one of another; and callers who are turned away at each gate.           *)
(***************************************************************************)
EXTENDS Gates, Sequences, TLC

CONSTANTS r1, r2, r3

User(t, s) == [tenant |-> t, subject |-> s]
MCContexts == {User("a", "u"), User("a", "v"), User("b", "u")}
MCCounters == {<<"a">>, <<"a", "u">>, <<"a", "v">>, <<"b">>, <<"b", "u">>}
MCCountersOf == [x \in MCContexts |-> {<<x.tenant>>, <<x.tenant, x.subject>>}]
MCLimit == [c \in MCCounters |-> IF Len(c) = 1 THEN 2 ELSE 1]
MCAmount == [r \in Requests |-> IF r = r3 THEN 2 ELSE 1]

Token(t, s, h) == [bearer |-> TRUE, signed |-> TRUE, subdomain |-> t, sub |-> s, host |-> h]
MCCalls ==
    {Token("a", "u", "a"), Token("a", "v", "a"), Token("b", "u", "b"),
     Token("a", "u", "b"), Token("a", "missing", "a"),
     [Token("a", "v", "a") EXCEPT !.signed = FALSE],
     [Token("b", "u", "b") EXCEPT !.bearer = FALSE]}

\* One counter of an older deployment, without a TTL.
MCLeftover == [c \in {<<"a">>} |-> 1]

Symmetry == Permutations({r1, r2})
=============================================================================
