-------------------------------- MODULE Gates --------------------------------
(***************************************************************************)
(* The live gate chain: gate 1 verifies the bearer token, gate 2 matches   *)
(* the host with the tenant the token names, and what comes through is     *)
(* counted by gate 4 (CostGate).  core/auth/verify.py, claims.py,          *)
(* dependencies.py, core/tenancy.py.                                       *)
(*                                                                         *)
(* Names are compared as they are after the code has folded and stripped   *)
(* them: a claim or a host is the tenant it names, or one of the ways in   *)
(* which it names none.  Time is counted by the issuer's clock; ours is    *)
(* `skew' ahead of it.                                                     *)
(***************************************************************************)
EXTENDS CostGate

CONSTANTS Calls,       \* what a caller may send: token and Host
          Life,        \* exp - iat of a token
          Leeway,      \* jwt_leeway_seconds
          MaxSkew,     \* bound: how far the two clocks drift apart
          MaxAge       \* bound: the oldest token that is sent

Tenants == {x.tenant : x \in Contexts}
Subjects == {x.subject : x \in Contexts}
\* signed: with our key and algorithm, an exp in it.
ASSUME CallsAssumption ==
    /\ Calls \subseteq [bearer : BOOLEAN, signed : BOOLEAN,
                       subdomain : Tenants \cup {"missing", "invalid"},
                       sub : Subjects \cup {"missing"},
                       host : Tenants \cup {"absent", "elsewhere"}]
    /\ \A c \in Calls : c.subdomain \in Tenants /\ c.sub \in Subjects =>
                         [tenant |-> c.subdomain, subject |-> c.sub] \in Contexts
ASSUME ClockAssumption ==
    /\ {Life, Leeway, MaxSkew, MaxAge} \subseteq Nat
    /\ MaxSkew <= Leeway /\ Life <= MaxAge

VARIABLES call,    \* each request's headers
          age,     \* issuer's time since its token was issued, while it waits
          skew     \* our clock minus the issuer's

gateVars == <<vars, call, age, skew>>

NoCall == [bearer |-> FALSE]
Come(r) == call[r] # NoCall \/ pc[r] # "arrive"

GatesTypeOK ==
    /\ wire \subseteq Requests
    /\ pc \in [Requests -> {"arrive", "gate", "done"}]
    /\ context \in [Requests -> Contexts \cup {NoContext}]
    /\ verdict \in [Requests -> Verdicts \cup {"unauthorized", "forbidden"}]
    /\ call \in [Requests -> Calls \cup {NoCall}]
    /\ age \in [Requests -> 0..MaxAge]
    /\ skew \in -MaxSkew..MaxSkew

GatesInit ==
    /\ Init
    /\ call = [r \in Requests |-> NoCall]
    /\ age = [r \in Requests |-> 0]
    /\ skew \in -MaxSkew..MaxSkew

-----------------------------------------------------------------------------
(* Gate 1 *)

\* Time since the token was issued, as our clock has it.
Elapsed(r) == age[r] + skew

\* mutant: a token is not valid before the second it says it was issued in.
InTimeNoLeeway(r) == 0 <= Elapsed(r) /\ Elapsed(r) - Leeway < Life
\* jwt.decode: iat not in the future and exp not past, each by more than the leeway.
InTime(r) == -Leeway <= Elapsed(r) /\ Elapsed(r) - Leeway < Life

\* _bearer_token, JwtVerifier.verify
Verified(r) == call[r].bearer /\ call[r].signed /\ InTime(r)

\* extract_identity
Identified(r) == call[r].subdomain \in Tenants /\ call[r].sub # "missing"
Identity(r) == [tenant |-> call[r].subdomain, subject |-> call[r].sub]

\* mutant: a host of ours is enough, whichever tenant it is.
SameTenantAny(r) == call[r].host \in Tenants
\* Gate 2, check_tenant: the whole host is <the token's tenant>.<base domain>.
SameTenant(r) == call[r].host = call[r].subdomain

-----------------------------------------------------------------------------
\* The headers are in; get_verifier runs on the threadpool and is awaited.
SendCall(r, c, old) ==
    /\ ~Come(r)
    /\ call' = [call EXCEPT ![r] = c]
    /\ age' = [age EXCEPT ![r] = old]
    /\ UNCHANGED <<vars, skew>>

\* Refused here, or gone: nothing of the call is kept.
Turned(r, status) ==
    /\ Tell(r, status)
    /\ call' = [call EXCEPT ![r] = NoCall] /\ age' = [age EXCEPT ![r] = 0]
    /\ UNCHANGED <<count, wire, context, counted, skew>>
\* build_context
Through(r) ==
    /\ Arrive(r, Identity(r))
    /\ age' = [age EXCEPT ![r] = 0]
    /\ UNCHANGED <<call, skew>>

\* Gates 1 and 2 and build_context, with no await between them.
PassGates(r) ==
    /\ pc[r] = "arrive" /\ Come(r)
    /\ \/ ~(Verified(r) /\ Identified(r)) /\ Turned(r, "unauthorized")
       \/ Verified(r) /\ Identified(r) /\ ~SameTenant(r) /\ Turned(r, "forbidden")
       \/ Verified(r) /\ Identified(r) /\ SameTenant(r) /\ Through(r)

\* The caller goes away while get_verifier is awaited.
Leave(r) ==
    /\ pc[r] = "arrive" /\ Come(r)
    /\ Turned(r, "none")

GateFour ==
    /\ (\E r \in Requests : Answered(r) \/ FailOpen(r) \/ Disconnect(r)) \/ Late
    /\ UNCHANGED <<call, age, skew>>

\* Waiting tokens grow older; counters run down.
GatesTick ==
    /\ \A r \in Requests : pc[r] = "arrive" /\ Come(r) => age[r] < MaxAge
    /\ age' = [r \in Requests |-> IF pc[r] = "arrive" /\ Come(r) THEN age[r] + 1 ELSE age[r]]
    /\ Tick
    /\ UNCHANGED <<call, skew>>

\* One of the clocks is set, within the bound.
Drift ==
    /\ skew' \in {skew - 1, skew + 1} \cap (-MaxSkew..MaxSkew)
    /\ UNCHANGED <<vars, call, age>>

GatesNext ==
    \/ \E r \in Requests : \/ \E c \in Calls, old \in {0, Life} : SendCall(r, c, old)
                           \/ PassGates(r) \/ Leave(r)
    \/ GateFour \/ GatesTick \/ Drift

GatesSpec == GatesInit /\ [][GatesNext]_gateVars

-----------------------------------------------------------------------------
(* Properties *)

\* Nobody spends a tenant's quota but its own callers: whatever is on a counter,
\* also what a script nobody waits for put there, came with a token we verified
\* naming that tenant and that user, over that tenant's host.
CountedAsWhoTheyAre ==
    \A c \in Counters : \A r \in counted[c] :
        /\ call[r].bearer /\ call[r].signed /\ call[r].host = call[r].subdomain
        /\ c \in CountersOf[[tenant |-> call[r].subdomain, subject |-> call[r].sub]]

\* Ordinary drift is not read as an attack: with the clocks no further apart
\* than the leeway, and set while the request waits, a token in its lifetime is
\* never refused for its time, and none is served a drift and a leeway after it.
SkewTolerated ==
    [][ \A r \in Requests : pc[r] = "arrive" /\ pc'[r] # "arrive" =>
          /\ verdict'[r] = "unauthorized" /\ call[r].bearer /\ call[r].signed /\ Identified(r)
               => age[r] >= Life
          /\ pc'[r] = "gate" => age[r] < Life + Leeway + MaxSkew ]_gateVars
=============================================================================
