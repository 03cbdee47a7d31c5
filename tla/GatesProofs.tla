----------------------------- MODULE GatesProofs -----------------------------
(***************************************************************************)
(* Safety of the gate chain for any number of requests, any counters,      *)
(* callers, caps and window, and any two clocks no further apart than the  *)
(* leeway.  Two inductive invariants: GInv says who can be on a counter,   *)
(* and QuotaInv, on top of it, that a counter never shows less than what   *)
(* the requests on it charged -- which is what makes the comparison after  *)
(* the script a bound on what the allowed ones charged together.           *)
(***************************************************************************)
EXTENDS Gates, FiniteSetTheorems, TLAPS

CountTypeOK == count \in [Counters -> [n : Nat, ttl : -1..Window]]
CountedTypeOK == counted \in [Counters -> SUBSET Requests]

\* A counter exists exactly while it has a window or lost it.
CountHasWindow == \A c \in Counters : count[c].n > 0 <=> count[c].ttl # 0

\* At gate 4, on the wire or on a counter: past gates 1 and 2.
BeyondGates(r) == pc[r] = "gate" \/ r \in wire \/ \E c \in Counters : r \in counted[c]
Vetted(r) ==
    /\ pc[r] # "arrive"
    /\ call[r].bearer /\ call[r].signed /\ call[r].host = call[r].subdomain
    /\ context[r] = Identity(r)
BeyondAreVetted == \A r \in Requests : BeyondGates(r) => Vetted(r)
CountedOnOwn == \A c \in Counters : \A r \in counted[c] : c \in CountersOf[context[r]]

GInv == GatesTypeOK /\ CountTypeOK /\ CountedTypeOK /\ CountHasWindow
        /\ BeyondAreVetted /\ CountedOnOwn

-----------------------------------------------------------------------------
LEMMA Constants ==
    /\ Window \in Nat \ {0} /\ Amount \in [Requests -> Nat \ {0}]
    /\ DOMAIN Leftover \subseteq Counters /\ Leftover \in [DOMAIN Leftover -> Nat \ {0}]
    /\ Life \in Nat /\ Leeway \in Nat /\ MaxSkew \in Nat /\ MaxAge \in Nat /\ MaxSkew <= Leeway
    /\ Life <= MaxAge
BY RequestsAssumption, LimitsAssumption, ClockAssumption

LEMMA InitGInv == GatesInit => GInv
<1> SUFFICES ASSUME GatesInit PROVE GInv
  OBVIOUS
<1> USE Constants DEF GatesInit, Init
<1>1. GatesTypeOK
  BY DEF GatesTypeOK, Verdicts
<1>2. CountTypeOK /\ CountHasWindow
  <2>1. PICK old \in SUBSET DOMAIN Leftover :
          count = [c \in Counters |-> IF c \in old THEN [n |-> Leftover[c], ttl |-> NoExpiry]
                                                   ELSE Gone]
    OBVIOUS
  <2>2. \A c \in old : Leftover[c] \in Nat \ {0}
    OBVIOUS
  <2> QED
    BY <2>1, <2>2 DEF CountTypeOK, CountHasWindow, NoExpiry, Gone
<1>3. CountedTypeOK /\ BeyondAreVetted /\ CountedOnOwn
  BY DEF CountedTypeOK, BeyondAreVetted, BeyondGates, CountedOnOwn
<1> QED
  BY <1>1, <1>2, <1>3 DEF GInv

\* The script's arithmetic: a count that exists keeps its window.
LEMMA IncrByFacts ==
    ASSUME NEW c \in [n : Nat, ttl : -1..Window], c.n > 0 <=> c.ttl # 0,
           NEW a \in Nat \ {0}
    PROVE  /\ IncrBy(c, a) \in [n : Nat, ttl : -1..Window]
           /\ IncrBy(c, a).n > 0 /\ IncrBy(c, a).ttl > 0
           /\ c.ttl > 0 => IncrBy(c, a).ttl = c.ttl
BY Constants DEF IncrBy, NoExpiry

\* The script keeps the counters' part of the invariant and moves no window.
LEMMA ScriptCounts ==
    ASSUME CountTypeOK, CountHasWindow, NEW r \in Requests, IncrBothScript(r)
    PROVE  /\ CountTypeOK' /\ CountHasWindow'
           /\ \A c \in Counters : /\ count'[c].n > count[c].n => count'[c].ttl > 0
                                  /\ count[c].ttl > 0 => count'[c].ttl <= count[c].ttl
<1>1. Amount[r] \in Nat \ {0}
  BY Constants
<1>2. ASSUME NEW c \in Counters
      PROVE  /\ count'[c] \in [n : Nat, ttl : -1..Window]
             /\ count'[c].n > 0 <=> count'[c].ttl # 0
             /\ count'[c].n > count[c].n => count'[c].ttl > 0
             /\ count[c].ttl > 0 => count'[c].ttl <= count[c].ttl
  <2>1. count[c] \in [n : Nat, ttl : -1..Window] /\ (count[c].n > 0 <=> count[c].ttl # 0)
    BY DEF CountTypeOK, CountHasWindow
  <2>2. CASE c \in CountersOf[context[r]]
    <3>1. count'[c] = IncrBy(count[c], Amount[r])
      BY <2>2 DEF IncrBothScript
    <3>2. /\ IncrBy(count[c], Amount[r]) \in [n : Nat, ttl : -1..Window]
          /\ IncrBy(count[c], Amount[r]).n > 0 /\ IncrBy(count[c], Amount[r]).ttl > 0
          /\ count[c].ttl > 0 => IncrBy(count[c], Amount[r]).ttl = count[c].ttl
      BY <1>1, <2>1, IncrByFacts
    <3> QED
      BY <2>1, <3>1, <3>2, Constants
  <2>3. CASE c \notin CountersOf[context[r]]
    BY <2>1, <2>3, Constants DEF IncrBothScript
  <2> QED
    BY <2>2, <2>3
<1>3. DOMAIN count' = Counters /\ count' = [c \in Counters |-> count'[c]]
  BY DEF IncrBothScript
<1> QED
  BY <1>2, <1>3 DEF CountTypeOK, CountHasWindow

\* Time takes a counter away or takes one tick from its window.
LEMMA TickCounts ==
    ASSUME CountTypeOK, CountHasWindow, Tick
    PROVE  /\ CountTypeOK' /\ CountHasWindow'
           /\ \A c \in Counters : /\ count'[c].n > count[c].n => count'[c].ttl > 0
                                  /\ count[c].ttl > 0 => count'[c].ttl <= count[c].ttl
<1>1. ASSUME NEW c \in Counters
      PROVE  /\ count'[c] \in [n : Nat, ttl : -1..Window]
             /\ count'[c].n > 0 <=> count'[c].ttl # 0
             /\ count'[c].n <= count[c].n
             /\ count[c].ttl > 0 => count'[c].ttl <= count[c].ttl
  <2>1. count[c] \in [n : Nat, ttl : -1..Window] /\ (count[c].n > 0 <=> count[c].ttl # 0)
    BY DEF CountTypeOK, CountHasWindow
  <2>2. CASE Expiring(c)
    BY <2>1, <2>2, Constants DEF Tick, Expiring, Gone
  <2>3. CASE ~Expiring(c)
    <3>1. count'[c] = [n |-> count[c].n,
                       ttl |-> IF count[c].ttl > 1 THEN count[c].ttl - 1 ELSE count[c].ttl]
      BY <2>1, <2>3 DEF Tick
    <3> QED
      BY <2>1, <2>3, <3>1, Constants DEF Expiring
  <2> QED
    BY <2>2, <2>3
<1>2. DOMAIN count' = Counters /\ count' = [c \in Counters |-> count'[c]]
  BY DEF Tick
<1>3. \A c \in Counters : count'[c].n \in Nat /\ count[c].n \in Nat
  BY <1>1 DEF CountTypeOK
<1> QED
  BY <1>1, <1>2, <1>3 DEF CountTypeOK, CountHasWindow

\* Counting a request that was vetted keeps everybody on their own counters.
LEMMA ScriptCounted ==
    ASSUME CountedTypeOK, CountedOnOwn, NEW r \in Requests, IncrBothScript(r),
           UNCHANGED context
    PROVE  /\ CountedTypeOK' /\ CountedOnOwn'
           /\ \A c \in Counters : counted'[c] \subseteq counted[c] \cup {r}
BY DEF CountedTypeOK, CountedOnOwn, IncrBothScript

-----------------------------------------------------------------------------
\* Whichever gate a request is at, the invariant is kept.
LEMMA NextGInv == GInv /\ [GatesNext]_gateVars => GInv'
<1> SUFFICES ASSUME GInv, [GatesNext]_gateVars PROVE GInv'
  OBVIOUS
<1>i. /\ GatesTypeOK /\ CountTypeOK /\ CountedTypeOK /\ CountHasWindow
      /\ BeyondAreVetted /\ CountedOnOwn
  BY DEF GInv
<1> USE DEF Verdicts
<1>1. ASSUME NEW r \in Requests, NEW c \in Calls, NEW old \in {0, Life}, SendCall(r, c, old)
      PROVE  GInv'
  <2>0. UNCHANGED <<count, wire, pc, context, verdict, counted, skew>> /\ pc[r] = "arrive"
    BY <1>1 DEF SendCall, vars, Come
  <2>2. ~BeyondGates(r)
    BY <1>i, <2>0 DEF BeyondAreVetted, Vetted
  <2>3. BeyondAreVetted'
    BY <1>1, <1>i, <2>0, <2>2 DEF BeyondAreVetted, Vetted, BeyondGates, SendCall, GatesTypeOK,
                                  Identity
  <2> QED
    BY <2>0, <2>3, <1>1, <1>i, Constants
    DEF GInv, GatesTypeOK, CountTypeOK, CountedTypeOK, CountHasWindow, CountedOnOwn, SendCall
<1>2. ASSUME NEW r \in Requests, NEW status \in {"unauthorized", "forbidden", "none"},
             pc[r] = "arrive", Turned(r, status)
      PROVE  GInv'
  <2>1. ~BeyondGates(r)
    BY <1>2, <1>i DEF BeyondAreVetted, Vetted
  <2>2. BeyondAreVetted'
    BY <1>2, <1>i, <2>1 DEF BeyondAreVetted, Vetted, BeyondGates, Turned, Tell, GatesTypeOK,
                            Identity
  <2>3. GatesTypeOK'
    BY <1>2, <1>i, Constants DEF GatesTypeOK, Turned, Tell
  <2> QED
    BY <2>2, <2>3, <1>2, <1>i
    DEF GInv, CountTypeOK, CountedTypeOK, CountHasWindow, CountedOnOwn, Turned
<1>3. ASSUME NEW r \in Requests, pc[r] = "arrive", Verified(r), Identified(r), SameTenant(r),
             Through(r)
      PROVE  GInv'
  <2>0. ~BeyondGates(r)
    BY <1>3, <1>i DEF BeyondAreVetted, Vetted
  <2>1. /\ call[r].bearer /\ call[r].signed /\ call[r].host = call[r].subdomain
        /\ UNCHANGED <<count, wire, verdict, counted, call, skew>>
    BY <1>3 DEF Verified, SameTenant, Through, Arrive
  <2>2. Identity(r) \in Contexts
    <3>1. call[r] \in Calls
      BY <1>i, <2>1 DEF GatesTypeOK, NoCall
    <3>2. call[r].subdomain \in Tenants /\ call[r].sub \in Subjects
      <4>1. call[r].sub \in Subjects \cup {"missing"}
        BY <3>1, CallsAssumption
      <4> QED
        BY <4>1, <1>3 DEF Identified
    <3> QED
      BY <3>1, <3>2, CallsAssumption DEF Identity
  <2>3. BeyondAreVetted'
    BY <1>3, <1>i, <2>0, <2>1 DEF BeyondAreVetted, Vetted, BeyondGates, Through, Arrive,
                                  Identity, GatesTypeOK
  <2>4. CountedOnOwn'
    BY <1>3, <1>i, <2>0, <2>1 DEF CountedOnOwn, BeyondGates, Through, Arrive, GatesTypeOK,
                                  CountedTypeOK
  <2>5. GatesTypeOK'
    BY <1>3, <1>i, <2>1, <2>2, Constants DEF GatesTypeOK, Through, Arrive
  <2> QED
    BY <2>1, <2>3, <2>4, <2>5, <1>i DEF GInv, CountTypeOK, CountedTypeOK, CountHasWindow
<1>4. ASSUME NEW r \in Requests, PassGates(r) \/ Leave(r) PROVE GInv'
  BY <1>2, <1>3, <1>4 DEF PassGates, Leave
\* Answered, bypassed or gone: the request was vetted before it came to gate 4.
<1>5. ASSUME NEW r \in Requests, Answered(r), UNCHANGED <<call, age, skew>> PROVE GInv'
  <2>0. IncrBothScript(r) /\ UNCHANGED <<wire, context>> /\ pc[r] = "gate"
        /\ Tell(r, IF OverCap(r) THEN "denied" ELSE "allowed")
    BY <1>5 DEF Answered
  <2>1. CountTypeOK' /\ CountHasWindow'
    BY <2>0, <1>i, ScriptCounts
  <2>2. CountedTypeOK' /\ CountedOnOwn' /\ \A c \in Counters : counted'[c] \subseteq counted[c] \cup {r}
    <3>1. UNCHANGED context
      BY <2>0
    <3>2. \A c \in Counters : c \in CountersOf[context[r]] => c \in CountersOf[context'[r]]
      BY <3>1
    <3> QED
      BY <2>0, <3>1, <1>i, ScriptCounted
  <2>3. BeyondAreVetted'
    BY <2>0, <2>2, <1>5, <1>i DEF BeyondAreVetted, Vetted, BeyondGates, Tell, GatesTypeOK, Identity
  <2>4. GatesTypeOK'
    BY <2>0, <1>5, <1>i DEF GatesTypeOK, Tell
  <2> QED
    BY <2>1, <2>2, <2>3, <2>4 DEF GInv
<1>6. ASSUME NEW r \in Requests, FailOpen(r) \/ Disconnect(r), UNCHANGED <<call, age, skew>>
      PROVE  GInv'
  <2>0. /\ pc[r] = "gate" /\ \E v \in Verdicts : Tell(r, v)
        /\ wire' = wire \/ wire' = wire \cup {r}
        /\ UNCHANGED <<count, context, counted>>
    BY <1>6 DEF FailOpen, Disconnect
  <2>3. BeyondAreVetted'
    BY <2>0, <1>6, <1>i DEF BeyondAreVetted, Vetted, BeyondGates, Tell, GatesTypeOK, Identity
  <2>4. GatesTypeOK'
    BY <2>0, <1>6, <1>i DEF GatesTypeOK, Tell
  <2> QED
    BY <2>0, <2>3, <2>4, <1>i DEF GInv, CountTypeOK, CountedTypeOK, CountHasWindow, CountedOnOwn
\* A script nobody waits for counts whoever sent it, who was vetted then.
<1>7. ASSUME Late, UNCHANGED <<call, age, skew>> PROVE GInv'
  <2> PICK r \in wire : /\ wire' = wire \ {r} /\ UNCHANGED <<pc, context, verdict>>
                        /\ IncrBothScript(r) \/ UNCHANGED <<count, counted>>
    BY <1>7 DEF Late
  <2>0. r \in Requests /\ r \in wire
    BY <1>i DEF GatesTypeOK
  <2>1. CountTypeOK' /\ CountHasWindow'
    <3>1. CASE IncrBothScript(r)
      BY <2>0, <3>1, <1>i, ScriptCounts
    <3>2. CASE UNCHANGED <<count, counted>>
      BY <3>2, <1>i DEF CountTypeOK, CountHasWindow
    <3> QED
      BY <3>1, <3>2
  <2>2. CountedTypeOK' /\ CountedOnOwn' /\ \A c \in Counters : counted'[c] \subseteq counted[c] \cup {r}
    <3>1. CASE IncrBothScript(r)
      BY <2>0, <3>1, <1>i, ScriptCounted
    <3>2. CASE UNCHANGED <<count, counted>>
      BY <3>2, <1>i DEF CountedTypeOK, CountedOnOwn
    <3> QED
      BY <3>1, <3>2
  <2>3. BeyondAreVetted'
    BY <2>0, <2>2, <1>7, <1>i DEF BeyondAreVetted, Vetted, BeyondGates, Identity
  <2>4. GatesTypeOK'
    BY <1>7, <1>i DEF GatesTypeOK
  <2> QED
    BY <2>1, <2>2, <2>3, <2>4 DEF GInv
<1>8. CASE GatesTick
  <2>0. Tick /\ UNCHANGED <<call, skew, wire, pc, context, verdict>>
    BY <1>8 DEF GatesTick, Tick
  <2>1. CountTypeOK' /\ CountHasWindow'
    BY <2>0, <1>i, TickCounts
  <2>2. CountedTypeOK' /\ CountedOnOwn' /\ \A c \in Counters : counted'[c] \subseteq counted[c]
    BY <2>0, <1>i DEF Tick, CountedTypeOK, CountedOnOwn
  <2>3. BeyondAreVetted'
    BY <2>0, <2>2, <1>i DEF BeyondAreVetted, Vetted, BeyondGates, Identity
  <2>4. age' \in [Requests -> 0..MaxAge]
    <3>1. \A r \in Requests : age[r] \in 0..MaxAge /\ age'[r] \in 0..MaxAge
      BY <1>8, <1>i, Constants DEF GatesTick, GatesTypeOK
    <3> QED
      BY <1>8, <3>1 DEF GatesTick
  <2> QED
    BY <2>0, <2>1, <2>2, <2>3, <2>4, <1>i DEF GInv, GatesTypeOK
<1>9. CASE Drift
  <2>0. skew' \in -MaxSkew..MaxSkew /\ UNCHANGED <<count, wire, pc, context, verdict, counted, call, age>>
    BY <1>9 DEF Drift, vars
  <2> QED
    BY <2>0, <1>i DEF GInv, GatesTypeOK, CountTypeOK, CountedTypeOK, CountHasWindow,
                      BeyondAreVetted, Vetted, BeyondGates, CountedOnOwn, Identity
<1>10. CASE UNCHANGED gateVars
  BY <1>10, <1>i DEF gateVars, vars, GInv, GatesTypeOK, CountTypeOK, CountedTypeOK, CountHasWindow,
                     BeyondAreVetted, Vetted, BeyondGates, CountedOnOwn, Identity
<1> QED
  BY <1>1, <1>4, <1>5, <1>6, <1>7, <1>8, <1>9, <1>10 DEF GatesNext, GateFour

LEMMA GatesInvariant == GatesSpec => []GInv
BY InitGInv, NextGInv, PTL DEF GatesSpec

\* Nobody who still waits was told anything.
WaitingUntold == \A r \in Requests : pc[r] # "done" => verdict[r] = "none"

LEMMA WaitingInvariant == GatesSpec => []WaitingUntold
<1>1. GatesInit => WaitingUntold
  BY DEF GatesInit, Init, WaitingUntold
<1>2. GInv /\ WaitingUntold /\ [GatesNext]_gateVars => WaitingUntold'
  <2> SUFFICES ASSUME GatesTypeOK, WaitingUntold, [GatesNext]_gateVars PROVE WaitingUntold'
    BY DEF GInv
  <2>1. ASSUME UNCHANGED <<pc, verdict>> PROVE WaitingUntold'
    BY <2>1 DEF WaitingUntold
  <2>2. ASSUME NEW r \in Requests, NEW v, Tell(r, v) PROVE WaitingUntold'
    BY <2>2 DEF WaitingUntold, Tell, GatesTypeOK
  <2>3. ASSUME NEW r \in Requests, PassGates(r) \/ Leave(r) PROVE WaitingUntold'
    <3>1. CASE Through(r) /\ pc[r] = "arrive"
      BY <3>1 DEF Through, Arrive, WaitingUntold, GatesTypeOK
    <3> QED
      BY <2>2, <2>3, <3>1 DEF PassGates, Leave, Turned
  <2>4. CASE GateFour
    BY <2>1, <2>2, <2>4 DEF GateFour, Answered, FailOpen, Disconnect, Late
  <2>5. CASE GatesTick \/ Drift \/ UNCHANGED gateVars
    BY <2>1, <2>5 DEF GatesTick, Tick, Drift, gateVars, vars
  <2>6. ASSUME NEW r \in Requests, NEW c \in Calls, NEW old \in {0, Life}, SendCall(r, c, old)
        PROVE  WaitingUntold'
    BY <2>1, <2>6 DEF SendCall, vars
  <2> QED
    BY <2>3, <2>4, <2>5, <2>6 DEF GatesNext
<1> QED
  BY <1>1, <1>2, GatesInvariant, PTL DEF GatesSpec

\* The types of the gate chain.
THEOREM GatesTyped == GatesSpec => []GatesTypeOK
BY GatesInvariant, PTL DEF GInv

\* A counter holds only requests with a verified token naming the tenant and the
\* user it counts, over that tenant's host, for any callers and counters.
THEOREM GatesCountedAsWhoTheyAre == GatesSpec => []CountedAsWhoTheyAre
<1>1. GInv => CountedAsWhoTheyAre
  BY DEF GInv, CountedAsWhoTheyAre, BeyondAreVetted, BeyondGates, Vetted, CountedOnOwn,
         CountedTypeOK, Identity
<1> QED
  BY <1>1, GatesInvariant, PTL

\* Every count is inside a window that only runs down, whatever counters an
\* older deployment left and however late a script runs.
THEOREM GatesCountInsideAWindow == GatesSpec => CountsInsideAWindow
<1> DEFINE Inside(c) == /\ count'[c].n > count[c].n => count'[c].ttl > 0
                        /\ count[c].ttl > 0 => count'[c].ttl <= count[c].ttl
<1>1. ASSUME GInv, [GatesNext]_gateVars PROVE [\A c \in Counters : Inside(c)]_vars
  <2>i. GatesTypeOK /\ CountTypeOK /\ CountHasWindow
    BY <1>1 DEF GInv
  <2>1. CASE UNCHANGED count
    <3>1. \A c \in Counters : count[c] \in [n : Nat, ttl : -1..Window]
      BY <2>i DEF CountTypeOK
    <3>2. \A c \in Counters : count[c].n \in Nat /\ count[c].ttl \in -1..Window
      BY <3>1
    <3> QED
      BY <2>1, <3>2, Constants
  <2>2. ASSUME NEW r \in Requests, IncrBothScript(r) PROVE \A c \in Counters : Inside(c)
    BY <2>2, <2>i, ScriptCounts
  <2>3. ASSUME Tick PROVE \A c \in Counters : Inside(c)
    BY <2>3, <2>i, TickCounts
  <2>4. UNCHANGED count \/ Tick \/ \E r \in Requests : IncrBothScript(r)
    BY <1>1, <2>i DEF GatesNext, gateVars, vars, SendCall, PassGates, Turned, Through, Arrive,
                      Leave, GateFour, Answered, FailOpen, Disconnect, Late, GatesTick, Drift,
                      GatesTypeOK
  <2> QED
    BY <2>1, <2>2, <2>3, <2>4
<1> QED
  BY <1>1, GatesInvariant, PTL DEF GatesSpec, CountsInsideAWindow

\* Clocks no further apart than the leeway refuse no token in its lifetime and
\* serve none a drift and a leeway after it, however they are set while it waits.
THEOREM GatesSkewTolerated == GatesSpec => SkewTolerated
<1> DEFINE Fair(r) ==
      pc[r] = "arrive" /\ pc'[r] # "arrive" =>
          /\ verdict'[r] = "unauthorized" /\ call[r].bearer /\ call[r].signed /\ Identified(r)
               => age[r] >= Life
          /\ pc'[r] = "gate" => age[r] < Life + Leeway + MaxSkew
<1>1. ASSUME GInv, WaitingUntold, [GatesNext]_gateVars, NEW r \in Requests PROVE Fair(r)
  <2>i. GatesTypeOK
    BY <1>1 DEF GInv
  <2>t. age[r] \in 0..MaxAge /\ skew \in -MaxSkew..MaxSkew
    BY <2>i DEF GatesTypeOK
  <2>1. CASE PassGates(r)
    <3>1. CASE Turned(r, "unauthorized") /\ ~(Verified(r) /\ Identified(r))
      <4>1. pc'[r] = "done" /\ (call[r].bearer /\ call[r].signed /\ Identified(r) => ~InTime(r))
        BY <3>1, <2>i DEF Turned, Tell, Verified, GatesTypeOK
      <4>2. ~InTime(r) => age[r] >= Life
        BY <2>t, Constants DEF InTime, Elapsed
      <4> QED
        BY <4>1, <4>2
    <3>2. CASE Turned(r, "forbidden")
      BY <3>2, <2>i DEF Turned, Tell, GatesTypeOK
    <3>3. CASE Through(r) /\ Verified(r)
      <4>1. verdict'[r] = "none" /\ InTime(r)
        BY <3>3, <2>i, <1>1 DEF Through, Arrive, Verified, GatesTypeOK, WaitingUntold
      <4>2. InTime(r) => age[r] < Life + Leeway + MaxSkew
        BY <2>t, Constants DEF InTime, Elapsed
      <4> QED
        BY <4>1, <4>2
    <3> QED
      BY <2>1, <3>1, <3>2, <3>3 DEF PassGates
  <2>2. CASE Leave(r)
    BY <2>2, <2>i DEF Leave, Turned, Tell, GatesTypeOK
  <2>3. CASE ~PassGates(r) /\ ~Leave(r)
    <3>1. pc[r] = "arrive" => pc'[r] = "arrive"
      BY <1>1, <2>i, <2>3 DEF GatesNext, gateVars, vars, SendCall, PassGates, Turned, Tell, Through,
           Arrive, Leave, GateFour, Answered, FailOpen, Disconnect, Late, GatesTick, Tick, Drift,
           GatesTypeOK
    <3> QED
      BY <3>1
  <2> QED
    BY <2>1, <2>2, <2>3
<1>2. GInv /\ WaitingUntold /\ [GatesNext]_gateVars => [\A r \in Requests : Fair(r)]_gateVars
  BY <1>1
<1> QED
  BY <1>2, GatesInvariant, WaitingInvariant, PTL DEF GatesSpec, SkewTolerated

-----------------------------------------------------------------------------
(* The caps *)

\* A verdict is final for whoever is counted, or may yet be counted late.
CountedAreDone ==
    /\ \A c \in Counters : \A r \in counted[c] : pc[r] = "done"
    /\ \A r \in wire : pc[r] = "done" /\ verdict[r] # "allowed"

\* A counter shows at least what the requests on it charged.
CountCovers ==
    \A c \in Counters : /\ IsFiniteSet(Units(counted[c]))
                        /\ Cardinality(Units(counted[c])) <= count[c].n

QuotaInv == CountedAreDone /\ CountCovers /\ AdmittedWithinCap

\* One more request adds at most its own amount.
LEMMA UnitsAdd ==
    ASSUME NEW S, IsFiniteSet(Units(S)), NEW r \in Requests
    PROVE  /\ IsFiniteSet(Units(S \cup {r}))
           /\ Cardinality(Units(S)) \in Nat
           /\ Cardinality(Units(S \cup {r})) <= Cardinality(Units(S)) + Amount[r]
<1> DEFINE own == {r} \X (1..Amount[r])
<1>1. Units(S \cup {r}) = Units(S) \cup own
  BY DEF Units
<1>2. Amount[r] \in Nat \ {0}
  BY Constants
<1>3. IsFiniteSet(own) /\ Cardinality(own) = Amount[r]
  <2>1. IsFiniteSet({r}) /\ Cardinality({r}) = 1
    BY FS_Singleton
  <2>2. IsFiniteSet(1..Amount[r]) /\ Cardinality(1..Amount[r]) = Amount[r]
    BY <1>2, FS_Interval
  <2> DEFINE one == {r}
             units == 1..Amount[r]
  <2> HIDE DEF one, units
  <2>3. IsFiniteSet(one) /\ Cardinality(one) = 1
    BY <2>1 DEF one
  <2>4. IsFiniteSet(units) /\ Cardinality(units) = Amount[r]
    BY <2>2 DEF units
  <2>5. IsFiniteSet(one \X units) /\ Cardinality(one \X units) = Cardinality(one) * Cardinality(units)
    BY <2>3, <2>4, FS_Product
  <2>6. Cardinality(own) = 1 * Amount[r]
    BY <2>3, <2>4, <2>5 DEF one, units
  <2>7. IsFiniteSet(own)
    BY <2>5 DEF one, units
  <2> QED
    BY <1>2, <2>6, <2>7
<1> HIDE DEF own
<1>4. /\ IsFiniteSet(Units(S) \cup own)
      /\ Cardinality(Units(S) \cup own) =
            Cardinality(Units(S)) + Cardinality(own) - Cardinality(Units(S) \cap own)
  BY <1>3, FS_Union
<1>5. Cardinality(Units(S)) \in Nat
  BY FS_CardinalityType
<1>6. Cardinality(Units(S) \cap own) \in Nat
  <2>1. IsFiniteSet(Units(S) \cap own)
    BY <1>3, FS_Subset
  <2> QED
    BY <2>1, FS_CardinalityType
<1>7. Cardinality(Units(S) \cup own) <= Cardinality(Units(S)) + Amount[r]
  BY <1>2, <1>3, <1>4, <1>5, <1>6
<1> QED
  BY <1>1, <1>4, <1>5, <1>7

\* Fewer requests, fewer units.
LEMMA UnitsSubset ==
    ASSUME NEW S, IsFiniteSet(Units(S)), NEW T \in SUBSET S
    PROVE  IsFiniteSet(Units(T)) /\ Cardinality(Units(T)) <= Cardinality(Units(S))
<1>1. Units(T) \subseteq Units(S)
  BY DEF Units
<1> QED
  BY <1>1, FS_Subset

LEMMA NoUnits == IsFiniteSet(Units({})) /\ Cardinality(Units({})) = 0
<1>1. Units({}) = {}
  BY DEF Units
<1> QED
  BY <1>1, FS_EmptySet

\* Whatever leaves the counters alone and tells nobody twice keeps the caps.
LEMMA QuotaUntouched ==
    ASSUME GInv, QuotaInv, UNCHANGED <<count, counted>>, wire' \subseteq Requests,
           \A q \in Requests : pc[q] = "done" => pc'[q] = "done" /\ verdict'[q] = verdict[q],
           \A q \in wire' : q \in wire \/ (pc'[q] = "done" /\ verdict'[q] # "allowed")
    PROVE  QuotaInv'
<1>1. \A c \in Counters : counted[c] \subseteq Requests
  BY DEF GInv, CountedTypeOK
<1>2. wire \subseteq Requests
  BY DEF GInv, GatesTypeOK
<1>3. CountedAreDone'
  BY <1>1, <1>2 DEF QuotaInv, CountedAreDone
<1>4. CountCovers'
  BY DEF QuotaInv, CountCovers, Units
<1>5. \A c \in Counters : Admitted(c)' = Admitted(c)
  BY <1>1 DEF QuotaInv, CountedAreDone, Admitted
<1>6. AdmittedWithinCap'
  BY <1>5 DEF QuotaInv, AdmittedWithinCap, Units
<1> QED
  BY <1>3, <1>4, <1>6 DEF QuotaInv

\* The script moves every counter of the request by at least its units.
LEMMA ScriptCovers ==
    ASSUME GInv, QuotaInv, NEW r \in Requests, IncrBothScript(r)
    PROVE  CountCovers'
<1> SUFFICES ASSUME NEW c \in Counters
             PROVE  /\ IsFiniteSet(Units(counted'[c]))
                    /\ Cardinality(Units(counted'[c])) <= count'[c].n
  BY DEF CountCovers, Units
<1>1. /\ IsFiniteSet(Units(counted[c])) /\ Cardinality(Units(counted[c])) <= count[c].n
      /\ count[c].n \in Nat /\ Amount[r] \in Nat
  BY Constants DEF QuotaInv, CountCovers, GInv, CountTypeOK
<1>2. CASE c \in CountersOf[context[r]]
  <2>1. counted'[c] = counted[c] \cup {r} /\ count'[c].n = count[c].n + Amount[r]
    BY <1>2 DEF IncrBothScript, IncrBy
  <2>2. /\ IsFiniteSet(Units(counted[c] \cup {r})) /\ Cardinality(Units(counted[c])) \in Nat
        /\ Cardinality(Units(counted[c] \cup {r})) <= Cardinality(Units(counted[c])) + Amount[r]
        /\ Cardinality(Units(counted[c] \cup {r})) \in Nat
    BY <1>1, UnitsAdd, FS_CardinalityType
  <2>3. Cardinality(Units(counted[c] \cup {r})) <= count[c].n + Amount[r]
    BY <1>1, <2>2
  <2> QED
    BY <2>1, <2>2, <2>3
<1>3. CASE c \notin CountersOf[context[r]]
  BY <1>1, <1>3 DEF IncrBothScript
<1> QED
  BY <1>2, <1>3

\* The gate answers: what it allows is under both caps, itself included.
LEMMA AnsweredQuota ==
    ASSUME GInv, QuotaInv, NEW r \in Requests, Answered(r)
    PROVE  QuotaInv'
<1>0. /\ pc[r] = "gate" /\ IncrBothScript(r) /\ UNCHANGED <<wire, context>>
      /\ Tell(r, IF OverCap(r) THEN "denied" ELSE "allowed")
  BY DEF Answered
<1>1. /\ \A c \in Counters : counted[c] \subseteq Requests /\ r \notin counted[c]
      /\ r \notin wire /\ wire \subseteq Requests
      /\ pc'[r] = "done" /\ verdict'[r] = IF OverCap(r) THEN "denied" ELSE "allowed"
      /\ \A q \in Requests \ {r} : pc'[q] = pc[q] /\ verdict'[q] = verdict[q]
  BY <1>0 DEF GInv, GatesTypeOK, CountedTypeOK, QuotaInv, CountedAreDone, Tell
<1>2. \A c \in Counters : counted'[c] = counted[c] \/
         (counted'[c] = counted[c] \cup {r} /\ c \in CountersOf[context[r]])
  BY <1>0 DEF IncrBothScript
<1>3. CountedAreDone'
  BY <1>0, <1>1, <1>2 DEF QuotaInv, CountedAreDone
<1>4. CountCovers'
  BY <1>0, ScriptCovers
<1>5. ASSUME NEW c \in Counters PROVE Cardinality(Units(Admitted(c)')) <= Limit[c]
  <2>1. CASE Admitted(c)' = Admitted(c)
    BY <2>1 DEF QuotaInv, AdmittedWithinCap
  <2>2. CASE Admitted(c)' # Admitted(c)
    <3>1. c \in CountersOf[context[r]] /\ ~OverCap(r)
      BY <1>1, <1>2, <2>2 DEF Admitted
    <3>2. count'[c].n \in Nat /\ Limit[c] \in Nat
      <4>1. CountTypeOK'
        BY <1>0, ScriptCounts DEF GInv
      <4> QED
        BY <4>1, LimitsAssumption DEF CountTypeOK
    <3>3. count'[c].n <= Limit[c]
      BY <3>1, <3>2 DEF OverCap
    <3>4. Admitted(c)' \in SUBSET counted'[c]
      BY DEF Admitted
    <3>5. IsFiniteSet(Units(counted'[c])) /\ Cardinality(Units(counted'[c])) <= count'[c].n
      BY <1>4 DEF CountCovers, Units
    <3>6. /\ IsFiniteSet(Units(Admitted(c)'))
          /\ Cardinality(Units(Admitted(c)')) <= Cardinality(Units(counted'[c]))
      BY <3>4, <3>5, UnitsSubset
    <3>7. Cardinality(Units(Admitted(c)')) \in Nat /\ Cardinality(Units(counted'[c])) \in Nat
      BY <3>5, <3>6, FS_CardinalityType
    <3> QED
      BY <3>2, <3>3, <3>5, <3>6, <3>7
  <2> QED
    BY <2>1, <2>2
<1>6. AdmittedWithinCap'
  BY <1>5 DEF AdmittedWithinCap, Units
<1> QED
  BY <1>3, <1>4, <1>6 DEF QuotaInv

\* A script nobody waits for counts a request that was never allowed.
LEMMA LateQuota ==
    ASSUME GInv, QuotaInv, NEW r \in wire, wire' = wire \ {r}, IncrBothScript(r),
           UNCHANGED <<pc, context, verdict>>
    PROVE  QuotaInv'
<1>0. r \in Requests /\ pc[r] = "done" /\ verdict[r] # "allowed"
  BY DEF GInv, GatesTypeOK, QuotaInv, CountedAreDone
<1>1. \A c \in Counters : counted'[c] = counted[c] \/ counted'[c] = counted[c] \cup {r}
  BY DEF IncrBothScript
<1>2. CountedAreDone'
  BY <1>0, <1>1 DEF QuotaInv, CountedAreDone
<1>3. CountCovers'
  BY <1>0, ScriptCovers
<1>4. \A c \in Counters : Admitted(c)' = Admitted(c)
  BY <1>0, <1>1 DEF Admitted
<1>5. AdmittedWithinCap'
  BY <1>4 DEF QuotaInv, AdmittedWithinCap, Units
<1> QED
  BY <1>2, <1>3, <1>5 DEF QuotaInv

\* A counter that expires takes its requests with it.
LEMMA TickQuota == ASSUME GInv, QuotaInv, Tick PROVE QuotaInv'
<1>0. UNCHANGED <<wire, pc, context, verdict>>
  BY DEF Tick
<1>1. ASSUME NEW c \in Counters
      PROVE  \/ counted'[c] = {} /\ count'[c].n = 0
             \/ counted'[c] = counted[c] /\ count'[c].n = count[c].n
  BY DEF Tick, Gone, GInv, CountTypeOK
<1>2. CountedAreDone'
  BY <1>0, <1>1 DEF QuotaInv, CountedAreDone
<1>3. ASSUME NEW c \in Counters
      PROVE  /\ IsFiniteSet(Units(counted'[c]))
             /\ Cardinality(Units(counted'[c])) <= count'[c].n
             /\ Cardinality(Units(Admitted(c)')) <= Limit[c]
  <2>1. CASE counted'[c] = {} /\ count'[c].n = 0
    <3>1. Admitted(c)' = {} /\ Limit[c] \in Nat
      BY <2>1, LimitsAssumption DEF Admitted
    <3> QED
      BY <2>1, <3>1, NoUnits
  <2>2. CASE counted'[c] = counted[c] /\ count'[c].n = count[c].n
    <3>1. Admitted(c)' = Admitted(c)
      BY <1>0, <2>2 DEF Admitted
    <3> QED
      BY <2>2, <3>1 DEF QuotaInv, CountCovers, AdmittedWithinCap
  <2> QED
    BY <1>1, <2>1, <2>2
<1>4. CountCovers' /\ AdmittedWithinCap'
  BY <1>3 DEF CountCovers, AdmittedWithinCap, Units
<1> QED
  BY <1>2, <1>4 DEF QuotaInv

\* Nothing is counted at first, whatever an older deployment left.
LEMMA InitQuota == GatesInit => QuotaInv
<1> SUFFICES ASSUME GatesInit PROVE QuotaInv
  OBVIOUS
<1>1. CountTypeOK
  BY InitGInv DEF GInv
<1>2. wire = {} /\ \A c \in Counters : counted[c] = {} /\ count[c].n \in Nat /\ Limit[c] \in Nat
  BY <1>1, LimitsAssumption DEF GatesInit, Init, CountTypeOK
<1>3. \A c \in Counters : Admitted(c) = {}
  BY <1>2 DEF Admitted
<1>4. CountedAreDone
  BY <1>2 DEF CountedAreDone
<1>5. ASSUME NEW c \in Counters
      PROVE  /\ IsFiniteSet(Units(counted[c])) /\ Cardinality(Units(counted[c])) <= count[c].n
             /\ Cardinality(Units(Admitted(c))) <= Limit[c]
  <2>1. counted[c] = {} /\ Admitted(c) = {} /\ count[c].n \in Nat /\ Limit[c] \in Nat
    BY <1>2, <1>3
  <2> QED
    BY <2>1, NoUnits
<1> QED
  BY <1>4, <1>5 DEF QuotaInv, CountCovers, AdmittedWithinCap

LEMMA NextQuota == GInv /\ QuotaInv /\ [GatesNext]_gateVars => QuotaInv'
<1> SUFFICES ASSUME GInv, QuotaInv, [GatesNext]_gateVars PROVE QuotaInv'
  OBVIOUS
<1>i. GatesTypeOK
  BY DEF GInv
<1>1. ASSUME UNCHANGED <<count, wire, pc, verdict, counted>> PROVE QuotaInv'
  BY <1>1, <1>i, QuotaUntouched DEF GatesTypeOK
<1>2. ASSUME NEW r \in Requests, PassGates(r) \/ Leave(r) PROVE QuotaInv'
  <2>1. /\ pc[r] = "arrive" /\ UNCHANGED <<count, wire, counted>>
        /\ \A q \in Requests \ {r} : pc'[q] = pc[q] /\ verdict'[q] = verdict[q]
    BY <1>2, <1>i DEF PassGates, Leave, Turned, Through, Arrive, Tell, GatesTypeOK
  <2>2. \A q \in Requests : pc[q] = "done" => pc'[q] = "done" /\ verdict'[q] = verdict[q]
    BY <2>1
  <2> QED
    BY <1>i, <2>1, <2>2, QuotaUntouched DEF GatesTypeOK
<1>3. ASSUME NEW r \in Requests, FailOpen(r) \/ Disconnect(r) PROVE QuotaInv'
  <2>1. /\ pc[r] = "gate" /\ UNCHANGED <<count, counted>> /\ wire' \subseteq wire \cup {r}
        /\ pc'[r] = "done" /\ verdict'[r] # "allowed"
        /\ \A q \in Requests \ {r} : pc'[q] = pc[q] /\ verdict'[q] = verdict[q]
    BY <1>3, <1>i DEF FailOpen, Disconnect, Tell, GatesTypeOK
  <2>2. \A q \in Requests : pc[q] = "done" => pc'[q] = "done" /\ verdict'[q] = verdict[q]
    BY <2>1
  <2> QED
    BY <1>i, <2>1, <2>2, QuotaUntouched DEF GatesTypeOK
<1>4. ASSUME Late PROVE QuotaInv'
  <2> PICK r \in wire : /\ wire' = wire \ {r} /\ UNCHANGED <<pc, context, verdict>>
                        /\ IncrBothScript(r) \/ UNCHANGED <<count, counted>>
    BY <1>4 DEF Late
  <2>1. CASE IncrBothScript(r)
    BY <2>1, LateQuota
  <2>2. CASE UNCHANGED <<count, counted>>
    BY <1>i, <2>2, QuotaUntouched DEF GatesTypeOK
  <2> QED
    BY <2>1, <2>2
<1>5. CASE GatesTick
  BY <1>5, TickQuota DEF GatesTick
<1>6. ASSUME NEW r \in Requests, NEW c \in Calls, NEW old \in {0, Life}, SendCall(r, c, old)
      PROVE  QuotaInv'
  BY <1>1, <1>6 DEF SendCall, vars
<1> QED
  BY <1>1, <1>2, <1>3, <1>4, <1>5, <1>6, AnsweredQuota
  DEF GatesNext, GateFour, Drift, gateVars, vars

\* What a counter's allowed requests charge together never passes its cap, for
\* any amounts, caps and leftovers, however late the scripts run.
THEOREM GatesAdmittedWithinCap == GatesSpec => []AdmittedWithinCap
<1>1. GatesSpec => []QuotaInv
  BY InitQuota, NextQuota, GatesInvariant, PTL DEF GatesSpec
<1>2. QuotaInv => AdmittedWithinCap
  BY DEF QuotaInv
<1> QED
  BY <1>1, <1>2, PTL

-----------------------------------------------------------------------------
(* Gate 4 behind the other gates is gate 4: whom gates 1 and 2 turned away *)
(* never came to it, and everybody else comes as one of its callers.       *)

PcAtFour == [r \in Requests |-> IF call[r] = NoCall THEN "arrive" ELSE pc[r]]
VerdictAtFour == [r \in Requests |-> IF call[r] = NoCall THEN "none" ELSE verdict[r]]

Four == INSTANCE CostGate WITH pc <- PcAtFour, verdict <- VerdictAtFour

\* Nobody is told anything before it is turned away or counted.
UntoldBefore == \A r \in Requests : pc[r] = "arrive" => verdict[r] = "none"

LEMMA NextUntold == GatesTypeOK /\ UntoldBefore /\ [GatesNext]_gateVars => UntoldBefore'
BY DEF GatesTypeOK, UntoldBefore, GatesNext, gateVars, vars, SendCall, PassGates, Leave, Turned,
       Through, Arrive, GateFour, Answered, FailOpen, Disconnect, Late, Tell, GatesTick, Tick, Drift

\* A step that tells r something at gate 4 tells it there too.
LEMMA ToldAtFour ==
    ASSUME GatesTypeOK, NEW r \in Requests, call[r] # NoCall, call' = call,
           NEW v, Tell(r, v)
    PROVE  Four!Tell(r, v)
BY DEF GatesTypeOK, Tell, Four!Tell, PcAtFour, VerdictAtFour

\* Every step of the chain is a step of gate 4, or none.
LEMMA NextFour ==
    ASSUME GInv, UntoldBefore, [GatesNext]_gateVars
    PROVE  [Four!Next]_Four!vars
<1>i. GatesTypeOK /\ \A r \in Requests : pc[r] = "gate" => call[r] # NoCall
  BY DEF GInv, BeyondAreVetted, BeyondGates, Vetted, NoCall
<1> USE DEF Four!vars
<1>1. ASSUME NEW r \in Requests, NEW c \in Calls, NEW old \in {0, Life}, SendCall(r, c, old)
      PROVE  UNCHANGED Four!vars
  <2>1. /\ UNCHANGED vars /\ call[r] = NoCall /\ pc[r] = "arrive" /\ verdict[r] = "none"
        /\ \A q \in Requests \ {r} : call'[q] = call[q]
    BY <1>1, <1>i DEF SendCall, Come, UntoldBefore, GatesTypeOK
  <2> QED
    BY <2>1 DEF vars, PcAtFour, VerdictAtFour
<1>2. ASSUME NEW r \in Requests, NEW status, pc[r] = "arrive", Turned(r, status)
      PROVE  UNCHANGED Four!vars
  <2>1. /\ UNCHANGED <<count, wire, context, counted>>
        /\ pc[r] = "arrive" /\ verdict[r] = "none" /\ call'[r] = NoCall
        /\ \A q \in Requests \ {r} : call'[q] = call[q] /\ pc'[q] = pc[q] /\ verdict'[q] = verdict[q]
    BY <1>2, <1>i DEF Turned, Tell, UntoldBefore, GatesTypeOK
  <2> QED
    BY <2>1 DEF PcAtFour, VerdictAtFour
<1>3. ASSUME NEW r \in Requests, Verified(r), Identified(r), Through(r) PROVE Four!Next
  <2>1. call[r] # NoCall /\ call' = call /\ call[r] \in Calls
    BY <1>3, <1>i DEF Verified, Through, NoCall, GatesTypeOK
  <2>2. Identity(r) \in Contexts
    <3>1. call[r].subdomain \in Tenants /\ call[r].sub \in Subjects
      BY <1>3, <2>1, CallsAssumption DEF Identified
    <3> QED
      BY <2>1, <3>1, CallsAssumption DEF Identity
  <2>3. Four!Arrive(r, Identity(r))
    BY <1>3, <1>i, <2>1 DEF Through, Arrive, Four!Arrive, PcAtFour, VerdictAtFour, GatesTypeOK
  <2> QED
    BY <2>2, <2>3 DEF Four!Next
<1>4. ASSUME NEW r \in Requests, Answered(r), call' = call PROVE Four!Next
  <2>1. /\ pc[r] = "gate" /\ call[r] # NoCall
        /\ IncrBothScript(r) /\ UNCHANGED <<wire, context>>
        /\ Tell(r, IF OverCap(r) THEN "denied" ELSE "allowed")
    BY <1>4, <1>i DEF Answered
  <2>2. Four!Tell(r, IF OverCap(r) THEN "denied" ELSE "allowed")
    BY <1>4, <1>i, <2>1, ToldAtFour
  <2>3. Four!IncrBothScript(r) /\ (Four!OverCap(r) <=> OverCap(r)) /\ PcAtFour[r] = "gate"
    BY <2>1 DEF IncrBothScript, Four!IncrBothScript, OverCap, Four!OverCap, IncrBy, Four!IncrBy,
                NoExpiry, Four!NoExpiry, PcAtFour
  <2>4. Four!Answered(r)
    BY <2>1, <2>2, <2>3 DEF Four!Answered
  <2> QED
    BY <2>4 DEF Four!Next
<1>5. ASSUME NEW r \in Requests, FailOpen(r) \/ Disconnect(r), call' = call PROVE Four!Next
  <2>1. pc[r] = "gate" /\ call[r] # NoCall /\ PcAtFour[r] = "gate"
    BY <1>5, <1>i DEF FailOpen, Disconnect, PcAtFour
  <2>2. CASE FailOpen(r)
    <3>1. Four!Tell(r, "bypassed")
      BY <1>5, <1>i, <2>1, <2>2, ToldAtFour DEF FailOpen
    <3>2. Four!FailOpen(r)
      BY <2>1, <2>2, <3>1 DEF FailOpen, Four!FailOpen
    <3> QED
      BY <3>2 DEF Four!Next
  <2>3. CASE Disconnect(r)
    <3>1. Four!Tell(r, "none")
      BY <1>5, <1>i, <2>1, <2>3, ToldAtFour DEF Disconnect
    <3>2. Four!Disconnect(r)
      BY <2>1, <2>3, <3>1 DEF Disconnect, Four!Disconnect
    <3> QED
      BY <3>2 DEF Four!Next
  <2> QED
    BY <1>5, <2>2, <2>3
<1>6. ASSUME Late, call' = call PROVE Four!Next
  <2>1. Four!Late
    BY <1>6 DEF Late, Four!Late, IncrBothScript, Four!IncrBothScript, IncrBy, Four!IncrBy,
                NoExpiry, Four!NoExpiry, PcAtFour, VerdictAtFour
  <2> QED
    BY <2>1 DEF Four!Next
<1>7. ASSUME GatesTick PROVE Four!Next
  <2>1. Four!Tick
    BY <1>7 DEF GatesTick, Tick, Four!Tick, Expiring, Four!Expiring, Gone, Four!Gone,
                PcAtFour, VerdictAtFour
  <2> QED
    BY <2>1 DEF Four!Next
<1>8. ASSUME UNCHANGED <<vars, call>> PROVE UNCHANGED Four!vars
  BY <1>8 DEF vars, PcAtFour, VerdictAtFour
<1>9. ASSUME NEW r \in Requests, PassGates(r) \/ Leave(r) PROVE [Four!Next]_Four!vars
  BY <1>2, <1>3, <1>9 DEF PassGates, Leave
<1> QED
  BY <1>1, <1>4, <1>5, <1>6, <1>7, <1>8, <1>9 DEF GatesNext, GateFour, Drift, gateVars

\* The whole chain implements CostGate: the gates before it, the clocks and the
\* tokens only decide who comes, so what CostGate promises holds behind them.
THEOREM GatesImplementCostGate == GatesSpec => Four!Spec
<1>1. GatesInit => Four!Init /\ UntoldBefore
  <2> SUFFICES ASSUME GatesInit PROVE Four!Init /\ UntoldBefore
    OBVIOUS
  <2>1. PcAtFour = [r \in Requests |-> "arrive"] /\ VerdictAtFour = [r \in Requests |-> "none"]
    BY DEF GatesInit, PcAtFour, VerdictAtFour
  <2> QED
    BY <2>1 DEF GatesInit, Init, Four!Init, UntoldBefore, Four!Gone, Gone, Four!NoExpiry, NoExpiry,
                Four!NoContext, NoContext
<1>2. GInv /\ UntoldBefore /\ [GatesNext]_gateVars => UntoldBefore'
  BY NextUntold DEF GInv
<1>3. GInv /\ UntoldBefore /\ [GatesNext]_gateVars => [Four!Next]_Four!vars
  BY NextFour
<1> QED
  BY <1>1, <1>2, <1>3, GatesInvariant, PTL DEF GatesSpec, Four!Spec
=============================================================================
