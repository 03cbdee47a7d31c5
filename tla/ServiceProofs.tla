----------------------------- MODULE ServiceProofs -----------------------------
(***************************************************************************)
(* Safety of the service for any number of requests, any cap on requests   *)
(* and bodies, any deployments and any grace longer than a route runs.     *)
(* The first part is about one request inside the middlewares, the second  *)
(* about the app around them.                                              *)
(***************************************************************************)
EXTENDS Service, FiniteSetTheorems, TLAPS

RequestsTyped ==
    /\ pc \in [Requests -> PC] /\ kind \in [Requests -> Kind]
    /\ received \in [Requests -> Nat] /\ refused \in [Requests -> BOOLEAN]
    /\ answers \in [Requests -> Seq(Nat)]

\* Nobody is answered before the route is over, or before the refusal.
Unanswered(r) ==
    pc[r] \in {"arrive", "read", "gates", "cost", "handler"} => answers[r] = <<>> /\ ~refused[r]
\* What was read is within the cap, and so is a body that was read to its end.
ReadWithinCap(r) ==
    /\ pc[r] \in {"arrive", "read"} => received[r] <= Cap
    /\ pc[r] \in {"gates", "cost", "handler"} /\ kind[r].route = "body" => kind[r].size <= Cap
\* One answer, and a 413 only for a body that is or claims to be too long.
OneAnswer(r) ==
    \/ answers[r] = <<>>
    \/ \E s \in Nat : /\ answers[r] = <<s>>
                      /\ s = 413 => Declares(kind[r]) \/ kind[r].size > Cap
RefusedIsDone(r) == refused[r] => answers[r] = <<413>> /\ pc[r] = "done"

RequestOK(r) == Unanswered(r) /\ ReadWithinCap(r) /\ OneAnswer(r) /\ RefusedIsDone(r)

Occupied == {r \in Requests : Inside(r)}
SlotsCounted == count = Cardinality(Occupied) /\ count <= MaxInflight

IngressInv == RequestsTyped /\ SlotsCounted /\ \A r \in Requests : RequestOK(r)

-----------------------------------------------------------------------------
(* One request *)

LEMMA KindFields ==
    ASSUME NEW k \in Kind
    PROVE  /\ k.route \in {"exempt", "plain", "body"} /\ k.declared \in Int /\ k.size \in Nat
           /\ FirstAwait(k) \in {"handler", "gates", "read"}
           /\ k.route = "body" <=> FirstAwait(k) = "read"
           /\ k.route # "exempt" => FirstAwait(k) \in PC \ {"arrive", "done"}
BY LimitsAssumption DEF Kind, NoLength, FirstAwait, PC

LEMMA OccupiedFinite == IsFiniteSet(Occupied) /\ Cardinality(Occupied) \in Nat
BY RequestsAssumption, FS_Subset, FS_CardinalityType DEF Occupied

\* A step of one request leaves the others as they are.
Only(r) == \A q \in Requests \ {r} :
             /\ pc'[q] = pc[q] /\ kind'[q] = kind[q] /\ received'[q] = received[q]
             /\ refused'[q] = refused[q] /\ answers'[q] = answers[q]

LEMMA ElsewhereOK ==
    ASSUME NEW r \in Requests, Only(r), \A q \in Requests : RequestOK(q), RequestOK(r)'
    PROVE  \A q \in Requests : RequestOK(q)'
BY DEF Only, RequestOK, Unanswered, ReadWithinCap, OneAnswer, RefusedIsDone, Declares

\* Slots follow the one request that moved.
LEMMA SlotsFollow ==
    ASSUME SlotsCounted, NEW r \in Requests, Only(r),
           \/ ~Inside(r) /\ Inside(r)' /\ count' = count + 1 /\ HasRoom
           \/ Inside(r) /\ ~Inside(r)' /\ count' = count - 1
           \/ (Inside(r) <=> Inside(r)') /\ count' = count
    PROVE  SlotsCounted'
<1>1. \A q \in Requests \ {r} : Inside(q) = Inside(q)'
  BY DEF Only, Inside
<1>2. IsFiniteSet(Occupied) /\ Cardinality(Occupied) \in Nat
  BY OccupiedFinite
<1>3. count = Cardinality(Occupied) /\ count <= MaxInflight /\ MaxInflight \in Nat
  BY LimitsAssumption DEF SlotsCounted
<1>4. CASE ~Inside(r) /\ Inside(r)' /\ count' = count + 1 /\ HasRoom
  <2>1. Occupied' = Occupied \cup {r} /\ r \notin Occupied
    BY <1>1, <1>4 DEF Occupied
  <2>2. Cardinality(Occupied') = Cardinality(Occupied) + 1
    BY <1>2, <2>1, FS_AddElement
  <2> QED
    BY <1>2, <1>3, <1>4, <2>2 DEF SlotsCounted, HasRoom
<1>5. CASE Inside(r) /\ ~Inside(r)' /\ count' = count - 1
  <2>1. Occupied' = Occupied \ {r} /\ r \in Occupied
    BY <1>1, <1>5 DEF Occupied
  <2>2. Cardinality(Occupied') = Cardinality(Occupied) - 1
    BY <1>2, <2>1, FS_RemoveElement
  <2> QED
    BY <1>2, <1>3, <1>5, <2>2 DEF SlotsCounted
<1>6. CASE (Inside(r) <=> Inside(r)') /\ count' = count
  <2>1. Occupied' = Occupied
    BY <1>1, <1>6 DEF Occupied
  <2> QED
    BY <1>3, <1>6, <2>1 DEF SlotsCounted
<1> QED
  BY <1>4, <1>5, <1>6

\* An answer goes out to one request.
LEMMA SendTyped ==
    ASSUME RequestsTyped, NEW r \in Requests, NEW s \in Nat, Send(r, s)
    PROVE  /\ answers' \in [Requests -> Seq(Nat)] /\ answers'[r] = Append(answers[r], s)
           /\ answers[r] = <<>> => answers'[r] = <<s>>
           /\ \A q \in Requests \ {r} : answers'[q] = answers[q]
<1>1. answers[r] \in Seq(Nat) /\ Append(answers[r], s) \in Seq(Nat)
  BY DEF RequestsTyped
<1>2. answers' = [answers EXCEPT ![r] = Append(answers[r], s)]
  BY DEF Send
<1>3. answers[r] = <<>> => Append(answers[r], s) = <<s>>
  OBVIOUS
<1> QED
  BY <1>1, <1>2, <1>3 DEF RequestsTyped

\* Every way out gives back the slot, if there is one.
LEMMA LeaveSlots ==
    ASSUME IngressInv, NEW r \in Requests, Only(r), Leave(r), kind' = kind
    PROVE  SlotsCounted'
<1>1. ~Inside(r)'
  BY DEF IngressInv, RequestsTyped, Leave, Goto, Inside
<1>2. count' = IF Inside(r) THEN count - 1 ELSE count
  BY DEF Leave
<1>3. SlotsCounted
  BY DEF IngressInv
<1> QED
  BY <1>1, <1>2, <1>3, SlotsFollow

\* It comes: refused for its length, exempt, admitted or shed.
LEMMA ArriveOK ==
    ASSUME IngressInv, NEW r \in Requests, Arrive(r)
    PROVE  IngressInv'
<1> PICK k \in Kind : \/ ArriveTooLong(r, k) \/ ArriveExempt(r, k)
                      \/ ArriveAdmitted(r, k) \/ ArriveShed(r, k)
  BY DEF Arrive
<1>t. RequestsTyped /\ SlotsCounted /\ \A q \in Requests : RequestOK(q)
  BY DEF IngressInv
<1>a. pc[r] = "arrive" /\ Come(r, k)
  BY DEF ArriveTooLong, ArriveExempt, ArriveAdmitted, ArriveShed
<1>b. answers[r] = <<>> /\ ~refused[r] /\ received[r] <= Cap /\ ~Inside(r)
  BY <1>t, <1>a DEF RequestOK, Unanswered, ReadWithinCap, Inside
<1>k. /\ k.route \in {"exempt", "plain", "body"} /\ k.declared \in Int /\ k.size \in Nat
      /\ FirstAwait(k) \in {"handler", "gates", "read"}
      /\ k.route = "body" <=> FirstAwait(k) = "read"
      /\ k.route # "exempt" => FirstAwait(k) \in PC \ {"arrive", "done"}
  BY KindFields
<1>c. kind'[r] = k /\ received' = received /\ refused' = refused
  BY <1>a, <1>t DEF Come, RequestsTyped
\* Where it goes, and what it is told.
<1>1. \/ /\ pc' = [pc EXCEPT ![r] = FirstAwait(k)] /\ answers' = answers
         /\ \/ k.route = "exempt" /\ count' = count
            \/ k.route # "exempt" /\ HasRoom /\ count' = count + 1
      \/ /\ pc' = [pc EXCEPT ![r] = "done"] /\ count' = count
         /\ \E s \in {413, 503} : Send(r, s) /\ (s = 413 => Declares(k))
  BY DEF ArriveTooLong, ArriveExempt, ArriveAdmitted, ArriveShed, Goto
<1>d. /\ answers' \in [Requests -> Seq(Nat)]
      /\ \A q \in Requests \ {r} : answers'[q] = answers[q]
  BY <1>1, <1>t, SendTyped DEF RequestsTyped
<1>e. /\ kind' = [kind EXCEPT ![r] = k] /\ received' = received /\ refused' = refused
      /\ \E p \in PC : pc' = [pc EXCEPT ![r] = p]
  BY <1>1, <1>a, <1>k DEF Come, PC
<1>2. RequestsTyped' /\ Only(r)
  BY <1>e, <1>d, <1>t DEF RequestsTyped, Only
<1>3. SlotsCounted'
  <2>1. CASE /\ pc' = [pc EXCEPT ![r] = FirstAwait(k)] /\ k.route # "exempt"
             /\ HasRoom /\ count' = count + 1
    <3>1. Inside(r)'
      BY <2>1, <1>c, <1>k, <1>t DEF Inside, RequestsTyped
    <3> QED
      BY <3>1, <2>1, <1>b, <1>2, <1>t, SlotsFollow
  <2>2. CASE count' = count /\ (k.route = "exempt" \/ pc' = [pc EXCEPT ![r] = "done"])
    <3>1. ~Inside(r)'
      BY <2>2, <1>c, <1>t DEF Inside, RequestsTyped
    <3> QED
      BY <3>1, <2>2, <1>b, <1>2, <1>t, SlotsFollow
  <2> QED
    BY <2>1, <2>2, <1>1
<1>4. RequestOK(r)'
  <2>1. CASE pc' = [pc EXCEPT ![r] = FirstAwait(k)] /\ answers' = answers
    <3>1. pc'[r] = FirstAwait(k) /\ answers'[r] = <<>>
      BY <2>1, <1>b, <1>t DEF RequestsTyped
    <3> QED
      BY <3>1, <1>b, <1>c, <1>k DEF RequestOK, Unanswered, ReadWithinCap, OneAnswer, RefusedIsDone
  <2>2. ASSUME pc' = [pc EXCEPT ![r] = "done"], NEW s \in {413, 503}, s = 413 => Declares(k),
               Send(r, s)
        PROVE  RequestOK(r)'
    <3>1. pc'[r] = "done" /\ answers'[r] = <<s>>
      BY <2>2, <1>b, <1>t, SendTyped DEF RequestsTyped
    <3>2. Declares(k) => Declares(kind'[r])
      BY <1>c
    <3> QED
      BY <3>1, <3>2, <2>2, <1>b, <1>c
      DEF RequestOK, Unanswered, ReadWithinCap, OneAnswer, RefusedIsDone, Declares
  <2> QED
    BY <1>1, <2>1, <2>2
<1> QED
  BY <1>2, <1>3, <1>4, <1>t, ElsewhereOK DEF IngressInv

\* It goes on from one await to the next with the slot it has.
LEMMA MoveOK ==
    ASSUME IngressInv, NEW r \in Requests, NEW p \in PC \ {"arrive", "read", "done"},
           pc[r] \in {"read", "gates", "cost", "handler"}, Goto(r, p),
           UNCHANGED <<count, kind, received, refused>>,
           pc[r] = "read" => received[r] = kind[r].size,
           \/ answers' = answers /\ p \in {"gates", "cost", "handler"}
           \/ p = "sending" /\ \E s \in Nat \ {413} : Send(r, s)
    PROVE  IngressInv'
<1>t. RequestsTyped /\ SlotsCounted /\ \A q \in Requests : RequestOK(q)
  BY DEF IngressInv
<1>d. /\ answers' \in [Requests -> Seq(Nat)]
      /\ \A q \in Requests \ {r} : answers'[q] = answers[q]
  BY <1>t, SendTyped DEF RequestsTyped
<1>b. answers[r] = <<>> /\ ~refused[r] /\ pc'[r] = p /\ Only(r) /\ RequestsTyped'
  BY <1>t, <1>d DEF RequestOK, Unanswered, RequestsTyped, Goto, Only, PC
<1>1. Inside(r) <=> Inside(r)'
  BY <1>t, <1>b DEF Inside, RequestsTyped, PC
<1>2. SlotsCounted'
  BY <1>1, <1>t, <1>b, SlotsFollow
<1>3. \/ answers'[r] = <<>> /\ p # "sending"
      \/ p = "sending" /\ \E s \in Nat \ {413} : answers'[r] = <<s>>
  <2>1. CASE answers' = answers /\ p \in {"gates", "cost", "handler"}
    BY <1>b, <2>1
  <2>2. ASSUME p = "sending", NEW s \in Nat \ {413}, Send(r, s)
        PROVE  \E n \in Nat \ {413} : answers'[r] = <<n>>
    BY <1>b, <1>t, <2>2, SendTyped
  <2> QED
    BY <2>1, <2>2
<1>4. p \in {"gates", "cost", "handler"} /\ kind[r].route = "body" => kind[r].size <= Cap
  BY <1>t DEF RequestOK, ReadWithinCap
<1>5. RequestOK(r)'
  BY <1>b, <1>3, <1>4 DEF RequestOK, Unanswered, ReadWithinCap, OneAnswer, RefusedIsDone
<1> QED
  BY <1>2, <1>5, <1>b, <1>t, ElsewhereOK DEF IngressInv

\* It leaves: told something as it goes, or nothing.
LEMMA LeaveOK ==
    ASSUME IngressInv, NEW r \in Requests, Leave(r), kind' = kind,
           pc[r] \notin {"arrive", "done"},
           received' \in [Requests -> Nat], \A q \in Requests \ {r} : received'[q] = received[q],
           \/ answers' = answers /\ refused' = refused
           \/ pc[r] = "handler" /\ refused' = refused /\ Send(r, 500)
           \/ /\ pc[r] = "read" /\ refused' = [refused EXCEPT ![r] = TRUE] /\ Send(r, 413)
              /\ kind[r].size > Cap
    PROVE  IngressInv'
<1>t. RequestsTyped /\ SlotsCounted /\ \A q \in Requests : RequestOK(q)
  BY DEF IngressInv
<1>d. /\ answers' \in [Requests -> Seq(Nat)]
      /\ \A q \in Requests \ {r} : answers'[q] = answers[q]
  BY <1>t, SendTyped DEF RequestsTyped
<1>b. pc'[r] = "done" /\ Only(r) /\ RequestsTyped'
  BY <1>t, <1>d DEF RequestsTyped, Leave, Goto, Only, PC
<1>1. SlotsCounted'
  BY <1>b, LeaveSlots
<1>2. CASE answers' = answers /\ refused' = refused
  <2>1. ~refused[r]
    BY <1>t DEF RequestOK, RefusedIsDone
  <2>2. OneAnswer(r)'
    BY <1>2, <1>t DEF RequestOK, OneAnswer, Declares
  <2> QED
    BY <1>1, <1>2, <2>1, <2>2, <1>b, <1>t, ElsewhereOK
    DEF IngressInv, RequestOK, Unanswered, ReadWithinCap, RefusedIsDone
<1>3. CASE pc[r] = "handler" /\ refused' = refused /\ Send(r, 500)
  <2>1. ~refused[r] /\ answers[r] = <<>>
    BY <1>3, <1>t DEF RequestOK, Unanswered
  <2>2. answers'[r] = <<500>>
    BY <1>3, <2>1, <1>t, SendTyped
  <2>3. RequestOK(r)'
    BY <1>3, <2>1, <2>2, <1>b DEF RequestOK, Unanswered, ReadWithinCap, OneAnswer, RefusedIsDone
  <2> QED
    BY <1>1, <2>3, <1>b, <1>t, ElsewhereOK DEF IngressInv
<1>4. CASE /\ pc[r] = "read" /\ refused' = [refused EXCEPT ![r] = TRUE] /\ Send(r, 413)
           /\ kind[r].size > Cap
  <2>1. answers[r] = <<>>
    BY <1>4, <1>t DEF RequestOK, Unanswered
  <2>2. answers'[r] = <<413>>
    BY <1>4, <2>1, <1>t DEF Send, RequestsTyped
  <2>3. RequestOK(r)'
    BY <1>4, <2>2, <1>b DEF RequestOK, Unanswered, ReadWithinCap, OneAnswer, RefusedIsDone
  <2> QED
    BY <1>1, <2>3, <1>b, <1>t, ElsewhereOK DEF IngressInv
<1> QED
  BY <1>2, <1>3, <1>4

\* One step of a request, whichever await it comes from.
LEMMA GoOnOK ==
    ASSUME IngressInv, NEW r \in Requests, GoOn(r)
    PROVE  IngressInv'
<1>t. RequestsTyped /\ RequestOK(r) /\ kind[r] \in Kind
  BY DEF IngressInv, RequestsTyped
<1>1. CASE Read(r)
  <2>0. /\ pc[r] = "read" /\ received[r] < kind[r].size /\ kind' = kind
        /\ received' = [received EXCEPT ![r] = @ + 1]
    BY <1>1 DEF Read
  <2>1. /\ received' \in [Requests -> Nat] /\ received'[r] = received[r] + 1
        /\ \A q \in Requests \ {r} : received'[q] = received[q]
        /\ received[r] \in Nat /\ kind[r].size \in Nat /\ Cap \in Nat
    BY <2>0, <1>t, KindFields, LimitsAssumption DEF RequestsTyped
  <2>2. CASE OverCap(received'[r]) /\ Refuse(r)
    <3>1. refused'[r] /\ answers[r] = <<>> /\ refused' = [refused EXCEPT ![r] = TRUE]
      BY <2>0, <2>2, <1>t DEF Refuse, RequestsTyped, RequestOK, Unanswered
    <3>2. Leave(r) /\ Send(r, 413)
      BY <2>2, <3>1 DEF Refuse, PassesGuard
    <3>3. kind[r].size > Cap
      BY <2>0, <2>1, <2>2 DEF OverCap
    <3> QED
      BY <2>0, <2>1, <3>1, <3>2, <3>3, LeaveOK
  <2>3. CASE ~OverCap(received'[r]) /\ UNCHANGED <<count, pc, refused, answers>>
    <3>1. RequestsTyped' /\ Only(r)
      BY <2>0, <2>1, <2>3, <1>t DEF RequestsTyped, Only
    <3>2. SlotsCounted'
      <4>1. (Inside(r) <=> Inside(r)') /\ count' = count
        BY <2>0, <2>3 DEF Inside
      <4> QED
        BY <4>1, <3>1, SlotsFollow DEF IngressInv
    <3>3. RequestOK(r)'
      BY <2>0, <2>1, <2>3, <1>t
      DEF RequestOK, Unanswered, ReadWithinCap, OneAnswer, RefusedIsDone, OverCap, Declares
    <3> QED
      BY <3>1, <3>2, <3>3, ElsewhereOK DEF IngressInv
  <2> QED
    BY <1>1, <2>2, <2>3 DEF Read
<1>2. CASE ReadAll(r)
  BY <1>2, MoveOK DEF ReadAll, PC
<1>3. CASE Gates(r)
  BY <1>3, MoveOK DEF Gates, PC
<1>4. CASE Cost(r)
  BY <1>4, MoveOK DEF Cost, PC
<1>5. CASE Handle(r)
  BY <1>5, MoveOK DEF Handle, PC
<1>6. CASE Raise(r)
  <2>1. /\ pc[r] = "handler" /\ Leave(r) /\ kind' = kind /\ refused' = refused
        /\ received' = received /\ Send(r, 500)
    BY <1>6 DEF Raise
  <2>2. /\ received' \in [Requests -> Nat]
        /\ \A q \in Requests \ {r} : received'[q] = received[q]
    BY <2>1, <1>t DEF RequestsTyped
  <2> QED
    BY <2>1, <2>2, LeaveOK
<1>7. CASE Sent(r) \/ Cancel(r)
  BY <1>7, <1>t, LeaveOK DEF Sent, Cancel, RequestsTyped
<1> QED
  BY <1>1, <1>2, <1>3, <1>4, <1>5, <1>6, <1>7 DEF GoOn

\* Cancelled after the app stopped waiting for it.
LEMMA CancelOK ==
    ASSUME IngressInv, NEW r \in Requests, Cancel(r)
    PROVE  IngressInv'
BY GoOnOK DEF GoOn

\* Between two apps nobody is inside, so the counter that is kept says zero.
LEMMA FreshOK ==
    ASSUME IngressInv, Quiet, Fresh, UNCHANGED count
    PROVE  IngressInv'
<1>1. NotCome \in Kind /\ <<>> \in Seq(Nat)
  BY LimitsAssumption DEF NotCome, Kind
<1>2. RequestsTyped'
  BY <1>1 DEF Fresh, RequestsTyped, PC
<1>3. SlotsCounted'
  <2>1. Occupied = {} /\ Occupied' = {}
    BY DEF Quiet, Fresh, Occupied, Inside
  <2> QED
    BY <2>1 DEF IngressInv, SlotsCounted
<1>4. \A r \in Requests : RequestOK(r)'
  BY LimitsAssumption
  DEF Fresh, RequestOK, Unanswered, ReadWithinCap, OneAnswer, RefusedIsDone
<1> QED
  BY <1>2, <1>3, <1>4 DEF IngressInv

LEMMA InitIngress == Init => IngressInv
<1> SUFFICES ASSUME Init PROVE IngressInv
  OBVIOUS
<1>1. NotCome \in Kind /\ <<>> \in Seq(Nat)
  BY LimitsAssumption DEF NotCome, Kind
<1>2. RequestsTyped
  BY <1>1 DEF Init, RequestsTyped, PC
<1>3. SlotsCounted
  <2>1. Occupied = {}
    BY DEF Init, Occupied, Inside
  <2> QED
    BY <2>1, FS_EmptySet, LimitsAssumption DEF SlotsCounted, Init
<1>4. \A r \in Requests : RequestOK(r)
  BY LimitsAssumption
  DEF Init, RequestOK, Unanswered, ReadWithinCap, OneAnswer, RefusedIsDone
<1> QED
  BY <1>2, <1>3, <1>4 DEF IngressInv

LEMMA UnchangedIngress == IngressInv /\ UNCHANGED vars => IngressInv'
BY DEF IngressInv, vars, RequestsTyped, SlotsCounted, Occupied, Inside, RequestOK, Unanswered,
       ReadWithinCap, OneAnswer, RefusedIsDone, Declares

LEMMA NextIngress == IngressInv /\ [ServiceNext]_serviceVars => IngressInv'
<1> SUFFICES ASSUME IngressInv, [ServiceNext]_serviceVars PROVE IngressInv'
  OBVIOUS
<1>1. CASE StartApp
  BY <1>1, FreshOK DEF StartApp
<1>2. ASSUME NEW r \in Requests, Request(r) PROVE IngressInv'
  BY <1>2, ArriveOK, GoOnOK, CancelOK DEF Request
<1>3. CASE PreloadTemplates \/ LoadTenantConfigs \/ BuildPools \/ BuildModel \/ ClearCaches \/ Close
  <2>1. UNCHANGED vars
    BY <1>3 DEF PreloadTemplates, LoadTenantConfigs, BuildPools, BuildModel, ClearCaches, Close,
                RequestsWait
  <2> QED
    BY <2>1, UnchangedIngress
<1>4. CASE Terminate \/ Tick \/ Drained \/ GraceOver \/ UNCHANGED serviceVars
  <2>1. UNCHANGED vars
    BY <1>4 DEF Terminate, Tick, Drained, GraceOver, Stopping, serviceVars
  <2> QED
    BY <2>1, UnchangedIngress
<1> QED
  BY <1>1, <1>2, <1>3, <1>4 DEF ServiceNext

LEMMA IngressInvariant == ServiceSpec => []IngressInv
<1>1. ServiceInit => IngressInv
  BY InitIngress DEF ServiceInit
<1> QED
  BY <1>1, NextIngress, PTL DEF ServiceSpec

\* The in-flight count is the number of requests inside, and within the cap, for
\* any number of requests and apps however each of them ends.
THEOREM ServiceSlotsExact == ServiceSpec => []SlotsExact
<1>1. IngressInv => SlotsExact
  BY DEF IngressInv, SlotsCounted, SlotsExact, Occupied
<1> QED
  BY <1>1, IngressInvariant, PTL

\* A body over the cap is told 413 and only that, and nobody else is, for any cap.
THEOREM ServiceRefusedIffTooBig == ServiceSpec => []RefusedIffTooBig
<1>1. IngressInv => RefusedIffTooBig
  <2> SUFFICES ASSUME IngressInv, NEW r \in Requests
               PROVE  /\ refused[r] => answers[r] = <<413>> /\ pc[r] = "done"
                      /\ 413 \in {answers[r][i] : i \in DOMAIN answers[r]} =>
                            Declares(kind[r]) \/ kind[r].size > Cap
                      /\ kind[r].route = "body" /\ kind[r].size > Cap =>
                            pc[r] \notin {"gates", "cost", "handler"}
                      /\ Len(answers[r]) <= 1
    BY DEF RefusedIffTooBig
  <2>1. RequestOK(r) /\ kind[r].size \in Nat /\ Cap \in Nat
    BY KindFields, LimitsAssumption DEF IngressInv, RequestsTyped
  <2>2. CASE answers[r] = <<>>
    BY <2>1, <2>2 DEF RequestOK, RefusedIsDone, ReadWithinCap
  <2>3. ASSUME NEW s \in Nat, answers[r] = <<s>>, s = 413 => Declares(kind[r]) \/ kind[r].size > Cap
        PROVE  /\ 413 \in {answers[r][i] : i \in DOMAIN answers[r]} =>
                     Declares(kind[r]) \/ kind[r].size > Cap
               /\ Len(answers[r]) <= 1
    BY <2>3
  <2> QED
    BY <2>1, <2>2, <2>3 DEF RequestOK, RefusedIsDone, ReadWithinCap, OneAnswer
<1> QED
  BY <1>1, IngressInvariant, PTL

-----------------------------------------------------------------------------
(* The app around them *)

LifeTyped ==
    /\ stage \in Stages /\ app \in Nat /\ since \in Nat
    /\ entered \in [Requests -> Int] /\ cut \subseteq Requests

Running == {"serving", "draining"}

\* Requests run while the app does, or were cut off by its end.
RunWhileServing == \A r \in Requests : pc[r] \in {"arrive", "done"} \/ stage \in Running \/ r \in cut
CutAtTheEnd == cut # {} => stage \in {"off", "clear", "closing"}

\* The caches, by where the lifespan is; `unbuilt' is a startup that left its own.
TemplatesLoaded ==
    stage \in {"tenants", "pools", "model"} \cup Running => templates = app
TenantsLoaded ==
    \/ unbuilt
    \/ /\ stage \in {"off", "templates", "closing"} => templates = 0
       /\ stage \in {"off", "templates", "tenants", "closing"} => tenants = 0
       /\ stage \in {"pools", "model"} \cup Running =>
            tenants = (IF settings.tenant_config_dir THEN app ELSE 0)

\* The clients, by where the lifespan is.
OwnOpen == stage \in {"model"} \cup Running => {Mine("http"), Mine("crm")} \subseteq open
Ahead == {toClose[i] : i \in DOMAIN toClose}
CloseOrder ==
    {<<"http", "crm", "cost", "operational">>, <<"crm", "cost", "operational">>,
     <<"cost", "operational">>, <<"operational">>, <<"http", "crm">>, <<"crm">>}
OpenAreAhead ==
    \/ unbuilt \/ unclosed
    \/ /\ stage \in {"off", "templates", "tenants", "pools"} => open = {}
       /\ stage = "model" => open = {Mine("http"), Mine("crm")}
       /\ stage \in Running \cup {"clear"} =>
            open = {Mine("http"), Mine("crm"), Mine("cost"), Mine("operational")}
       /\ stage = "closing" => open \subseteq {Mine(c) : c \in Ahead}
ClosingHasOrder == stage = "closing" => toClose \in CloseOrder

LifeInv == /\ LifeTyped /\ RunWhileServing /\ CutAtTheEnd /\ TemplatesLoaded
           /\ TenantsLoaded /\ OwnOpen /\ OpenAreAhead /\ ClosingHasOrder

\* One aclose takes the client at the head and leaves those after it.
LEMMA CloseStep ==
    ASSUME NEW s \in CloseOrder
    PROVE  /\ Tail(s) = <<>> \/ Tail(s) \in CloseOrder
           /\ {s[i] : i \in DOMAIN s} \subseteq {Head(s)} \cup {Tail(s)[i] : i \in DOMAIN Tail(s)}
<1>1. CASE s = <<"http", "crm", "cost", "operational">>
  BY <1>1 DEF CloseOrder
<1>2. CASE s = <<"crm", "cost", "operational">>
  BY <1>2 DEF CloseOrder
<1>3. CASE s = <<"cost", "operational">>
  BY <1>3 DEF CloseOrder
<1>4. CASE s = <<"operational">>
  BY <1>4 DEF CloseOrder
<1>5. CASE s = <<"http", "crm">>
  BY <1>5 DEF CloseOrder
<1>6. CASE s = <<"crm">>
  BY <1>6 DEF CloseOrder
<1> QED
  BY <1>1, <1>2, <1>3, <1>4, <1>5, <1>6 DEF CloseOrder

LEMMA InitLife == ServiceInit => LifeInv
BY DEF ServiceInit, Init, LifeInv, LifeTyped, Stages, RunWhileServing, CutAtTheEnd, TemplatesLoaded,
       TenantsLoaded, OwnOpen, OpenAreAhead, ClosingHasOrder, Running

\* A step of the lifespan that touches no request.
LEMMA RunKept ==
    ASSUME LifeInv, UNCHANGED <<pc, cut>>,
           stage' \in Running \/ (stage \notin Running /\ stage' \in Stages),
           stage' \in {"off", "clear", "closing"} \/ stage \notin {"off", "clear", "closing"}
    PROVE  RunWhileServing' /\ CutAtTheEnd'
BY DEF LifeInv, RunWhileServing, CutAtTheEnd

LEMMA NextLife == LifeInv /\ IngressInv /\ [ServiceNext]_serviceVars => LifeInv'
<1> SUFFICES ASSUME LifeInv, RequestsTyped, [ServiceNext]_serviceVars PROVE LifeInv'
  BY DEF IngressInv
<1>i. /\ LifeTyped /\ RunWhileServing /\ CutAtTheEnd /\ TemplatesLoaded
      /\ TenantsLoaded /\ OwnOpen /\ OpenAreAhead /\ ClosingHasOrder
  BY DEF LifeInv
<1> USE DEF Stages, Running
<1>1. CASE StartApp
  <2>0. /\ stage = "off" /\ stage' = "templates" /\ app' = app + 1 /\ cut' = {} /\ since' = 0
        /\ UNCHANGED <<templates, tenants, open, toClose, entered, unbuilt, unclosed>>
        /\ \A r \in Requests : pc'[r] = "arrive"
    BY <1>1 DEF StartApp, Fresh
  <2> QED
    BY <2>0, <1>i DEF LifeInv, LifeTyped, RunWhileServing, CutAtTheEnd, TemplatesLoaded, TenantsLoaded,
                      OwnOpen, OpenAreAhead, ClosingHasOrder
<1>2. CASE PreloadTemplates
  <2>0. /\ UNCHANGED <<pc, cut, since, entered, app, settings, tenants, open, toClose, unbuilt, unclosed>>
        /\ stage = "templates"
        /\ \/ stage' = "tenants" /\ templates' = app
           \/ stage' = "off" /\ templates' = templates
    BY <1>2 DEF PreloadTemplates, RequestsWait, vars
  <2>1. RunWhileServing' /\ CutAtTheEnd'
    BY <2>0, RunKept
  <2> QED
    BY <2>0, <2>1, <1>i DEF LifeInv, LifeTyped, TemplatesLoaded, TenantsLoaded,
                            OwnOpen, OpenAreAhead, ClosingHasOrder
<1>3. CASE LoadTenantConfigs
  <2>0. /\ UNCHANGED <<pc, cut, since, entered, app, settings, open, toClose, unbuilt, unclosed>>
        /\ stage = "tenants"
        /\ \/ ~settings.tenant_config_dir /\ stage' = "pools" /\ UNCHANGED <<templates, tenants>>
           \/ settings.tenant_config_dir /\ stage' = "pools" /\ tenants' = app /\ UNCHANGED templates
           \/ settings.tenant_config_dir /\ stage' = "off" /\ templates' = 0 /\ UNCHANGED tenants
    BY <1>3 DEF LoadTenantConfigs, RequestsWait, vars
  <2>1. RunWhileServing' /\ CutAtTheEnd'
    BY <2>0, RunKept
  <2> QED
    BY <2>0, <2>1, <1>i DEF LifeInv, LifeTyped, TemplatesLoaded, TenantsLoaded,
                            OwnOpen, OpenAreAhead, ClosingHasOrder
<1>4. CASE BuildPools
  <2>0. /\ UNCHANGED <<pc, cut, since, entered, app, settings, templates, tenants, toClose, unclosed>>
        /\ stage = "pools"
        /\ \/ /\ open' = open \cup {Mine("http"), Mine("crm")} /\ stage' = "model"
              /\ UNCHANGED unbuilt
           \/ open' \in {open, open \cup {Mine("http")}} /\ stage' = "off" /\ unbuilt' = TRUE
    BY <1>4 DEF BuildPools, RequestsWait, vars
  <2>1. RunWhileServing' /\ CutAtTheEnd'
    BY <2>0, RunKept
  <2> QED
    BY <2>0, <2>1, <1>i DEF LifeInv, LifeTyped, TemplatesLoaded, TenantsLoaded,
                            OwnOpen, OpenAreAhead, ClosingHasOrder, Mine
<1>5. CASE BuildModel
  <2>0. /\ UNCHANGED <<pc, cut, since, entered, app, settings, unbuilt, unclosed>>
        /\ stage = "model"
        /\ \/ /\ stage' = "serving" /\ open' = open \cup {Mine(c) : c \in RedisClients}
              /\ UNCHANGED <<templates, tenants, toClose>>
           \/ /\ templates' = 0 /\ tenants' = 0 /\ stage' = "closing"
              /\ toClose' = <<"http", "crm">> /\ UNCHANGED open
    BY <1>5 DEF BuildModel, RefuseModel, RequestsWait, vars
  <2>1. RunWhileServing' /\ CutAtTheEnd'
    BY <2>0, RunKept
  <2>2. {Mine(c) : c \in RedisClients} = {Mine("cost"), Mine("operational")}
    BY DEF RedisClients
  <2>3. OpenAreAhead'
    <3>1. CASE stage' = "serving"
      BY <2>0, <2>2, <3>1, <1>i DEF OpenAreAhead, Mine
    <3>2. CASE stage' = "closing"
      <4>1. Ahead' = {"http", "crm"}
        BY <2>0, <3>2 DEF Ahead
      <4> QED
        BY <2>0, <3>2, <4>1, <1>i DEF OpenAreAhead, Mine
    <3> QED
      BY <2>0, <3>1, <3>2
  <2> QED
    BY <2>0, <2>1, <2>3, <1>i DEF LifeInv, LifeTyped, TemplatesLoaded, TenantsLoaded,
                            OwnOpen, ClosingHasOrder, CloseOrder, Mine
<1>6. ASSUME NEW r \in Requests, Request(r) PROVE LifeInv'
  <2>0. UNCHANGED <<stage, app, settings, templates, tenants, open, toClose, since, cut, unbuilt, unclosed>>
    BY <1>6 DEF Request
  <2>1. \A q \in Requests \ {r} : pc'[q] = pc[q]
    BY <1>6, <1>i DEF Request, Arrive, GoOn, ArriveTooLong, ArriveExempt, ArriveAdmitted, ArriveShed,
       Read, ReadAll, Gates, Cost, Handle, Raise, Sent, Cancel, Refuse, Leave, Goto, RequestsTyped
  <2>2. stage \in Running \/ r \in cut
    BY <1>6 DEF Request
  <2>3. RunWhileServing'
    BY <2>0, <2>1, <2>2, <1>i DEF RunWhileServing
  <2>4. entered' \in [Requests -> Int]
    BY <1>6, <1>i DEF Request, LifeTyped
  <2> QED
    BY <2>0, <2>3, <2>4, <1>i DEF LifeInv, LifeTyped, CutAtTheEnd, TemplatesLoaded, TenantsLoaded,
                            OwnOpen, OpenAreAhead, ClosingHasOrder, Ahead, Mine
<1>7. CASE Terminate \/ Tick
  <2>0. /\ UNCHANGED <<pc, app, settings, templates, tenants, open, toClose, entered, cut, unbuilt, unclosed>>
        /\ stage \in Running /\ stage' = "draining" /\ since' \in {0, since + 1}
    BY <1>7 DEF Terminate, Tick, vars
  <2> QED
    BY <2>0, <1>i DEF LifeInv, LifeTyped, RunWhileServing, CutAtTheEnd, TemplatesLoaded, TenantsLoaded,
                      OwnOpen, OpenAreAhead, ClosingHasOrder, Mine
<1>8. CASE Drained \/ GraceOver
  <2>0. /\ UNCHANGED <<pc, app, settings, templates, tenants, open, toClose, entered, unbuilt, unclosed>>
        /\ stage = "draining" /\ stage' = "clear" /\ since' = 0 /\ cut' \subseteq Requests
        /\ \A r \in Requests : pc[r] \in {"arrive", "done"} \/ r \in cut'
    BY <1>8, <1>i DEF Drained, GraceOver, Stopping, vars, Quiet, LifeTyped
  <2> QED
    BY <2>0, <1>i DEF LifeInv, LifeTyped, RunWhileServing, CutAtTheEnd, TemplatesLoaded, TenantsLoaded,
                      OwnOpen, OpenAreAhead, ClosingHasOrder, Mine
<1>9. CASE ClearCaches
  <2>0. /\ UNCHANGED <<pc, cut, since, entered, app, settings, open, unbuilt, unclosed>>
        /\ stage = "clear" /\ stage' = "closing" /\ templates' = 0 /\ tenants' = 0
        /\ toClose' = <<"http", "crm", "cost", "operational">>
    BY <1>9 DEF ClearCaches, RequestsWait, vars
  <2>1. RunWhileServing' /\ CutAtTheEnd'
    BY <2>0, RunKept
  <2>2. Ahead' = {"http", "crm", "cost", "operational"}
    BY <2>0 DEF Ahead
  <2> QED
    BY <2>0, <2>1, <2>2, <1>i DEF LifeInv, LifeTyped, TemplatesLoaded, TenantsLoaded,
                            OwnOpen, OpenAreAhead, ClosingHasOrder, CloseOrder, Mine
<1>10. CASE Close
  <2>0. /\ UNCHANGED <<pc, cut, since, entered, app, settings, templates, tenants, unbuilt>>
        /\ stage = "closing"
        /\ \/ /\ open' = open \ {Mine(Head(toClose))} /\ toClose' = Tail(toClose)
              /\ stage' = IF Tail(toClose) = <<>> THEN "off" ELSE "closing"
              /\ UNCHANGED unclosed
           \/ stage' = "off" /\ unclosed' = TRUE
    BY <1>10 DEF Close, RequestsWait, vars
  <2>1. RunWhileServing' /\ CutAtTheEnd'
    BY <2>0, RunKept
  <2>2. /\ Tail(toClose) = <<>> \/ Tail(toClose) \in CloseOrder
        /\ Ahead \subseteq {Head(toClose)} \cup {Tail(toClose)[i] : i \in DOMAIN Tail(toClose)}
    BY <2>0, <1>i, CloseStep DEF ClosingHasOrder, Ahead
  <2>3. OpenAreAhead'
    <3>1. CASE /\ open' = open \ {Mine(Head(toClose))} /\ toClose' = Tail(toClose)
               /\ stage' = IF Tail(toClose) = <<>> THEN "off" ELSE "closing"
               /\ UNCHANGED unclosed
      <4>1. Ahead \subseteq {Head(toClose)} \cup Ahead'
        BY <2>2, <3>1 DEF Ahead
      <4>2. Tail(toClose) = <<>> => Ahead' = {}
        BY <3>1 DEF Ahead
      <4>3. \A c : Mine(c)' = Mine(c)
        BY <2>0 DEF Mine
      <4>4. OpenAreAhead /\ stage = "closing" => unbuilt \/ unclosed \/ open \subseteq {Mine(c) : c \in Ahead}
        BY DEF OpenAreAhead
      <4>5. open \subseteq {Mine(c) : c \in Ahead} => open' \subseteq {Mine(c) : c \in Ahead'}
        BY <3>1, <4>1
      <4> QED
        BY <2>0, <3>1, <4>2, <4>3, <4>4, <4>5, <1>i DEF OpenAreAhead
    <3> QED
      BY <2>0, <3>1 DEF OpenAreAhead
  <2> QED
    BY <2>0, <2>1, <2>2, <2>3, <1>i DEF LifeInv, LifeTyped, TemplatesLoaded, TenantsLoaded,
                            OwnOpen, ClosingHasOrder
<1>11. CASE UNCHANGED serviceVars
  BY <1>11, <1>i DEF serviceVars, lifeVars, vars, LifeInv, LifeTyped, RunWhileServing, CutAtTheEnd,
      TemplatesLoaded, TenantsLoaded, OwnOpen, OpenAreAhead, ClosingHasOrder, Ahead, Mine
<1> QED
  BY <1>1, <1>2, <1>3, <1>4, <1>5, <1>6, <1>7, <1>8, <1>9, <1>10, <1>11 DEF ServiceNext

LEMMA LifeInvariant == ServiceSpec => []LifeInv
BY InitLife, NextLife, IngressInvariant, PTL DEF ServiceSpec

\* A route that was not cut off runs on its own app's templates, tenant files
\* and clients, however many apps the process hosted before.
THEOREM ServiceServesWhatItLoaded == ServiceSpec => []ServesWhatItLoaded
<1>1. LifeInv => ServesWhatItLoaded
  BY DEF LifeInv, ServesWhatItLoaded, RunWhileServing, TemplatesLoaded, TenantsLoaded, OwnOpen, Running
<1> QED
  BY <1>1, LifeInvariant, PTL

\* No app leaves templates, tenant files or open clients behind, wherever its
\* startup was refused, but for a constructor or an aclose that raised.
THEOREM ServiceLeavesNothing == ServiceSpec => []LeavesNothing
<1>1. LifeInv => LeavesNothing
  BY DEF LifeInv, LeavesNothing, TenantsLoaded, OpenAreAhead
<1> QED
  BY <1>1, LifeInvariant, PTL

-----------------------------------------------------------------------------
(* Time *)

SinceSigterm == stage # "draining" => since = 0
\* `entered' is the tick the route began on, and the clock waits for its end.
EnteredInTime ==
    \A r \in Requests :
        /\ pc[r] # "handler" => entered[r] = -1
        /\ pc[r] = "handler" => entered[r] # -1
        /\ pc[r] = "handler" /\ r \notin cut => entered[r] >= 0 /\ since <= entered[r] + HandlerTime
CutLate == \A r \in cut : entered[r] = -1 \/ entered[r] + HandlerTime >= Graceful

TimeInv == SinceSigterm /\ EnteredInTime /\ CutLate

LEMMA NextTime == TimeInv /\ LifeInv /\ IngressInv /\ [ServiceNext]_serviceVars => TimeInv'
<1> SUFFICES ASSUME TimeInv, LifeInv, RequestsTyped, [ServiceNext]_serviceVars PROVE TimeInv'
  BY DEF IngressInv
<1>i. /\ SinceSigterm /\ EnteredInTime /\ CutLate /\ LifeTyped /\ RunWhileServing /\ CutAtTheEnd
      /\ HandlerTime \in Nat /\ Graceful \in Nat
  BY ServingTimesAssumption DEF LifeInv, TimeInv
<1> USE DEF Running
<1>1. CASE StartApp
  <2>0. /\ stage' = "templates" /\ since' = 0 /\ cut' = {} /\ entered' = entered
        /\ \A r \in Requests : pc'[r] = "arrive" /\ pc[r] # "handler"
    BY <1>1 DEF StartApp, Fresh, Quiet
  <2> QED
    BY <2>0, <1>i DEF TimeInv, SinceSigterm, EnteredInTime, CutLate
<1>2. ASSUME UNCHANGED <<pc, entered, cut, since>>, stage' = "draining" => stage = "draining",
             stage # "draining" \/ stage' = "draining"
      PROVE  TimeInv'
  BY <1>2, <1>i DEF TimeInv, SinceSigterm, EnteredInTime, CutLate
<1>3. CASE PreloadTemplates \/ LoadTenantConfigs \/ BuildPools \/ BuildModel \/ ClearCaches \/ Close
           \/ UNCHANGED serviceVars
  BY <1>2, <1>3 DEF PreloadTemplates, LoadTenantConfigs, BuildPools, BuildModel, RefuseModel, ClearCaches,
                    Close, RequestsWait, serviceVars, lifeVars, vars
<1>4. ASSUME NEW r \in Requests, Request(r) PROVE TimeInv'
  <2>0. /\ UNCHANGED <<stage, since, cut>>
        /\ stage \in Running \/ r \in cut
        /\ r \in cut => stage \notin Running /\ Cancel(r)
    BY <1>4, <1>i DEF Request, CutAtTheEnd
  <2>1. \A q \in Requests \ {r} : pc'[q] = pc[q]
    BY <1>4 DEF Request, Arrive, GoOn, ArriveTooLong, ArriveExempt, ArriveAdmitted, ArriveShed,
       Read, ReadAll, Gates, Cost, Handle, Raise, Sent, Cancel, Refuse, Leave, Goto, RequestsTyped
  <2>2. entered' = [entered EXCEPT ![r] = IF pc'[r] # "handler" THEN -1
                                          ELSE IF pc[r] = "handler" THEN @ ELSE since]
    BY <1>4 DEF Request
  <2>3. r \in cut => pc'[r] = "done"
    BY <2>0 DEF Cancel, Leave, Goto, RequestsTyped
  <2>4. SinceSigterm'
    BY <2>0, <1>i DEF SinceSigterm
  <2>5. entered'[r] = (IF pc'[r] # "handler" THEN -1
                       ELSE IF pc[r] = "handler" THEN entered[r] ELSE since)
        /\ \A q \in Requests \ {r} : entered'[q] = entered[q]
    BY <2>2, <1>i DEF LifeTyped
  <2>6. EnteredInTime'
    BY <2>0, <2>1, <2>3, <2>5, <1>i DEF EnteredInTime, LifeTyped
  <2>7. CutLate'
    BY <2>0, <2>3, <2>5, <1>i DEF CutLate, LifeTyped
  <2> QED
    BY <2>4, <2>6, <2>7 DEF TimeInv
<1>5. CASE Terminate
  <2>0. stage = "serving" /\ stage' = "draining" /\ since' = 0 /\ UNCHANGED <<pc, entered, cut>>
    BY <1>5 DEF Terminate, vars
  <2> QED
    BY <2>0, <1>i DEF TimeInv, SinceSigterm, EnteredInTime, CutLate
<1>6. CASE Tick
  <2>0. /\ stage = "draining" /\ stage' = "draining" /\ since' = since + 1
        /\ UNCHANGED <<pc, entered, cut>>
        /\ \A r \in Requests : pc[r] = "handler" => since < entered[r] + HandlerTime
    BY <1>6 DEF Tick, vars
  <2> QED
    BY <2>0, <1>i DEF TimeInv, SinceSigterm, EnteredInTime, CutLate, LifeTyped
<1>7. CASE Drained \/ GraceOver
  <2>0. /\ stage = "draining" /\ stage' = "clear" /\ since' = 0 /\ UNCHANGED <<pc, entered>>
    BY <1>7 DEF Drained, GraceOver, Stopping, vars
  <2>1. cut = {}
    BY <2>0, <1>i DEF CutAtTheEnd
  <2>2. \/ cut' = {} /\ \A r \in Requests : pc[r] # "handler"
        \/ since = Graceful /\ cut' = {r \in Requests : pc[r] \notin {"arrive", "done"}}
    BY <1>7, <2>1 DEF Drained, GraceOver, Quiet
  <2>3. CutLate'
    BY <2>0, <2>1, <2>2, <1>i DEF CutLate, EnteredInTime, LifeTyped
  <2>4. EnteredInTime'
    BY <2>0, <2>1, <2>2, <1>i DEF EnteredInTime, LifeTyped
  <2> QED
    BY <2>0, <2>3, <2>4 DEF TimeInv, SinceSigterm
<1> QED
  BY <1>1, <1>3, <1>4, <1>5, <1>6, <1>7 DEF ServiceNext

\* What the grace is for, for every grace and every time a route may take: a
\* route that begins so long before its end is answered, not cut off.
THEOREM ServiceDrainFinishes == ServiceSpec => []DrainFinishes
<1>1. ServiceInit => TimeInv
  BY DEF ServiceInit, Init, TimeInv, SinceSigterm, EnteredInTime, CutLate
<1>2. TimeInv /\ LifeInv => DrainFinishes
  BY ServingTimesAssumption DEF TimeInv, LifeInv, CutLate, DrainFinishes, LifeTyped
<1> QED
  BY <1>1, <1>2, NextTime, LifeInvariant, IngressInvariant, PTL DEF ServiceSpec
===============================================================================
