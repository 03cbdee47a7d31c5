------------------------------- MODULE Ingress -------------------------------
(***************************************************************************)
(* The three middlewares and the gate chain around a route: the body limit *)
(* outermost, the request id, the in-flight cap, then the body read and    *)
(* gates 1, 2 and 4 (main.create_app, middleware/, core/inflight.py,       *)
(* core/auth/dependencies.py).                                             *)
(*                                                                         *)
(* One event loop: whatever runs between two awaits is one step.  Bodies   *)
(* are counted in units of which Cap is the largest a body may have; a     *)
(* unit is one http.request message.                                       *)
(***************************************************************************)
EXTENDS Integers, FiniteSets, Sequences

CONSTANTS Requests,
          MaxInflight,   \* settings.max_inflight
          Cap            \* settings.max_request_body_bytes

ASSUME RequestsAssumption == IsFiniteSet(Requests)
ASSUME LimitsAssumption == MaxInflight \in Nat \ {0} /\ Cap \in Nat

VARIABLES count,      \* InflightCounter._count
          pc,         \* what each request is awaiting
          kind,       \* the route it names, and what it says of its body
          received,   \* units of the body read so far
          refused,    \* the streamed body passed the cap
          answers     \* the response starts that went out, in order

vars == <<count, pc, kind, received, refused, answers>>

\* _declared_length's None: no content-length, or one that is no natural number.
NoLength == -1
\* exempt: /health, /ready, /metrics.  plain: a gated route that reads no body.
\* The length a client declares is its own claim; a body no route reads counts for nothing.
Kind == [route : {"exempt", "plain"}, declared : {NoLength, Cap + 1}, size : {0}]
        \cup [route : {"body"}, declared : {NoLength, Cap, Cap + 1}, size : 0..(Cap + 1)]
NotCome == [route |-> "exempt", declared |-> NoLength, size |-> 0]

PC == {"arrive", "read", "gates", "cost", "handler", "sending", "done"}
\* Inside InflightMiddleware's try.
Inside(r) == kind[r].route # "exempt" /\ pc[r] \in PC \ {"arrive", "done"}

TypeOK ==
    /\ count \in 0..MaxInflight
    /\ pc \in [Requests -> PC]
    /\ kind \in [Requests -> Kind]
    /\ received \in [Requests -> 0..(Cap + 1)]
    /\ refused \in [Requests -> BOOLEAN]
    /\ answers \in [Requests -> Seq(200..503)]

Init ==
    /\ count = 0
    /\ pc = [r \in Requests |-> "arrive"]
    /\ kind = [r \in Requests |-> NotCome]
    /\ received = [r \in Requests |-> 0]
    /\ refused = [r \in Requests |-> FALSE]
    /\ answers = [r \in Requests |-> <<>>]

-----------------------------------------------------------------------------
Goto(r, p) == pc' = [pc EXCEPT ![r] = p]

\* Straight to the client, from outside guarded_send.
Send(r, status) == answers' = [answers EXCEPT ![r] = Append(@, status)]

\* mutant: the request that finds the cap reached still gets in.
HasRoomInclusive == count <= MaxInflight
\* InflightCounter.acquire: compare and count with no await between.
HasRoom == count < MaxInflight

\* mutant: the slot is only given back by a request that was answered.
LeaveAnswered(r) ==
    /\ Goto(r, "done")
    /\ count' = IF Inside(r) /\ answers[r] # <<>> THEN count - 1 ELSE count
\* The finally around the inner app: every way out gives the slot back.
Leave(r) ==
    /\ Goto(r, "done")
    /\ count' = IF Inside(r) THEN count - 1 ELSE count

OverCap(n) == n > Cap

Come(r, k) == kind' = [kind EXCEPT ![r] = k] /\ UNCHANGED <<received, refused>>
Declares(k) == k.declared # NoLength /\ OverCap(k.declared)
FirstAwait(k) == CASE k.route = "exempt" -> "handler"
                   [] k.route = "plain" -> "gates"
                   [] k.route = "body" -> "read"

\* A declared length over the cap: 413, nothing read, no slot taken.
ArriveTooLong(r, k) ==
    /\ pc[r] = "arrive" /\ Declares(k)
    /\ Come(r, k)
    /\ Send(r, 413) /\ Goto(r, "done") /\ UNCHANGED count

\* /health, /ready and /metrics take no slot.
ArriveExempt(r, k) ==
    /\ pc[r] = "arrive" /\ ~Declares(k) /\ k.route = "exempt"
    /\ Come(r, k)
    /\ Goto(r, FirstAwait(k)) /\ UNCHANGED <<count, answers>>

ArriveAdmitted(r, k) ==
    /\ pc[r] = "arrive" /\ ~Declares(k) /\ k.route # "exempt" /\ HasRoom
    /\ Come(r, k)
    /\ count' = count + 1
    /\ Goto(r, FirstAwait(k)) /\ UNCHANGED answers

\* load_shed
ArriveShed(r, k) ==
    /\ pc[r] = "arrive" /\ ~Declares(k) /\ k.route # "exempt" /\ ~HasRoom
    /\ Come(r, k)
    /\ Send(r, 503) /\ Goto(r, "done") /\ UNCHANGED count

-----------------------------------------------------------------------------
\* mutant: what the framework answers to the refused read goes out.
PassesGuardAlways(r) == TRUE
\* guarded_send: an answer of the inner app is dropped once the body is refused
\* and nothing has gone out.
PassesGuard(r) == ~(refused'[r] /\ answers[r] = <<>>)

\* counting_receive raises: FastAPI answers 400, the slot goes back, and the
\* 413 goes out instead.
Refuse(r) ==
    /\ refused' = [refused EXCEPT ![r] = TRUE]
    /\ Leave(r)
    /\ Send(r, IF PassesGuard(r) THEN 400 ELSE 413)

\* One more unit of the body.
Read(r) ==
    /\ pc[r] = "read" /\ received[r] < kind[r].size
    /\ received' = [received EXCEPT ![r] = @ + 1]
    /\ \/ OverCap(received'[r]) /\ Refuse(r)
       \/ ~OverCap(received'[r]) /\ UNCHANGED <<count, pc, refused, answers>>
    /\ UNCHANGED kind

\* The last message: the gates, or 422 for a body that is not JSON.
ReadAll(r) ==
    /\ pc[r] = "read" /\ received[r] = kind[r].size
    /\ \/ Goto(r, "gates") /\ UNCHANGED answers
       \/ Goto(r, "sending") /\ Send(r, 422)
    /\ UNCHANGED <<count, kind, received, refused>>

\* Gates 1 and 2: 401, 403, or on to the cost gate's await.
Gates(r) ==
    /\ pc[r] = "gates"
    /\ \/ Goto(r, "cost") /\ UNCHANGED answers
       \/ Goto(r, "sending") /\ \E status \in {401, 403} : Send(r, status)
    /\ UNCHANGED <<count, kind, received, refused>>

\* Gate 4 (CostGate): 429, or the route; 422, told only once the gates let the
\* caller through, for a body of the wrong shape or a path that names no brief.
Cost(r) ==
    /\ pc[r] = "cost"
    /\ \/ Goto(r, "handler") /\ UNCHANGED answers
       \/ Goto(r, "sending") /\ \E status \in {422, 429} : Send(r, status)
    /\ UNCHANGED <<count, kind, received, refused>>

\* The route answers, an enumerated error included.
Handle(r) ==
    /\ pc[r] = "handler"
    /\ Goto(r, "sending")
    /\ \E status \in {200, 503} : Send(r, status)
    /\ UNCHANGED <<count, kind, received, refused>>

\* The route raises: through every middleware to ServerErrorMiddleware's 500.
Raise(r) ==
    /\ pc[r] = "handler"
    /\ Leave(r)
    /\ Send(r, 500)
    /\ UNCHANGED <<kind, received, refused>>

Sent(r) ==
    /\ pc[r] = "sending"
    /\ Leave(r)
    /\ UNCHANGED <<kind, received, refused, answers>>

\* A CancelledError at any await: only the finally runs.
Cancel(r) ==
    /\ pc[r] \notin {"arrive", "done"}
    /\ Leave(r)
    /\ UNCHANGED <<kind, received, refused, answers>>

Next == \E r \in Requests :
    \/ \E k \in Kind : \/ ArriveTooLong(r, k) \/ ArriveExempt(r, k)
                       \/ ArriveAdmitted(r, k) \/ ArriveShed(r, k)
    \/ Read(r) \/ ReadAll(r) \/ Gates(r) \/ Cost(r)
    \/ Handle(r) \/ Raise(r) \/ Sent(r) \/ Cancel(r)

Spec == Init /\ [][Next]_vars

-----------------------------------------------------------------------------
(* Properties *)

\* Every slot taken is held by a request still inside, and no other: however
\* requests end -- answered, refused in mid-body, raised, cancelled -- the
\* service neither loses a slot for good nor admits one too many
\* (core/inflight.py: every increment is matched by a decrement).  Nothing ever
\* resets the counter, so a slot lost by one app is lost to the next one too.
SlotsExact == count = Cardinality({r \in Requests : Inside(r)}) /\ count <= MaxInflight

\* A route that reads its body never runs a gate on one over the cap, whatever
\* its content-length claims: the client is told 413 and only that, whatever the
\* framework made of the interrupted read.  Nobody else is told 413, and nobody
\* is answered twice (body_limit.py, "WHY THE MIDDLEWARE SENDS THE 413 ITSELF").
RefusedIffTooBig ==
    \A r \in Requests :
        LET k == kind[r] IN
        /\ refused[r] => answers[r] = <<413>> /\ pc[r] = "done"
        /\ 413 \in {answers[r][i] : i \in DOMAIN answers[r]} =>
              Declares(k) \/ k.size > Cap
        /\ k.route = "body" /\ k.size > Cap => pc[r] \notin {"gates", "cost", "handler"}
        /\ Len(answers[r]) <= 1
=============================================================================
