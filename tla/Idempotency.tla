----------------------------- MODULE Idempotency -----------------------------
(***************************************************************************)
(* The life of an idempotency key on db2: state.py's five operations and   *)
(* the part of pipeline._judge that reserves, judges, confirms and         *)
(* releases, for requests that passed the length gate.                     *)
(*                                                                         *)
(* A key stands for (tenant, note_id, fingerprint).  What the reservation  *)
(* buys (steps 5 to 8: attempts, token pre-flight, three model passes,     *)
(* prompt slots) is one step, "judge", that lasts any time up to the       *)
(* deadline and ends in a judgement or in an error.                        *)
(*                                                                         *)
(* Every db2 call may be answered, may fail, and may be cut off (socket    *)
(* timeout, deadline, disconnect, shutdown, hard kill) with its command    *)
(* already on the wire: the server then still runs it, in any order with   *)
(* commands sent on other connections, or never.                           *)
(***************************************************************************)
EXTENDS Integers

CONSTANTS Requests, Keys,
          KeyOf, LeadOf,   \* the key and the lead each request asks about
          Leads,
          Deadline,        \* judgement_deadline_seconds, in ticks
          Grace,           \* the longest a db2 call after the deadline takes:
                           \* pool acquire + connect + socket timeout
          Multiplier,      \* IDEMPOTENCY_INFLIGHT_MULTIPLIER
          LongTtl,         \* config.idempotency_ttl_seconds
          MaxSchema,       \* bound: how many deploys change the schema
          Nobody

ASSUME RequestsAssumption ==
    /\ KeyOf \in [Requests -> Keys]
    /\ LeadOf \in [Requests -> Leads]
    /\ Nobody \notin Requests
ASSUME TimesAssumption ==
    /\ Deadline \in Nat \ {0} /\ Grace \in Nat /\ Multiplier \in Nat
    /\ LongTtl \in Nat /\ MaxSchema \in Nat
    /\ Multiplier * Deadline > Deadline + Grace
    /\ LongTtl >= Multiplier * Deadline

VARIABLES idem,      \* the value under each key
          ttl,       \* ticks until the key expires; 0 = no expiry set
          wire,      \* commands cut off from their caller, not yet run
          pc,        \* where each request is awaiting
          elapsed,   \* ticks since the request's clock started
          seen,      \* the stored judgement a duplicate read back
          answer,    \* what the caller is told
          claimed,   \* history: this request was told it holds the key
          storeFailed, \* history: one of its db2 calls failed
          schema     \* which stored judgements still validate

vars == <<idem, ttl, wire, pc, elapsed, seen, answer, claimed, storeFailed, schema>>

\* mutant: the reservation only lives as long as the deadline.
InflightTtlOneDeadline == Deadline
InflightTtl == Multiplier * Deadline

\* Absent, the fixed byte "1" (`by` is history: the code cannot see it), or
\* the judgement JSON, which names its request, note and lead.
Entry == [st : {"none", "reserved", "judgement"},
          by : Requests \cup {Nobody}, schema : 0..MaxSchema]
Absent == [st |-> "none", by |-> Nobody, schema |-> 0]
Reserved(r) == [st |-> "reserved", by |-> r, schema |-> 0]
Judgement(r) == [st |-> "judgement", by |-> r, schema |-> schema]

Ops == {"reserve", "takeover", "confirm", "delete"}
Cmd(o, r) == [op |-> o, by |-> r]

\* Awaiting inside the deadline, and awaiting at all.
Body == {"reserve", "existing", "takeover", "judge", "confirm", "reference"}
InFlight == Body \cup {"release"}
PC == InFlight \cup {"arrive", "done", "killed"}
Answers == {"none", "judged", "replayed", "duplicate", "unavailable", "failed",
            "cancelled"}

TypeOK ==
    /\ idem \in [Keys -> Entry]
    /\ ttl \in [Keys -> 0..LongTtl]
    /\ wire \subseteq [op : Ops, by : Requests]
    /\ pc \in [Requests -> PC]
    /\ elapsed \in [Requests -> 0..(Deadline + Grace)]
    /\ seen \in [Requests -> Entry]
    /\ answer \in [Requests -> Answers]
    /\ claimed \in [Requests -> BOOLEAN]
    /\ storeFailed \in [Requests -> BOOLEAN]
    /\ schema \in 0..MaxSchema

Init ==
    /\ idem = [k \in Keys |-> Absent]
    /\ ttl = [k \in Keys |-> 0]
    /\ wire = {}
    /\ pc = [r \in Requests |-> "arrive"]
    /\ elapsed = [r \in Requests |-> 0]
    /\ seen = [r \in Requests |-> Absent]
    /\ answer = [r \in Requests |-> "none"]
    /\ claimed = [r \in Requests |-> FALSE]
    /\ storeFailed = [r \in Requests |-> FALSE]
    /\ schema = 0

-----------------------------------------------------------------------------
(* What the server does for each command. *)

Put(k, v, t) ==
    /\ idem' = [idem EXCEPT ![k] = v]
    /\ ttl' = [ttl EXCEPT ![k] = t]

NoEffect == UNCHANGED <<idem, ttl>>

\* mutant: SET NX without EX.
SetNXNoExpiry(r) ==
    IF idem[KeyOf[r]].st = "none" THEN Put(KeyOf[r], Reserved(r), 0) ELSE NoEffect
\* SET key "1" NX EX inflight_ttl
SetNX(r) ==
    IF idem[KeyOf[r]].st = "none"
      THEN Put(KeyOf[r], Reserved(r), InflightTtl) ELSE NoEffect

\* _TAKE_OVER_SCRIPT: only if the value is still the one that was read.
TakeOverScript(r) ==
    IF idem[KeyOf[r]] = seen[r]
      THEN Put(KeyOf[r], Reserved(r), InflightTtl) ELSE NoEffect

\* SET key judgement XX EX long_ttl
SetXX(r) ==
    IF idem[KeyOf[r]].st # "none"
      THEN Put(KeyOf[r], Judgement(r), LongTtl) ELSE NoEffect

\* DEL key
Del(r) == Put(KeyOf[r], Absent, 0)

-----------------------------------------------------------------------------
Goto(r, p) == pc' = [pc EXCEPT ![r] = p]
Finish(r, a) == Goto(r, "done") /\ answer' = [answer EXCEPT ![r] = a]

\* The command never reaches the server, or is left on the wire.
CutOff(r, o) == wire' = wire \/ wire' = wire \cup {Cmd(o, r)}

\* The request's clock starts.
Start(r) ==
    /\ pc[r] = "arrive"
    /\ Goto(r, "reserve")
    /\ NoEffect
    /\ UNCHANGED <<wire, elapsed, seen, answer, claimed, storeFailed, schema>>

\* reserve_idempotency answered: claimed, or someone already has it.
ReserveAnswered(r) ==
    /\ pc[r] = "reserve"
    /\ SetNX(r)
    /\ Goto(r, IF idem[KeyOf[r]].st = "none" THEN "judge" ELSE "existing")
    /\ claimed' = [claimed EXCEPT ![r] = idem[KeyOf[r]].st = "none"]
    /\ UNCHANGED <<wire, elapsed, seen, answer, storeFailed, schema>>

\* mutant: a stored judgement is replayed whatever lead it was made for.
ReadAnsweredAnyLead(r) ==
    LET v == idem[KeyOf[r]] IN
    /\ pc[r] = "existing"
    /\ \/ /\ v.st # "judgement"
          /\ Finish(r, "duplicate") /\ UNCHANGED seen
       \/ /\ v.st = "judgement" /\ v.schema # schema
          /\ Goto(r, "takeover") /\ seen' = [seen EXCEPT ![r] = v] /\ UNCHANGED answer
       \/ /\ v.st = "judgement" /\ v.schema = schema
          /\ Finish(r, "replayed") /\ seen' = [seen EXCEPT ![r] = v]
    /\ NoEffect
    /\ UNCHANGED <<wire, elapsed, claimed, storeFailed, schema>>
\* mutant: a judgement for another lead counts as one that does not validate.
ReadAnsweredOtherLeadInvalid(r) ==
    LET v == idem[KeyOf[r]]
        valid == v.schema = schema /\ LeadOf[v.by] = LeadOf[r] IN
    /\ pc[r] = "existing"
    /\ \/ /\ v.st # "judgement"
          /\ Finish(r, "duplicate") /\ UNCHANGED seen
       \/ /\ v.st = "judgement" /\ ~valid
          /\ Goto(r, "takeover") /\ seen' = [seen EXCEPT ![r] = v] /\ UNCHANGED answer
       \/ /\ v.st = "judgement" /\ valid
          /\ Finish(r, "replayed") /\ seen' = [seen EXCEPT ![r] = v]
    /\ NoEffect
    /\ UNCHANGED <<wire, elapsed, claimed, storeFailed, schema>>
\* _existing_judgement read the key: 409 while it is only reserved or gone;
\* taken over when it no longer validates; 409 for another lead; replayed.
ReadAnswered(r) ==
    LET v == idem[KeyOf[r]] IN
    /\ pc[r] = "existing"
    /\ \/ /\ v.st # "judgement"
          /\ Finish(r, "duplicate") /\ UNCHANGED seen
       \/ /\ v.st = "judgement" /\ v.schema # schema
          /\ Goto(r, "takeover") /\ seen' = [seen EXCEPT ![r] = v] /\ UNCHANGED answer
       \/ /\ v.st = "judgement" /\ v.schema = schema /\ LeadOf[v.by] # LeadOf[r]
          /\ Finish(r, "duplicate") /\ UNCHANGED seen
       \/ /\ v.st = "judgement" /\ v.schema = schema /\ LeadOf[v.by] = LeadOf[r]
          /\ Finish(r, "replayed") /\ seen' = [seen EXCEPT ![r] = v]
    /\ NoEffect
    /\ UNCHANGED <<wire, elapsed, claimed, storeFailed, schema>>

\* take_over_idempotency answered: ours to judge again, or 409.
TakeOverAnswered(r) ==
    /\ pc[r] = "takeover"
    /\ TakeOverScript(r)
    /\ \/ /\ idem[KeyOf[r]] = seen[r]
          /\ Goto(r, "judge") /\ UNCHANGED answer
          /\ claimed' = [claimed EXCEPT ![r] = TRUE]
       \/ /\ idem[KeyOf[r]] # seen[r]
          /\ Finish(r, "duplicate") /\ UNCHANGED claimed
    /\ UNCHANGED <<wire, elapsed, seen, storeFailed, schema>>

\* Before the claim every RedisError is a 503 idempotency_unavailable.
ClaimFails(r) ==
    /\ \/ pc[r] = "reserve" /\ CutOff(r, "reserve")
       \/ pc[r] = "existing" /\ UNCHANGED wire
       \/ pc[r] = "takeover" /\ CutOff(r, "takeover")
    /\ Finish(r, "unavailable")
    /\ storeFailed' = [storeFailed EXCEPT ![r] = TRUE]
    /\ NoEffect
    /\ UNCHANGED <<elapsed, seen, claimed, schema>>

\* Steps 5 to 8 produce a judgement, or raise: the `except BaseException`
\* block releases the key.
Judge(r) ==
    /\ pc[r] = "judge"
    /\ \/ Goto(r, "confirm") /\ UNCHANGED answer
       \/ Goto(r, "release") /\ answer' = [answer EXCEPT ![r] = "failed"]
    /\ NoEffect
    /\ UNCHANGED <<wire, elapsed, seen, claimed, storeFailed, schema>>

\* confirm_idempotency answered, or failed open.
Confirm(r) ==
    /\ pc[r] = "confirm"
    /\ \/ SetXX(r) /\ UNCHANGED <<wire, storeFailed>>
       \/ /\ CutOff(r, "confirm") /\ NoEffect
          /\ storeFailed' = [storeFailed EXCEPT ![r] = TRUE]
    /\ Goto(r, "reference")
    /\ UNCHANGED <<elapsed, seen, answer, claimed, schema>>

\* Step 10 and the outcome line, outside the try: the judgement is returned.
Reference(r) ==
    /\ pc[r] = "reference"
    /\ Finish(r, "judged")
    /\ NoEffect
    /\ UNCHANGED <<wire, elapsed, seen, claimed, storeFailed, schema>>

\* release_idempotency answered, or failed and swallowed; the original error
\* is re-raised.
Release(r) ==
    /\ pc[r] = "release"
    /\ \/ Del(r) /\ UNCHANGED <<wire, storeFailed>>
       \/ /\ CutOff(r, "delete") /\ NoEffect
          /\ storeFailed' = [storeFailed EXCEPT ![r] = TRUE]
    /\ Goto(r, "done")
    /\ UNCHANGED <<elapsed, seen, answer, claimed, schema>>

\* The deadline passes, the client goes away or the worker shuts down: a
\* CancelledError at the request's await.  Before the claim is known nothing
\* is released; inside the try the key is released first; during the release
\* the shield lets the DEL go on without its caller.
CancelBeforeClaim(r) ==
    /\ \/ pc[r] = "reserve" /\ CutOff(r, "reserve")
       \/ pc[r] = "existing" /\ UNCHANGED wire
       \/ pc[r] = "takeover" /\ CutOff(r, "takeover")
    /\ Goto(r, "done")
    /\ NoEffect

\* mutant: the release runs on Exception, which CancelledError is not.
CancelInTryExceptionOnly(r) ==
    /\ pc[r] \in {"judge", "confirm"} /\ UNCHANGED wire
    /\ Goto(r, "done") /\ NoEffect
CancelInTry(r) ==
    /\ \/ pc[r] = "judge" /\ UNCHANGED wire
       \/ pc[r] = "confirm" /\ CutOff(r, "confirm")
    /\ Goto(r, "release")
    /\ NoEffect

CancelAfterTry(r) ==
    /\ \/ pc[r] = "release" /\ wire' = wire \cup {Cmd("delete", r)}
       \/ pc[r] = "reference" /\ UNCHANGED wire
    /\ Goto(r, "done")
    /\ NoEffect

Cancel(r) ==
    /\ CancelBeforeClaim(r) \/ CancelInTry(r) \/ CancelAfterTry(r)
    /\ answer' = [answer EXCEPT ![r] = "cancelled"]
    /\ UNCHANGED <<elapsed, seen, claimed, storeFailed, schema>>

\* The command a request is awaiting, if it is one that writes.
Awaited(r) == {Cmd(o, r) : o \in {x \in Ops :
                 \/ x = pc[r]
                 \/ x = "delete" /\ pc[r] = "release"}}

\* A worker killed outright runs no except and no finally.
Kill(r) ==
    /\ pc[r] \in InFlight
    /\ Goto(r, "killed")
    /\ wire' = wire \/ wire' = wire \cup Awaited(r)
    /\ NoEffect
    /\ UNCHANGED <<elapsed, seen, answer, claimed, storeFailed, schema>>

-----------------------------------------------------------------------------
\* The server runs, or never gets, a command its caller no longer waits for.
RunLate(c) ==
    /\ \/ c.op = "reserve" /\ SetNX(c.by)
       \/ c.op = "takeover" /\ TakeOverScript(c.by)
       \/ c.op = "confirm" /\ SetXX(c.by)
       \/ c.op = "delete" /\ Del(c.by)
    /\ UNCHANGED storeFailed

DropLate(c) ==
    /\ NoEffect
    /\ storeFailed' = [storeFailed EXCEPT ![c.by] = TRUE]

Late ==
    \E c \in wire :
        /\ wire' = wire \ {c}
        /\ RunLate(c) \/ DropLate(c)
        /\ UNCHANGED <<pc, elapsed, seen, answer, claimed, schema>>

\* Still on the request's clock: awaiting, or with a command on its way.
Live(r) == pc[r] \in InFlight \/ \E c \in wire : c.by = r

Advance ==
    /\ idem' = [k \in Keys |-> IF ttl[k] = 1 THEN Absent ELSE idem[k]]
    /\ ttl' = [k \in Keys |-> IF ttl[k] = 0 THEN 0 ELSE ttl[k] - 1]
    /\ elapsed' = [r \in Requests |-> IF Live(r) THEN elapsed[r] + 1 ELSE 0]
    /\ UNCHANGED <<wire, pc, seen, answer, claimed, storeFailed, schema>>

\* mutant: no asyncio.timeout around the body.
TickNoDeadline ==
    /\ \A r \in Requests : Live(r) /\ pc[r] \notin Body => elapsed[r] < Deadline + Grace
    /\ Advance
\* Time passes for the keys and for the requests.  asyncio.timeout ends the
\* body at the deadline, and db2's own timeouts end the release and bound how
\* late a cut-off command can land, so time does not run past any of them.
Tick ==
    /\ \A r \in Requests : /\ pc[r] \in Body => elapsed[r] < Deadline
                           /\ Live(r) => elapsed[r] < Deadline + Grace
    /\ Advance

\* A new version of the service whose Judgement schema refuses what the old
\* one stored.  Every worker is replaced, so requests in flight die with it.
Deploy ==
    /\ schema < MaxSchema
    /\ wire = {}
    /\ schema' = schema + 1
    /\ pc' = [r \in Requests |-> IF pc[r] \in InFlight THEN "killed" ELSE pc[r]]
    /\ NoEffect
    /\ UNCHANGED <<wire, elapsed, seen, answer, claimed, storeFailed>>

Step(r) ==
    \/ Start(r) \/ ReserveAnswered(r) \/ ReadAnswered(r) \/ TakeOverAnswered(r)
    \/ ClaimFails(r) \/ Judge(r) \/ Confirm(r) \/ Reference(r) \/ Release(r)
    \/ Cancel(r)

Next ==
    \/ \E r \in Requests : Step(r) \/ Kill(r)
    \/ Late
    \/ Tick
    \/ Deploy

Spec == Init /\ [][Next]_vars

\* Requests make progress or are cancelled at the deadline, cut-off commands
\* land or are lost, and the clock runs.
Fairness ==
    /\ WF_vars(Tick) /\ WF_vars(Late)
    /\ \A r \in Requests : WF_vars(pc[r] # "arrive" /\ Step(r))

FairSpec == Spec /\ Fairness

-----------------------------------------------------------------------------
(* Properties *)

\* What a caller and its repeats can tell of the protocol: the mapping to
\* JudgeOnce.  A request judges from its claim until the confirm has answered.
PhaseOf(p) ==
    CASE p \in {"judge", "confirm"} -> "judging"
      [] p = "reference" -> "made"
      [] p \in {"release", "done", "killed"} -> "ended"
      [] OTHER -> "waiting"
Phases == [r \in Requests |-> PhaseOf(pc[r])]
Shelves == [k \in Keys |-> IF idem[k].st = "judgement" /\ idem[k].schema = schema
                             THEN idem[k].by ELSE Nobody]
Told == [r \in Requests |-> CASE answer[r] = "judged" -> r
                               [] answer[r] = "replayed" -> seen[r].by
                               [] OTHER -> Nobody]
Begun == {r \in Requests : claimed[r]}

JO == INSTANCE JudgeOnce WITH phase <- Phases, shelf <- Shelves, told <- Told,
                              begun <- Begun

\* The reservation protocol of pipeline._judge and state.py, with everything db2
\* and the network may do to it, judges once per key: it implements JudgeOnce.
JudgesOnce == JO!Promise

\* At most one request per key is between its claim and its answer, whatever
\* is cancelled, killed, expired, taken over or late: a double submit never
\* pays for two judgements at once.
SingleFlight ==
    \A r, s \in Requests :
        KeyOf[r] = KeyOf[s] /\ {pc[r], pc[s]} \subseteq {"judge", "confirm"} => r = s

\* A replay answers the caller's own question: the judgement of a request for
\* the same note text and the same lead, whatever take-over, late confirm or
\* deploy came between the caller's SET NX and its read of the key.
ReplayFaithful ==
    \A r \in Requests : answer[r] = "replayed" =>
        /\ seen[r].st = "judgement"
        /\ KeyOf[seen[r].by] = KeyOf[r]
        /\ LeadOf[seen[r].by] = LeadOf[r]

\* A request that was told it holds the key and ends without a judgement does
\* not leave the caller's retry a 409, unless db2 itself failed it.
FailureReleases ==
    \A r \in Requests :
        /\ pc[r] = "done" /\ answer[r] \in {"failed", "cancelled"}
        /\ claimed[r] /\ ~storeFailed[r]
        /\ \A c \in wire : c.by # r
        => idem[KeyOf[r]] # Reserved(r)

\* A stored judgement that its caller was given goes away only by expiring (or
\* when a deploy makes it unreadable): no late DEL, no take-over and no failing
\* duplicate makes the note be judged, and asked about, again.
AnsweredJudgementKept ==
    [][\A k \in Keys :
         /\ idem[k].st = "judgement" /\ idem[k].schema = schema
         /\ answer[idem[k].by] = "judged" /\ ttl[k] > 1
         => idem'[k].st = "judgement"]_vars

\* Liveness: no reservation outlives its request for good, not even one whose
\* worker was killed or whose SET landed after the caller had gone.
ReservationEnds ==
    \A r \in Requests : idem[KeyOf[r]] = Reserved(r) ~> idem[KeyOf[r]] # Reserved(r)

\* What pipeline.py says of every exit after the reservation -- "the deadline
\* passed, the client went away, the worker is shutting down -- the caller must
\* be able to retry" -- with every db2 command carried out.
ReleasedOnAnyExit ==
    \A r \in Requests :
        /\ pc[r] = "done" /\ answer[r] \in {"failed", "cancelled"}
        /\ ~storeFailed[r] /\ wire = {}
        => idem[KeyOf[r]] # Reserved(r)

\* What confirm_idempotency says: SET XX EX "only ever REPLACES the reservation
\* this request holds" -- a step that stores r's judgement finds r's key.
ConfirmReplacesOwn ==
    [][\A r \in Requests :
         idem'[KeyOf[r]] = Judgement(r) /\ idem[KeyOf[r]] # Judgement(r)
         => idem[KeyOf[r]].by = r]_vars
=============================================================================
