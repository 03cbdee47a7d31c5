# TLA+ verification of DODEAL AI

This directory models the service in `src/src/dodeal_ai` in TLA+, checks the
models with TLC and proves the most important results with TLAPS. Paths below
are relative to `src/src/dodeal_ai` unless they start with `src/`;
`unit_a` is short for `units/structured_intelligence`.

Run a check with `tlc -config X.cfg M`, a proof with `tlapm M.tla`. `PROJECT.json`
lists every checked run with its module and configuration, the source lines of every
definition, the mutations that each property is known to catch, the hazards and
the findings.

## 1. The system

A FastAPI process on one event loop judges notes that salespeople write in a
CRM. A judgement reads the lead and the note over HTTP (or is handed the note),
reserves an idempotency key in Redis, pays for up to three passes of a language
model, scores the answers with a tenant's rubric, decides whether to ask the
salesperson a question, and returns. Several processes share the Redis servers.

| Component | State it keeps | Operations | Talks to |
| --- | --- | --- | --- |
| Middlewares (`middleware/`, `core/inflight.py`) | in-flight count, bytes counted | arrive, read, answer, leave | routes |
| Gates (`core/auth`, `core/tenancy.py`, `core/cost/limiter.py`) | request counters on db1 | verify, match the host, `enforce_cost` | cost Redis through its breaker |
| CRM reads (`tools/`, `core/resilience.py`) | two or three tasks and their retries | `get_lead`, `get_lead_notes`, `_fetch_note` | CRM over HTTP |
| Pipeline (`unit_a/pipeline.py`) | the judgement's local variables, its deadline | `judge_note`, `judge_note_direct`, `_judge` | everything below |
| Idempotency (`unit_a/state.py`) | one key per tenant, note and text on db2 | reserve, read, take over, confirm, release | operational Redis |
| Prompt guards (`unit_a/state.py`, `decide.py`) | attempt, hourly and daily counters, reference | take slots, read, write reference, `decide` | operational Redis |
| Token budget (`core/cost/limiter.py`) | token counters on db1 | pre-flight, charge, warn | cost Redis |
| Model passes (`unit_a/llm_call.py`, `core/llm/`) | three tasks, two parallel | call, fall back, charge, parse, reprompt | providers over HTTP |
| Circuit breakers (`core/breaker.py`) | state, failure count, two stamps | admit, end, reset | wraps Redis and provider calls |
| Rubric (`unit_a/config.py`, `scoring.py`) | tenant files, read once at startup | accept or refuse, recognise a short note, score | pipeline |
| Lifespan (`main.py`, `serve.py`) | caches of templates and tenant files, two HTTP pools, two Redis clients | start, refuse, serve, drain, close | all of the above |
| Briefs (`unit_a/measures.py`, `brief.py`, ...) | none: reads rows and a directory | three measures, three briefs | a file of rows |

What is hard in it:

* **One loop, many awaits.** Code between two awaits is atomic; state read before
  an await is stale after it (attempt count, token reading, breaker state).
* **Cancellation everywhere.** A deadline, a disconnect and a shutdown all arrive
  as a `CancelledError` at whatever await is pending, cleanup included.
* **Commands without callers.** A Redis command whose caller timed out or was
  cancelled may still be run, later than commands sent after it, or never.
* **Two policies for one store.** The reservation fails closed; every counter
  fails open.
* **Money.** A call may be billed whether or not its answer arrives.
* **Two clocks.** The issuer's stamps are compared with ours.
* **Module state outlives an app**, and a shutdown races the requests inside.
* **Integer rubrics** and word tables that tenants edit.

`PROJECT.json` lists the hazards at their lines.

## 2. The modules

| Module | Models | Composed with |
| --- | --- | --- |
| `CircuitBreaker` | `core/breaker.py` | abstracted as one way to be refused elsewhere |
| `JudgeOnce` | nothing by itself: what the reservation promises its callers | implemented by `Idempotency` |
| `Idempotency` | the key's life and the part of `_judge` that owns it | maps itself to `JudgeOnce`; `ModelPasses` and `PromptSlots` are its one step "judge" |
| `PromptSlots` | the three counters, the reference, `decide` | takes place inside "judge" and after "confirm" |
| `CostGate` | gate 4 | extended by `Gates` |
| `Gates` | gates 1 and 2, two clocks, and what comes through them to gate 4 | the "gates" and "cost" awaits of `Ingress` |
| `TokenBudget` | pre-flight and charges of many judgements | a judgement's calls are `ModelPasses` |
| `ModelPasses` | the paid part of one judgement | its `reprompt` is the answer of the pre-flight |
| `Ingress` | three middlewares and the gate order | extended by `Service` |
| `Service` | `main.lifespan`, `serve.py`: several apps in one process, each serving the requests of `Ingress` | |
| `Fetch` | the CRM reads before a judgement | |
| `LengthGate` | the text of a note against the floor and the short-note tables | extended by `Judging` |
| `Scoring` | tenant files and the arithmetic | extended by `Judging` |
| `Judging` | a note from its first word to its score | |
| `Briefs` | measures, briefs and the brief route | |

Every proof module extends what it proves about: `ResilienceProofs` (`CircuitBreaker`,
then `Fetch`), `IdempotencyProofs` (single flight, then the refinement of `JudgeOnce`, then
what callers are told), `PromptSlotsProofs`, `TokenBudgetProofs`, `ModelPassesProofs`,
`GatesProofs` (with `CostGate`), `JudgingProofs` (`Scoring`, then the length gate, then
`Briefs`) and `ServiceProofs` (with `Ingress`). `MC*` modules only give values to constants and name symmetric sets; modules
whose constants are plain sets and numbers are checked directly.

### How state and actions correspond to the code

* **CircuitBreaker.** `state`, `failures` and the two stamps are the object's
  fields; stamps are kept as ages, which is all the code compares. `Admit` is
  `_admit` (a refusal changes nothing, so it is no step); the four `End...`
  actions are the return and the three branches of `call`'s `except`. `prober`
  and `evidence` are history: the code does not know which call is the probe.
* **Idempotency.** `idem` and `ttl` are Redis, `wire` holds commands cut off from
  their caller, `pc` is the await a request is at. `SetNX`, `TakeOverScript`,
  `SetXX` and `Del` are what the server does. Steps 5 to 8 of `_judge` are one
  action that takes any time up to the deadline. `Cancel` is split by where it
  lands: before the claim is known (nothing released), inside the `try` (the
  release runs), during or after the release (the shield lets the `DEL` go on).
  `Kill` is a process that runs no `except`. `Deploy` replaces every worker at
  once, with a schema that refuses what is stored.
* **JudgeOnce.** Four variables (where a request is, whose judgement is on a key's
  shelf, whose judgement a caller was told, who was let judge) and no store, TTL, wire or
  clock. The mapping is at the end of `Idempotency`: a request is *judging* from its claim
  until its confirm was answered; a shelf holds a stored judgement of the schema in
  force; a reservation, an expiry, a late `DEL` and a deploy are `Clear` or a stutter, and
  a confirm that lands late is `ShelveLate`.
* **PromptSlots.** `TakeScript` is the Lua script, `PromptSlotsAnswer` its decoder,
  `Decide` and `WithheldReason` are `decide.py`. `Passes` is the provisional
  `decide` that picks the trip. `read` is the count read at step 5.
* **Gates.** A token is signed or not, names a tenant and a subject or fails to, and has
  an age by the issuer's clock; `skew` is how far ours is ahead, and `Drift` sets either
  clock while a request waits for `get_verifier` on its thread. From there to the script
  of gate 4 there is no await, so `PassGates` is one step that ends in 401, 403 or at gate 4.
* **CostGate, TokenBudget.** `IncrBothScript` and `AddTokensScript` are the scripts;
  `count` and `total` the keys with their remaining time, -1 for a key without one.
  In `TokenBudget` a slot is one place under `max_inflight`, running judgements
  one after another for ever.
* **ModelPasses.** `pc` is the await of each pass (the model call, or the charge);
  `judge` that of `_judge`. `billed` is the environment's knowledge. The failure
  classes and which of them go to the fallback are the adapter's.
* **Ingress.** One action per stretch between two awaits; the pure ASGI stack makes
  the order of the middlewares visible in `Leave` and `Send`.
* **Service.** `stage` is the place in `lifespan`: startup has no await, yet each of
  its steps may refuse, so each is an action. `templates` and `tenants` say which app
  filled the module-level caches, `open` which pools may hold sockets; the in-flight count
  is module state too, and an app starts with what the one before it left. `Request` runs
  an action of `Ingress`; `GraceOver` is uvicorn's `timeout_graceful_shutdown`, which
  cancels what is inside and goes on without waiting for it.
* **Fetch.** `read` is a task of `call_with_watchdog`; `Leave` is `_cancel_and_drain`;
  time is exact, because the properties are about the deadline.
* **LengthGate.** A word is a stem, whether a number and whether punctuation trails it,
  which is all that `_short_note_words` and `_is_recognised_short_note` look at. The words
  of a note are numbered by their places in it (`WordsAt`, `Nth`).
* **Scoring.** A tenant file is a record over the default; `Typed` is what the pydantic
  model makes of its fields before `_check` looks at them, `FieldsAllowed` its bounds.
* **Scoring, Judging, Briefs.** The operators are the pure functions, in the source's names;
  the actions are the inputs they meet over time (a file is loaded, a word is
  written, a note is rewritten, a row is recorded, a day passes). In `Briefs` a list of rows
  is the set of their positions, which is what `rows_between`, `_rep_notes`, `_by_author` and
  the measures make of the one recorded sequence; its order is the order of positions.

## 3. What the runs show

| Run | Properties | What could go wrong |
| --- | --- | --- |
| `breaker` | `ClosedBelowThreshold`, `ProbeOutstanding`, `OpensOnlyOnEvidence`, `ClosesOnceHealthy` | stale results open or wedge the breaker |
| `idempotency` | `SingleFlight`, `ReplayFaithful`, `FailureReleases`, `AnsweredJudgementKept` | two paid judgements of one submit; a replay for another lead; a failure that locks the note; a judgement that is forgotten |
| `idempotency_live` | `ReservationEnds`, `JudgesOnce` | a note locked for good; a behaviour of the store that the promise of `JudgeOnce` has no step for |
| `prompt_slots` | `CapsHold`, `SlotTakenIffSent`, `AttemptNumbersDistinct`, `WindowsRunDown` | a cap passed by overlapping judgements; a slot for a question nobody got; two first questions |
| `gates` | `AdmittedWithinCap`, `CountsInsideAWindow`, `CountedAsWhoTheyAre`, `SkewTolerated` | a quota passed or spent by somebody else, a caller locked out for longer than a window, a live token refused because clocks differ |
| `token_budget` | `OvershootBounded`, `WarnedOnce` | a check so far from its charge that spend is unbounded; silent or repeated warnings |
| `model_passes` | `NothingLeftRunning`, `SpendBounded`, `ResultFaithful`, `JudgementEnds` | an orphaned paid call, a double payment, a swallowed cancellation |
| `service` | `SlotsExact`, `RefusedIffTooBig`, `ServesWhatItLoaded`, `LeavesNothing`, `DrainFinishes`, `ShutdownEnds` | a leaked slot, two answers, a route on another app's tenant files, a pool left open, a paid judgement cut off, a pod that does not stop |
| `fetch` | `LeadErrorWins`, `OutageToldAsOutage`, `DeadlineCutsNoWait` | a 404 told as a 503, an outage told as a deadline |
| `judging` | `OutcomeBeforeSpend`, `FillerKeepsOutcome`, `CompleteScoresFull`, `BetterNeverScoresLower` | three calls paid for a note that says nothing, an outcome hidden by a comma, a rubric or a rounding that punishes a better note |
| `briefs` | `SameFiguresAtEveryAltitude`, `FiguresReachUp`, `ImprovementKept` | a rep and a manager reading different numbers; a leader sent nothing although one of the team is sent a brief; an improvement taken back |
| `accepted_rubric_scores` | `AcceptedRubricScores` (violated) | see section 5 |

Every module states its types (`TypeOK`, `ServiceTypeOK`, `GatesTypeOK`, `FetchTypeOK`,
`BriefsTypeOK`); they are part of the proved invariants and not repeated in a run. Every property is violated by at least one plausible change of
the code; these mutated definitions stand beside the originals, marked `mutant:` in
their comment.

### Bounds, and why they are enough

* **CircuitBreaker**: three callers, one of which may be lost, threshold 2, window 2
  ticks. A straggler, a probe and a take-over need three calls; ages and counts
  saturate where the code stops distinguishing them, so time is not bounded.
* **Idempotency**: three requests for one key (two leads), one schema change;
  deadline 1, in-flight TTL 2. Keys do not interact, so one is enough. The live
  run has two requests and a grace of 1.
* **PromptSlots**: three judgements of one note, two of them asked for by the same
  subject, with an attempt cap of 2, one question an hour and two a day, so that
  each counter refuses before the others in some order; a counter left at its cap
  without a TTL, as an earlier version of the script could leave, is an initial state.
* **Gates**: three requests, one charging 2, from two users of one tenant and one of
  another; tenant caps of 2, user caps of 1, so that each refuses first somewhere; a
  counter without a TTL; tokens of life 2 sent fresh or at their end, clocks one apart and a
  leeway of one, so that a token is on each side of each comparison.
* **TokenBudget**: two slots of two users of one tenant; a pass is one call and one
  reprompt; `MaxBypasses` and `MaxLost` bound the failures of the store (each
  raises the bound that is checked). Judgements are not bounded.
* **ModelPasses**: exactly the code's three passes, two attempts, two providers.
* **Service**: two requests for one slot, so that one is shed; a body of any length is
  already over the cap of 0 or is empty; two apps in turn, so that a cache left behind
  has a reader; six settings, one for each branch of `build_llm_client`; a route lasts 1, the
  grace 2. `ServiceProofs` lifts requests, cap, settings, apps and times.
* **Fetch**: times are scaled (deadline 11, call 4, cap 2, pause 1, reread needs 2)
  keeping `FitsAssumption`, which the shipped numbers satisfy.
* **Judging**: 26 files: accepted ones with weights that divide badly or vanish for one
  type, some with short-note tables or floors of their own, and one refused by each rule.
  Notes of up to three words out of nine, which are codes, fillers, the parts of a
  phrase, numbers and punctuation: a phrase of two with a filler after it is the longest
  shape the rule tells apart. Two note types are all that the suppression table
  distinguishes.
* **Briefs**: three notes of three authors, at most three rows, four days, a window of
  two, an evidence floor of two, two config versions, three directories. Two notes make a
  figure and a third, stamped anew, takes the average away: three rows tell a pooled
  measure from those of its parts. The run takes about a minute and a half.

Symmetry is only used where no liveness property is checked and the symmetric
elements have equal constants. `CHECK_DEADLOCK FALSE` appears where the model
really stops: all requests answered, the judgement over, a refused file, or the
exploration bounds of `Briefs` reached.

### Assumptions on the environment

* A command cut off from its caller lands or is lost within deadline plus grace:
  the request's deadline ends its last await and db2's own socket and connect timeouts
  end the release. `Tick` in `Idempotency` does not run past either.
* `Multiplier * Deadline > Deadline + Grace`: 4 x 25 s against 25 s and about 2 s at
  the defaults. `LongTtl >= Multiplier * Deadline`: 24 h against 100 s. Both are
  assumptions of the proof; neither is enforced by `core/config.py`, where a tenant
  may set any positive `idempotency_ttl_seconds`.
* A deploy replaces all workers together; with a rolling deploy two schemas would
  serve at once, which is not modelled.
* `MaxSkew <= Leeway`: the clocks are no further apart than the 30 s of
  `jwt_leeway_seconds`. The verifier compares whole seconds; a tick stands for one.
* `HandlerTime < Graceful`: a route that ran into its 25 s deadline and released its key is
  over within the 30 s of `serve.py`. `judgement_deadline_seconds` can be set above it;
  nothing compares the two.
* `FitsAssumption` of `Fetch`: two attempts with their longest wait fit before the deadline,
  as they do with the shipped numbers; nothing refuses others.

### Fairness

* `CircuitBreaker`: the clock runs; a caller that is not lost keeps calling, and its
  call ends. Once the store is back a call it is sent succeeds, while one it was sent
  before (`late`) may still fail, be cancelled or end in any order. A lost task is
  promised nothing.
* `Idempotency`: requests past their arrival proceed (the deadline cancels what does
  not), commands on the wire land or are lost, keys expire. Arrivals are not fair.
* `Service`: a route ends (its deadline), time passes while draining, uvicorn's own timeout
  fires, and the lifespan's steps after the yield are taken. No client is assumed to send
  its body or read its answer.
* `ModelPasses`: the HTTP budget and the watchdog end every call, and the loop resumes
  ready tasks. Nobody is assumed to cancel.

## 4. What is proved

* `BreakerTypeOK`, `BreakerClosedBelowThreshold`, `BreakerProbeOutstanding` and
  `BreakerOpensOnlyOnEvidence` hold for any callers, threshold and window. The
  inductive invariant adds to the first three that the recorded failure count is
  never ahead of the consecutive failures seen: without it nothing says that the
  failure that opens a closed breaker is the threshold-th in a row.
* `IdempotencyTypeOK` and `IdempotencySingleFlight` hold for any requests, keys, leads
  and times that satisfy `TimesAssumption`. A request claims its key from the
  answer to its `SET NX` or take-over until its `DEL` has run or it has answered.
  The invariant says that claims on one key exclude each other (`OneClaim`), that
  a claimed key holds the claimant's reservation or a readable judgement and has
  at least as long to live as the claimant (`ClaimHolds`: remaining time plus age is at
  least the in-flight TTL), that a take-over only matches an unreadable
  judgement (`TakeOverIsStale`) and that commands left on the wire belong to
  requests that have ended (`SenderEnded`). It cannot be weakened to `SingleFlight` alone:
  a late `DEL` would free a key under its next holder.

* `IdempotencyJudgesOnce`: `Idempotency` implements `JudgeOnce`. Each step is mapped
  to one of its steps or a stutter, by an invariant (`RInv`) added to `IInv`: only who was
  told it holds a key judges or has a confirm on the wire (`JudgesIfClaimed`,
  `StoresIfClaimed`), nobody in flight was answered, a releasing request will not be told
  a judgement, and nothing stored is of a schema to come. With `ClaimHolds` the first
  gives the guard of `Begin`: a reservation is only granted where no readable
  judgement lies.
* `IdempotencyReplayFaithful`, `IdempotencyFailureReleases` and
  `IdempotencyAnsweredKept` need more (`KInv`): whose key an entry lies under, who may
  still have a claim or a `DEL` on the wire, and above all `Kept`. A request whose
  confirm was cut off answers its caller all the same, and its `SET XX` may land later; until it
  does, or is lost, its key cannot be claimed by another, for its reservation
  outlives the command. Hence what a claimant's `DEL` may remove was given to nobody
  (`DoomedUntold`).
* `PromptCapsHold`, `PromptSlotTakenIffSent`, `PromptNumbersDistinct` and
  `PromptWindowsRunDown` hold for any judgements, notes, subjects, caps and windows. The
  invariant ties a counter's existence to its window, allows only a judgement with
  something to ask to make the trip, takes slots nowhere else while the store answers
  (`LateIsBypassed`), and bounds every number told by the counter (`NumbersCounted`): a
  number is fresh because the counter has just passed it.
* `GatesTyped`, `GatesCountedAsWhoTheyAre`, `GatesCountInsideAWindow` and `GatesSkewTolerated`
  hold for any requests, callers, counters and times with `ClockAssumption`.
  Whatever is at gate 4, on the wire or counted is `Vetted`: its token was verified for
  the host it came by and its context is what the token said. `SkewTolerated` is
  arithmetic on ages, leeway and drift.
* `GatesAdmittedWithinCap`, for any amounts and caps, late scripts and counters found without a
  TTL. Quota is counted as a set of units, one pair of request and number for each
  unit a request charges, so that the sum is a cardinality. The invariant (`QuotaInv`) says
  that the units of the requests counted since the last expiry are at most the
  counter (`CountCovers`), and that whoever was counted got its verdict then
  (`CountedAreDone`); a request is only allowed if the counter that has just counted it
  is within its cap.
* `GatesImplementCostGate`: `Gates` implements `CostGate`, a caller that gates 1 or 2 turned away
  being one that never came. Tokens, hosts and clocks decide who comes and nothing else.
* `BudgetTyped`, `BudgetOvershootBounded` and `BudgetWarnedOnce` hold for any slots, users, budgets,
  warning thresholds and call sizes that have a largest. `WarnedOnce` is inductive with the
  types. The overshoot needs a potential (`LoadWithin`): what is on the counter, with the calls
  the slots may still make and the charges on their way, each taken at the largest
  call. An admission renews the bound, because the counter was below its threshold when
  it was read; every other step moves tokens from the calls left, over the wire, to the
  counter, or drops them.
* `PassesNothingLeftRunning`, `PassesSpendBounded` and `PassesResultFaithful` hold with and without
  a fallback provider. `PassesInv` says where each pass can be in each stage of the
  judgement (`StagesOf`), what the judgement has to say of them (`ResultsOf`), that a
  provider that is being awaited has billed nothing for this attempt and nobody else has
  (`BillsOf`), and which answers are charged by then (`ChargesOf`).
* `JudgingCompleteScoresFull` and `JudgingBetterNeverScoresLower` hold for **every** rubric that
  startup accepts and either position of the deal_specifics switch, where the runs take 26 files.
  `ScoringInv` is short: a rubric in force was accepted (`RubricOf`) and a score in force
  is `ComputeScore` of its note (`ScoreOf`). The work is in the lemmas about the
  operators: an even split orders as its counts and is the whole weight at the full one
  (`EvenSplit`), a mark orders as its answers (`MarkFaithful`), a sum as its terms
  (`SumOrdered`), the rescaled total as the marks, with 100 reached by all of them only
  (`RescaleFaithful`: the rounding term is at most half of a denominator that is at
  most 100), a band and an advice as the total (`BandOrdered`, `AdviceOrdered`).
  `JudgingTyped` is `TypeOK` for the same rubrics; `JudgingImplementsScoring` says that writing
  and gating notes adds no behaviour to `Scoring`.
* `JudgingRaisesOnlySuppressed` bounds the defect of section 5: under an accepted rubric
  `compute_score` raises on nothing but a `no_contact` note.
* `JudgingOutcomeBeforeSpend` holds for any tables, floors and words under the hypothesis
  `NoBlankPhrase`, which `MCJudging_BlankPhrase` shows to be needed: the code does not refuse
  a blank phrase.
* `JudgingFillerKeepsOutcome` needs no such hypothesis. A note that is judged is above the
  floor or recognised below it. Above, it stays there: its characters are a sum over its
  words, which only grows (`CharsGrow`). Below, punctuation leaves its words as they are
  (`SameWords`) and a filler becomes the last of them (`LastWord`), which neither the
  phrase rule nor the code rule minds (`FillerRecognised`). The numbers of the words before it do
  not move, and every number up to the count has a place (`NthPlace`).
* `BriefsSameFigures`, `BriefsFiguresReachUp` and `BriefsImprovementKept` hold for any notes,
  authors, directories, floors, windows, totals and bands. The invariant (`FiguresInv`) says that
  the rows are a sequence of well-formed rows, each by the author of its note. From that the
  rest is about reads. A read narrowed to some authors keeps whole notes (`AuthorsKeepNotes`),
  so no later row that decides an improvement is lost and each measure counts of the part
  what it counts of the whole there (`NarrowedCounts`). That rests on a note having one author
  (`Authors`), which the code takes from the CRM and does not check. Roll-ups then add up because the sizes of disjoint
  parts do (`PartsAddUp`, `PartsPool`). A line has a figure exactly when it has notes enough for
  the flagged share (`FigureIffEnough`): the other two measures are out of some of the same
  notes, so whatever an average loses to a newer stamp, more rows never have fewer figures
  (`MoreRowsMoreFigures`). `BriefsTyped` is `BriefsTypeOK`.
* What a fold or a numbering says for every finite set is an induction. It is done without
  an induction theorem: a non-empty set of numbers has a least one (`Least`, from the library's
  `WFMin`), so a smallest counterexample exists and one step refutes it. `SumUnfolds` does this
  for the community modules' `SumFunctionOnSet`.
* `ServiceSlotsExact` and `ServiceRefusedIffTooBig` hold for any number of requests, slots and
  body cap, over the apps of one process: the count is the cardinality of those inside,
  which is why it is 0 again where an app starts although nothing resets it, and nobody is answered before
  its route is over or its body refused. `ServiceServesWhatItLoaded` and
  `ServiceLeavesNothing` follow what each stage of the lifespan has in its caches and
  in `open`; `ServiceDrainFinishes` needs that a route is never overdue, so that one still
  running when the grace is over began late.
* `FetchLeadErrorWins`, `FetchOutageToldAsOutage` and `FetchDeadlineCutsNoWait` hold for
  every timing that fits (`TimesAssumption`, `FitsAssumption`). A read is never overdue
  (`Punctual`) and what the first two may still need ends before the deadline (`Fits`),
  so the clock cannot reach it while they are awaited.

What the proofs assume of the constants are the named assumptions of the modules; section 3
says which of them the code enforces. Those of this kind that say only what a value can be:
`BudgetAssumption` (call sizes are positive and have a largest, note and answer being
capped), `FilesAssumption` (weights and boundaries are integers, a phrase is a sequence of
words, floors are integers: what pydantic hands to `_check`), `SwitchAssumption`,
`WordsAssumption` and `WidthAssumption` (words are words and have a length),
`TotalsAssumption` (totals and band bounds lie in 0 to 100, there is a band),
`FloorAssumption` (the evidence floor and the window are positive: bounds of their fields),
`DirectoriesAssumption` (a directory lists finitely many people) and `BoundsAssumption` (the
exploration bounds of `Briefs`, which the theorems hold for whatever they are).

Only model-checked: liveness (`ClosesOnceHealthy`, `ReservationEnds`, `JudgementEnds`,
`ShutdownEnds`), which needs fairness and `ENABLED`. Every safety property of a passing run,
invariant or action property, and both refinements have a theorem.

## 5. Where the code and its documentation disagree

TLC finds the code reaching a state that the quoted sentence excludes. None is
fixed here. The first is a defect of the program and one of the checked runs
(`accepted_rubric_scores`); for the others the property stands in its module with
the sentence it quotes, and the configuration beside it shows the counterexample
in a second or two.

| Configuration | The text | The code |
| --- | --- | --- |
| `MCScoring_Unscorable` | `unit_a/config.py:427` "Refused here instead"; `src/tests/unit/test_unit_a_config.py:298` "a denominator of 0 is refused at startup" | only the global case is refused: weights 50/50 on what_happened and client_said raise on every no_contact note, after three paid calls |
| `CircuitBreaker_OnlyTheProbeDecides` | `core/breaker.py:4` "ONE probe decides" | any call that ends in HALF_OPEN decides |
| `MCIdempotency_ReleasedOnAnyExit` | `unit_a/pipeline.py:78` "RELEASE ON ANY EXIT AFTER RESERVING" | a cancellation while the SET NX is awaited releases nothing |
| `MCIdempotency_ConfirmReplacesOwn` | `unit_a/state.py:244` "only ever REPLACES the reservation this request holds" | a late SET XX replaces the next holder's |
| `MCPromptSlots_Pinned` | `src/ASSUMPTIONS.md:302` "whenever TTL is `-1`" | a counter at its cap is refused before the repair |
| `MCPromptSlots_ReferenceDies` | `unit_a/state.py:492` "dies with it" | written later, with a full TTL |
| `MCPromptSlots_QuestionsAsked` | `unit_a/decide.py:181` "the number of questions they have actually been asked" | a judgement that fails after the take counts |
| `MCPromptSlots_DailyWindow` | `unit_a/state.py:443` "an exhausted window still reports `rate_limited`" | the daily window is not read |
| `MCJudging_TenantCodesRecognised` | `unit_a/config.py:216` "Codes take a trailing attempt number" | a code listed with its number ("na1") is recognised in no note: the digits are stripped from the word and not from the table |
| `MCJudging_BlankPhrase` | `unit_a/pipeline.py:446` fillers alone "bought three paid calls" | the file is not refused for a blank phrase, which opens every note: fillers alone are paid for again |
| `MCService_AdmittedFinishes` | `serve.py:19` "a draining pod finishes what it admitted" | a slot is taken before the body is read, and no deadline runs while a client sends it |
| `MCService_RefusedReleases` | `main.py:157` "A refused startup never reaches the cleanup" so it is done there | only the model's settings are inside the `try`; an HTTP client's constructor that raises leaves the caches filled |
| `MCService_HalfFallbackRefuses` | `core/config.py:186` "a half-configured fallback refuses to start" | only when a primary provider is set; without one the fallback's fields are not read |
| `MCBriefs_Unattributed` | `unit_a/brief.py:259` "an author the directory does not list" | a listed head of sales counts too |

Four more are visible without a model checker: `unit_a/config.py:217` says that "phrases
match the whole stripped note", and a phrase matches an opening that only fillers follow
(`PhraseRecognised`); `src/README.md:527` says that a
counter without a TTL "never gains one", and both cost scripts give it one;
`src/README.md:648` says of the warning ratio that "nothing degrades", and reprompts
are withheld above it (`NearBudget`); `unit_a/llm_call.py:143` says that charging
"counts what the provider billed", and a call whose answer never came is billed
without being charged (`billed` and `charged` in `ModelPasses`).

## 6. Not modelled

* **Key set and permissions** (`core/auth`, `core/authz`): gate 3 is a stub in the code and
  the key set is read once; a token is signed with our key or it is not.
* **Settings**: parsing the environment. The numbers are the constants of the modules,
  and the combinations that startup refuses are in `Service`.
* **Prompts and redaction**: regular expressions and templates over strings. Whether
  templates are loaded is in `Service`.
* **The queue inside a Redis pool** and the wire format of a provider: each is one of the
  ways a call ends.
* **The order of all steps of `_judge` in one module.** Each module has the steps that touch
  its state in their order; composed, the state space is the product of three that
  share nothing but the claim, and `JudgeOnce` is what the rest may assume of it.
* **The one-model check** of a judgement's three answers, a comparison of names.
* Logging, metrics and audit; the worker settings; the evaluation set; the scripts an operator
  runs by hand; the parsing of rows and directory files.

`PROJECT.json` lists every component with its status.

## 7. Plan

Done: breaker, reservation with its abstract specification and refinement, prompt guards,
the gate chain, token counters, model passes, the service from startup to shutdown around
the middlewares, CRM reads, notes from the first word to the score, briefs; and the
proofs of section 4, of every safety property the runs check.

Next, in this order:

1. Extend `Idempotency` with a rolling deploy, two schemas serving at once, and carry
   `IdempotencyProofs` over to it.
2. `BreakerPool`: the breaker together with the bounded pool it shares a connection with.
