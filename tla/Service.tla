------------------------------- MODULE Service -------------------------------
(***************************************************************************)
(* The life of the app around its requests: main.lifespan up to the yield, *)
(* the requests of Ingress while it serves, uvicorn's graceful shutdown as *)
(* serve.py asks for it, and the lifespan after the yield.                 *)
(*                                                                         *)
(* Templates, tenant files, the two Redis clients and the in-flight        *)
(* counter are module state: one process may host several apps in turn, as *)
(* the test suite does, and what one app leaves behind is there for the    *)
(* next.  A cache is named by the app that filled it, 0 when it is empty.  *)
(***************************************************************************)
EXTENDS Ingress

CONSTANTS Deployments,   \* the settings an app may be started with
          HandlerTime,   \* the longest a route runs: deadline and db2 timeouts
          Graceful,      \* GRACEFUL_SHUTDOWN_SECONDS
          MaxApps        \* bound: apps hosted by one process

ASSUME DeploymentsAssumption ==
    Deployments \subseteq
        [tenant_config_dir : BOOLEAN, profiles : BOOLEAN, primary : [provider :
         {"none", "no_adapter", "adapter"}, model : BOOLEAN, key : BOOLEAN],
         fallback : [provider : {"none", "no_adapter", "adapter"},
                     model : BOOLEAN, key : BOOLEAN, url : BOOLEAN]]
ASSUME ServingTimesAssumption ==
    HandlerTime \in Nat /\ Graceful \in Nat /\ HandlerTime < Graceful /\ MaxApps \in Nat

VARIABLES stage,       \* where the lifespan is
          app,         \* which app of the process
          settings,    \* what it was started with
          templates, tenants,   \* whose _TEMPLATE_CACHE and _LOADED these are
          open,        \* connection pools that may hold sockets
          toClose,     \* the acloses still ahead
          since,       \* ticks since SIGTERM
          entered,     \* the tick on which a request's route began
          cut,         \* requests uvicorn cancelled
          unbuilt, unclosed     \* history: a client's constructor, an aclose raised

lifeVars == <<stage, app, settings, templates, tenants, open, toClose, since, entered, cut,
              unbuilt, unclosed>>
serviceVars == <<vars, lifeVars>>

Stages == {"off", "templates", "tenants", "pools", "model", "serving", "draining",
           "clear", "closing"}
Clients == {"http", "crm"}            \* built by every app
RedisClients == {"cost", "operational"}   \* cached for the process
Mine(c) == <<c, IF c \in Clients THEN app ELSE 0>>
Pools == (Clients \X (1..MaxApps)) \cup (RedisClients \X {0})

ServiceTypeOK ==
    /\ TypeOK
    /\ stage \in Stages /\ app \in 0..MaxApps /\ settings \in Deployments
    /\ templates \in 0..MaxApps /\ tenants \in 0..MaxApps
    /\ open \subseteq Pools /\ toClose \in Seq(Clients \cup RedisClients)
    /\ since \in 0..Graceful /\ entered \in [Requests -> -1..Graceful]
    /\ cut \subseteq Requests
    /\ unbuilt \in BOOLEAN /\ unclosed \in BOOLEAN

ServiceInit ==
    /\ Init
    /\ stage = "off" /\ app = 0 /\ settings \in Deployments
    /\ templates = 0 /\ tenants = 0 /\ open = {} /\ toClose = <<>>
    /\ since = 0 /\ entered = [r \in Requests |-> -1] /\ cut = {}
    /\ unbuilt = FALSE /\ unclosed = FALSE

-----------------------------------------------------------------------------
(* What build_llm_client makes of the settings *)

\* _build_one
BuildsOne(p) == p.provider = "adapter" /\ p.key
\* _fallback_settings: no provider and no other fallback field.
NoFallback(f) == f.provider = "none" /\ ~f.model /\ ~f.key /\ ~f.url
Builds(s) ==
    /\ s.primary.model /\ BuildsOne(s.primary) /\ s.profiles
    /\ NoFallback(s.fallback) \/ (s.fallback.model /\ BuildsOne(s.fallback))

-----------------------------------------------------------------------------
(* Startup: no await before the yield, but for the acloses of a refusal *)

Quiet == \A r \in Requests : pc[r] \in {"arrive", "done"}
\* The requests of an app are new ones.
Fresh ==
    /\ pc' = [r \in Requests |-> "arrive"]
    /\ kind' = [r \in Requests |-> NotCome]
    /\ received' = [r \in Requests |-> 0]
    /\ refused' = [r \in Requests |-> FALSE]
    /\ answers' = [r \in Requests |-> <<>>]
RequestsWait == UNCHANGED <<vars, entered, cut, since>>

\* create_app: the in-flight counter, like the caches, is the one of the process
\* and keeps what the app before it left there.
StartApp ==
    /\ stage = "off" /\ app < MaxApps /\ Quiet
    /\ stage' = "templates" /\ app' = app + 1 /\ settings' \in Deployments
    /\ since' = 0 /\ cut' = {} /\ Fresh
    /\ UNCHANGED <<count, templates, tenants, open, toClose, entered, unbuilt, unclosed>>

\* preload_templates publishes once every name resolved; a missing file refuses.
PreloadTemplates ==
    /\ stage = "templates"
    /\ \/ stage' = "tenants" /\ templates' = app
       \/ stage' = "off" /\ UNCHANGED templates
    /\ RequestsWait
    /\ UNCHANGED <<app, settings, tenants, open, toClose, unbuilt, unclosed>>

\* load_tenant_configs installs all or nothing; a refusal clears the templates.
LoadTenantConfigs ==
    /\ stage = "tenants"
    /\ \/ ~settings.tenant_config_dir /\ stage' = "pools" /\ UNCHANGED <<templates, tenants>>
       \/ settings.tenant_config_dir /\ stage' = "pools" /\ tenants' = app
          /\ UNCHANGED templates
       \/ settings.tenant_config_dir /\ stage' = "off" /\ templates' = 0
          /\ UNCHANGED tenants
    /\ RequestsWait
    /\ UNCHANGED <<app, settings, open, toClose, unbuilt, unclosed>>

\* Two httpx constructors, neither inside a try: one that raises leaves
\* everything built so far where it is.
BuildPools ==
    /\ stage = "pools"
    /\ \/ open' = open \cup {Mine("http"), Mine("crm")} /\ stage' = "model" /\ UNCHANGED unbuilt
       \/ open' \in {open, open \cup {Mine("http")}} /\ stage' = "off" /\ unbuilt' = TRUE
    /\ RequestsWait
    /\ UNCHANGED <<app, settings, templates, tenants, toClose, unclosed>>

\* mutant: a refusal of the model's settings forgets the tenant files.
RefuseKeepingTenants ==
    /\ templates' = 0 /\ UNCHANGED tenants
    /\ stage' = "closing" /\ toClose' = <<"http", "crm">>
\* The except around build_llm_client: shutdown's order, then the bare raise.
RefuseModel ==
    /\ templates' = 0 /\ tenants' = 0
    /\ stage' = "closing" /\ toClose' = <<"http", "crm">>

\* No provider starts without a model; anything else half set refuses.  From
\* here on every gate may use the two Redis clients.
BuildModel ==
    /\ stage = "model"
    /\ \/ /\ settings.primary.provider = "none" \/ Builds(settings)
          /\ stage' = "serving" /\ open' = open \cup {Mine(c) : c \in RedisClients}
          /\ UNCHANGED <<templates, tenants, toClose>>
       \/ /\ settings.primary.provider # "none" /\ ~Builds(settings)
          /\ RefuseModel /\ UNCHANGED open
    /\ RequestsWait
    /\ UNCHANGED <<app, settings, unbuilt, unclosed>>

-----------------------------------------------------------------------------
(* Serving and draining *)

Arrive(r) == \E k \in Kind : \/ ArriveTooLong(r, k) \/ ArriveExempt(r, k)
                             \/ ArriveAdmitted(r, k) \/ ArriveShed(r, k)
GoOn(r) == \/ Read(r) \/ ReadAll(r) \/ Gates(r) \/ Cost(r)
           \/ Handle(r) \/ Raise(r) \/ Sent(r) \/ Cancel(r)

\* New requests are taken while serving, those inside go on while draining, and
\* one that uvicorn cancelled only unwinds.
Request(r) ==
    /\ \/ stage = "serving" /\ Arrive(r)
       \/ stage \in {"serving", "draining"} /\ GoOn(r)
       \/ r \in cut /\ Cancel(r)
    /\ entered' = [entered EXCEPT ![r] =
                     IF pc'[r] # "handler" THEN -1
                     ELSE IF pc[r] = "handler" THEN @ ELSE since]
    /\ UNCHANGED <<stage, app, settings, templates, tenants, open, toClose, since, cut,
                   unbuilt, unclosed>>

\* SIGTERM: uvicorn stops accepting.
Terminate ==
    /\ stage = "serving"
    /\ stage' = "draining" /\ since' = 0
    /\ UNCHANGED <<vars, app, settings, templates, tenants, open, toClose, entered, cut,
                   unbuilt, unclosed>>

\* Time passes; no route outlives the judgement deadline and its release.
Tick ==
    /\ stage = "draining" /\ since < Graceful
    /\ \A r \in Requests : pc[r] = "handler" => since < entered[r] + HandlerTime
    /\ since' = since + 1
    /\ UNCHANGED <<vars, stage, app, settings, templates, tenants, open, toClose, entered,
                   cut, unbuilt, unclosed>>

Stopping == stage' = "clear" /\ since' = 0
            /\ UNCHANGED <<vars, app, settings, templates, tenants, open, toClose, entered,
                           unbuilt, unclosed>>

Drained == stage = "draining" /\ Quiet /\ Stopping /\ UNCHANGED cut

\* mutant: a grace shorter than the deadline.
GraceOverEarly ==
    /\ stage = "draining" /\ since >= 1
    /\ cut' = {r \in Requests : pc[r] \notin {"arrive", "done"}} /\ Stopping
\* mutant: serve.py asks for no timeout_graceful_shutdown.
GraceOverNever == FALSE /\ UNCHANGED serviceVars
\* timeout_graceful_shutdown: every task still running is cancelled, not awaited.
GraceOver ==
    /\ stage = "draining" /\ since = Graceful
    /\ cut' = {r \in Requests : pc[r] \notin {"arrive", "done"}} /\ Stopping

-----------------------------------------------------------------------------
(* The lifespan after the yield *)

\* mutant: the templates are cleared and the tenant files are not.
ClearCachesTemplatesOnly ==
    /\ stage = "clear"
    /\ templates' = 0 /\ UNCHANGED tenants
    /\ stage' = "closing" /\ toClose' = <<"http", "crm", "cost", "operational">>
    /\ RequestsWait
    /\ UNCHANGED <<app, settings, open, unbuilt, unclosed>>
ClearCaches ==
    /\ stage = "clear"
    /\ templates' = 0 /\ tenants' = 0
    /\ stage' = "closing" /\ toClose' = <<"http", "crm", "cost", "operational">>
    /\ RequestsWait
    /\ UNCHANGED <<app, settings, open, unbuilt, unclosed>>

\* One aclose: the next one, or the end; one that raises ends the lifespan
\* with the pools after it still open.
Close ==
    /\ stage = "closing"
    /\ \/ /\ open' = open \ {Mine(Head(toClose))} /\ toClose' = Tail(toClose)
          /\ stage' = IF Tail(toClose) = <<>> THEN "off" ELSE "closing"
          /\ UNCHANGED unclosed
       \/ stage' = "off" /\ toClose' = <<>> /\ unclosed' = TRUE /\ UNCHANGED open
    /\ RequestsWait
    /\ UNCHANGED <<app, settings, templates, tenants, unbuilt>>

ServiceNext ==
    \/ StartApp \/ PreloadTemplates \/ LoadTenantConfigs \/ BuildPools \/ BuildModel
    \/ \E r \in Requests : Request(r)
    \/ Terminate \/ Tick \/ Drained \/ GraceOver
    \/ ClearCaches \/ Close

ServiceSpec == ServiceInit /\ [][ServiceNext]_serviceVars

\* The clock runs, routes end by their deadline, uvicorn's own timeout fires and
\* the lifespan's steps are taken.  No client is assumed to send or read on.
ServiceFairness ==
    /\ WF_serviceVars(Tick) /\ WF_serviceVars(Drained \/ GraceOver)
    /\ WF_serviceVars(ClearCaches \/ Close)
    /\ \A r \in Requests : WF_serviceVars(pc[r] = "handler" /\ Request(r))

FairServiceSpec == ServiceSpec /\ ServiceFairness

-----------------------------------------------------------------------------
(* Properties *)

\* A route that was not cut off runs on what its own app loaded: its templates,
\* its tenant files or none, its two open clients.  No tenant file of an app
\* before it is left for one that names no directory (main.py: "a cache that
\* outlived its app would serve this deployment's templates to the next one").
ServesWhatItLoaded ==
    \A r \in Requests : pc[r] = "handler" /\ r \notin cut =>
        /\ templates = app
        /\ unbuilt \/ tenants = (IF settings.tenant_config_dir THEN app ELSE 0)
        /\ {Mine("http"), Mine("crm")} \subseteq open

\* When no app runs, nothing is left of one: however far startup had come when
\* its settings or files refused it, and however the shutdown went.  The two
\* ways that do leave something are named: a client's constructor that raised,
\* and an aclose that raised.
LeavesNothing ==
    stage = "off" =>
        /\ unbuilt \/ (templates = 0 /\ tenants = 0)
        /\ unbuilt \/ unclosed \/ open = {}

\* What serve.py's 30 seconds are for: a judgement that starts a deadline before
\* they are over is answered, never cut off by uvicorn.
DrainFinishes ==
    \A r \in cut : entered[r] # -1 /\ entered[r] + HandlerTime < Graceful
                   => answers[r] # <<>>

\* Liveness: whatever clients do, a pod that was told to stop stops.
ShutdownEnds == stage = "draining" ~> stage = "off"

\* What serve.py says: "a draining pod finishes what it admitted" -- a slot is
\* taken before the body is read, and no deadline runs while it is.
AdmittedFinishes == \A r \in cut : answers[r] # <<>>

\* What main.py's except says of a refused startup, with no exemption.
RefusedReleases ==
    stage = "off" /\ ~unclosed => templates = 0 /\ tenants = 0 /\ open = {}

\* What config.py says of the fallback: "a half-configured fallback refuses to
\* start rather than silently not exist".
HalfFallbackRefuses ==
    stage = "serving" => NoFallback(settings.fallback)
                         \/ (settings.fallback.model /\ BuildsOne(settings.fallback))
=============================================================================
