---------------------------- MODULE PlatformSecrets ----------------------------
(***************************************************************************)
(* How the secrets and the configuration of a SummonPlatform reach its     *)
(* Deployments.  The controller asks for the objects whose controllers     *)
(* make the credentials (database, message broker, IAM user, mock car      *)
(* server tenant), makes the secret key itself, gathers everything in the  *)
(* app secrets and the secrets derived from them, renders the ConfigMap,   *)
(* and puts a hash of both in the pod templates, so that a change restarts *)
(* the pods.  Secrets are read from a cache that may be behind.  Around    *)
(* the Deployments it keeps one of two schedulers, the autoscaler of the   *)
(* workers, and a disruption budget.                                       *)
(*                                                                         *)
(* The version asked for is migrated and backed up (see SummonRollout), so *)
(* that the phase goes from Initializing to Deploying in one pass.         *)
(*                                                                         *)
(* Abstracted: the content of a secret is a number, 0 when it is absent; a *)
(* secret made of others is the record of theirs, and so is a hash.  The   *)
(* Deployments are one, and ready once written, but for the schedulers;    *)
(* the ConfigMap is in the map of the secrets; the caches of other objects *)
(* are current.                                                            *)
(***************************************************************************)
EXTENDS Naturals

CONSTANTS
    Environments, \* the environments explored, of {"dev", "prod"}
    Full,         \* those where a platform starts with an IAM user, a mock car server
                  \* tenant, comp-dispatch and RedBeat; elsewhere it has an IAM role
    TroubleWhile, \* bound: the phases in which the platform is disturbed
    Edited,       \* bound: the fields of the Spec that are edited
    Rotated,      \* bound: the secrets that change under the operator
    Lost,         \* bound: the secrets that are deleted
    MaxTries,
    MaxDisturbances  \* bound: failing calls, restarts, edits, losses, rotations, trouble

ASSUME PlatformConstantsOK ==
    /\ Environments \subseteq {"dev", "prod"} /\ Environments # {}
    /\ Full \subseteq Environments
    /\ TroubleWhile \subseteq {"", "Initializing", "Deploying", "Ready", "Error"}
    /\ Edited \subseteq {"role", "mock", "admin", "valid", "dispatch", "redbeat", "auto",
                        "debug"}
    /\ Rotated \subseteq {"input", "postgres", "rabbit", "aws", "tenant"}
    /\ Lost \subseteq {"input", "postgres", "rabbit", "aws", "tenant",
                      "key", "app", "saml", "dispatch", "newrelic", "config"}
    /\ MaxTries \in Nat \ {0} /\ MaxDisturbances \in Nat

VARIABLES
    env,       \* Spec.Environment
    top, view, pass, work, \* see ComponentReconciler
    children,  \* the objects asked for
    stored,    \* the secrets in the API server
    cached,    \* the secrets in the cache
    made,      \* what this pass found for the app secrets
    deployed,  \* what the pod templates were made from
    around,    \* the schedulers, the autoscaler, who set the workers, the budget
    disturbances

Or(new, old) == IF new = "keep" THEN old ELSE new

NoPatch == [phase |-> "keep", postgres |-> "keep", rabbit |-> "keep"]

Apply(p, o) ==
    [o EXCEPT !.status = [phase    |-> Or(p.phase, @.phase),
                          message  |-> IF p.phase = "keep" THEN @.message ELSE "",
                          postgres |-> Or(p.postgres, @.postgres),
                          rabbit   |-> Or(p.rabbit, @.rabbit)]]

Then(p, q) == [phase    |-> Or(q.phase, p.phase),
               postgres |-> Or(q.postgres, p.postgres),
               rabbit   |-> Or(q.rabbit, p.rabbit)]

Failed(o, message) == [o EXCEPT !.status.phase = "Error", !.status.message = message]

Absent == [gone |-> TRUE]

R == INSTANCE ComponentReconciler

Phases == {"Initializing", "Deploying", "Ready"}
ChildStatus == {"", "Ready", "Error"}
Messages == {"", "call", "invalid", "conflict", "child", "input", "derived", "keys",
             "app secrets"}

Patches == [phase : Phases \cup {"keep"}, postgres : ChildStatus \cup {"keep"},
            rabbit : ChildStatus \cup {"keep"}]

\* valid: what the defaults component refuses is not in the Spec; dispatch: a version
\* of comp-dispatch is; redbeat: UseCeleryRedBeat; auto: CelerydAuto; debug: what the
\* Spec says of DEBUG.
Objects ==
    [spec : [role : BOOLEAN, mock : BOOLEAN, admin : BOOLEAN, valid : BOOLEAN,
             dispatch : BOOLEAN, redbeat : BOOLEAN, auto : BOOLEAN, debug : {"unset", "on", "off"}],
     status : [phase : Phases \cup {"", "Error"}, message : Messages,
               postgres : ChildStatus, rabbit : ChildStatus]]

Bad == 4         \* input secrets without FERNET_KEYS
Values == 0 .. 3

\* What the app secrets are made of.
Sources == {"input", "key", "postgres", "rabbit", "aws", "tenant"}
NoApp == [n \in Sources |-> 0]
NoDispatch == [postgres |-> 0, input |-> 0]
NoPods == [app |-> NoApp, config |-> {}, dispatch |-> 0]

NoSecrets ==
    [input |-> 0, key |-> 0, postgres |-> 0, rabbit |-> 0, aws |-> 0, tenant |-> 0,
     app |-> NoApp, saml |-> 0, dispatch |-> NoDispatch, newrelic |-> FALSE, config |-> {}]

childVars == <<env, children>>
secretVars == <<stored, cached>>
vars == <<env, top, view, pass, work, children, stored, cached, made, deployed, around,
          disturbances>>

Init ==
    /\ env \in Environments
    /\ R!Start([spec |-> [role |-> env \notin Full, mock |-> env \in Full,
                          dispatch |-> env \in Full, redbeat |-> env \in Full,
                          auto |-> FALSE, admin |-> TRUE, valid |-> TRUE, debug |-> "unset"],
                status |-> [phase |-> "", message |-> "", postgres |-> "", rabbit |-> ""]])
    /\ children = [postgres |-> "absent", rabbit |-> "absent", user |-> FALSE,
                   tenant |-> "absent", admin |-> FALSE]
    /\ stored = [NoSecrets EXCEPT !.input = 1] /\ cached = stored
    /\ made = NoApp /\ deployed = NoPods
    /\ around = [schedulers |-> {}, autoscaler |-> FALSE, scaled |-> FALSE,
                 budget |-> "absent"]
    /\ disturbances = 0

Disturb == /\ top.status.phase \in TroubleWhile
           /\ disturbances < MaxDisturbances /\ disturbances' = disturbances + 1

-----------------------------------------------------------------------------
(* Results of a component's step.                                           *)

GoOn(stage, patch) == R!Return(stage, patch, FALSE, FALSE) /\ UNCHANGED disturbances
Fail(message, requeue) ==
    R!ReturnError(message, NoPatch, requeue) /\ UNCHANGED disturbances
CallFails(patch, requeue) == Disturb /\ R!ReturnError("call", patch, requeue)

\* Which components run is settled before the first of them does.
Before == pass.clean
Up(o) == o.status.postgres = "Ready"
Serving(o) == Up(o) /\ o.status.phase \in {"Ready", "Deploying"}
Gates ==
    [user       |-> ~Before.spec.role,
     vhost      |-> TRUE,
     secrets    |-> Up(Before) /\ Before.status.rabbit = "Ready",
     newrelic   |-> TRUE,
     migrations |-> Up(Before),
     superuser  |-> Serving(Before),
     deploy     |-> Serving(Before),
     budget     |-> TRUE,
     celerybeat |-> Serving(Before),
     status     |-> TRUE]

\* The next of these stages that is reconcilable.
NextOf(stages) == stages[CHOOSE i \in DOMAIN stages :
                           /\ Gates[stages[i]]
                           /\ \A j \in 1 .. i - 1 : ~Gates[stages[j]]]
ToVhost == NextOf(<<"user", "vhost">>)
ToSecrets == NextOf(<<"secrets", "newrelic">>)
ToMigrations == NextOf(<<"migrations", "superuser", "budget">>)
ToRollout == NextOf(<<"superuser", "budget">>)
ToSchedulers == NextOf(<<"celerybeat", "status">>)

Begin ==
    /\ R!Begin("defaults") /\ made' = NoApp
    /\ UNCHANGED <<childVars, secretVars, deployed, around, disturbances>>

-----------------------------------------------------------------------------
(* Defaults, and the objects of other controllers.                          *)

Defaults ==
    /\ pass.at = "defaults"
    /\ \/ pass.obj.spec.valid /\ GoOn("postgres", NoPatch)
       \/ ~pass.obj.spec.valid /\ Fail("invalid", FALSE)
    /\ UNCHANGED <<children, stored, made, deployed, around>>

\* The defaults give every platform of dev an IAM role, in the copy of the pass.
UsesRole(o) == o.spec.role \/ env = "dev"

\* They turn New Relic on in prod, whatever the configuration says.
UsesNewRelic == env = "prod"

\* Without a version there are no replicas.
Replicas(o) == IF ~o.spec.dispatch THEN 0 ELSE IF env = "prod" THEN 2 ELSE 1

\* A component that asks for an object with a status of its own: the object is made if
\* there is none, and what its status says is copied, also when the call fails late.
Ask(child, stage) ==
    LET status == IF children[child] = "absent" THEN "" ELSE children[child]
        patch  == [NoPatch EXCEPT ![child] = status,
                                  !.phase = IF status = "" THEN "keep" ELSE "Initializing"]
    IN \/ /\ status # "Error" /\ GoOn(stage, patch)
          /\ children' = [children EXCEPT ![child] = status]
       \/ status = "Error" /\ Fail("child", FALSE) /\ UNCHANGED children
       \/ CallFails(NoPatch, TRUE) /\ UNCHANGED children
       \/ status # "Error" /\ CallFails(patch, TRUE) /\ UNCHANGED children

Postgres ==
    /\ pass.at = "postgres"
    /\ Ask("postgres", ToVhost)
    /\ UNCHANGED <<stored, made, deployed, around>>

Vhost ==
    /\ pass.at = "vhost"
    /\ Ask("rabbit", "key")
    /\ UNCHANGED <<stored, made, deployed, around>>

\* Whether there is an IAM user is decided before the defaults are set; nobody takes
\* it away.
IAMUser ==
    /\ pass.at = "user"
    /\ \/ children' = [children EXCEPT !.user = TRUE] /\ GoOn("vhost", NoPatch)
       \/ CallFails(NoPatch, TRUE) /\ UNCHANGED children
    /\ UNCHANGED <<stored, made, deployed, around>>

\* A tenant that is not wanted any more goes when its finalizer does.
Tenant ==
    /\ pass.at = "tenant"
    /\ \/ /\ pass.obj.spec.mock /\ GoOn(ToSecrets, NoPatch)
          /\ children' = [children EXCEPT !.tenant = IF @ = "absent" THEN "live" ELSE @]
       \/ /\ ~pass.obj.spec.mock /\ GoOn(ToSecrets, NoPatch)
          /\ children' = [children EXCEPT !.tenant = IF @ = "live" THEN "deleting" ELSE @]
       \/ /\ pass.obj.spec.mock \/ children.tenant # "absent"
          /\ CallFails(NoPatch, pass.obj.spec.mock) /\ UNCHANGED children
    /\ UNCHANGED <<stored, made, deployed, around>>

Superuser ==
    /\ pass.at = "superuser"
    /\ \/ children' = [children EXCEPT !.admin = pass.obj.spec.admin]
          /\ GoOn("deploy", NoPatch)
       \/ CallFails(NoPatch, TRUE) /\ UNCHANGED children
    /\ UNCHANGED <<stored, made, deployed, around>>

Objectives == Defaults \/ Postgres \/ IAMUser \/ Vhost \/ Tenant \/ Superuser

-----------------------------------------------------------------------------
(* The secret key: looked up, and made if there is none.                    *)

\* Mutant: a key is made in every pass.
LookUpKeyAlways ==
    /\ pass.at = "key" /\ GoOn("newkey", NoPatch)
    /\ UNCHANGED <<children, stored, made, deployed, around>>

LookUpKey ==
    /\ pass.at = "key"
    /\ \/ cached.key # 0 /\ GoOn("tenant", NoPatch)
       \/ cached.key = 0 /\ GoOn("newkey", NoPatch)
    /\ UNCHANGED <<children, stored, made, deployed, around>>

\* controllerutil.CreateOrUpdate: read from the cache, then create, or update if the
\* object has not changed since.
Writable(n) == cached[n] = stored[n]

\* A value not in use.
Unused(used) == CHOOSE v \in Values \ ({0} \cup used) :
                  \A w \in Values \ ({0} \cup used) : v <= w

NewKey ==
    /\ pass.at = "newkey"
    /\ \/ /\ Writable("key") /\ GoOn("tenant", NoPatch)
          /\ stored' = [stored EXCEPT !.key = Unused({stored.key, stored.app.key})]
       \/ ~Writable("key") /\ Fail("conflict", FALSE) /\ UNCHANGED stored
       \/ CallFails(NoPatch, FALSE) /\ UNCHANGED stored
    /\ UNCHANGED <<children, made, deployed, around>>

-----------------------------------------------------------------------------
(* The app secrets.                                                         *)

\* The derived secrets this platform needs.
Needed(o) ==
    {"key", "postgres", "rabbit"} \cup (IF UsesRole(o) THEN {} ELSE {"aws"})
      \cup (IF o.spec.mock THEN {"tenant"} ELSE {})

Bundle(o, secrets) ==
    [n \in Sources |-> IF n \in Needed(o) \cup {"input"} THEN secrets[n] ELSE 0]

\* Those not there.
Missing(o) == {n \in Needed(o) : cached[n] = 0}

Gather ==
    /\ pass.at = "secrets"
    /\ \/ cached.input = 0 /\ Fail("input", FALSE) /\ UNCHANGED made
       \/ /\ cached.input # 0 /\ Missing(pass.obj) # {}
          /\ Fail("derived", TRUE) /\ UNCHANGED made
       \/ /\ cached.input = Bad /\ Missing(pass.obj) = {}
          /\ Fail("keys", FALSE) /\ UNCHANGED made
       \/ (\E requeue \in BOOLEAN : CallFails(NoPatch, requeue)) /\ UNCHANGED made
       \/ /\ cached.input \notin {0, Bad} /\ Missing(pass.obj) = {}
          /\ made' = Bundle(pass.obj, cached) /\ GoOn("app", NoPatch)
    /\ UNCHANGED <<children, stored, deployed, around>>

\* The static defaults, one of many.
StaticConfig == {"REQUIRE_HTTPS"}

\* What the configuration turns on: the static defaults, and what depends on the
\* environment, on the components there are and on the Spec.
Config(o) ==
    StaticConfig
      \cup (IF o.spec.debug = "on" \/ (o.spec.debug = "unset" /\ env = "dev")
            THEN {"DEBUG"} ELSE {})
      \cup (IF Replicas(o) > 0 THEN {"DISPATCH_ENABLED"} ELSE {})
      \cup (IF UsesNewRelic THEN {"ENABLE_NEW_RELIC"} ELSE {})

\* One secret or ConfigMap; the API server sends no event for a write that changes
\* nothing.
Put(n, content, stage, requeue) ==
    \/ cached[n] = content /\ GoOn(stage, NoPatch) /\ UNCHANGED stored
    \/ /\ cached[n] # content /\ Writable(n)
       /\ stored' = [stored EXCEPT ![n] = content] /\ GoOn(stage, NoPatch)
    \/ cached[n] # content /\ ~Writable(n) /\ Fail("conflict", requeue) /\ UNCHANGED stored
    \/ CallFails(NoPatch, requeue) /\ UNCHANGED stored

AppSecret ==
    /\ pass.at = "app" /\ Put("app", made, "saml", FALSE)
    /\ UNCHANGED <<children, made, deployed, around>>

SamlSecret ==
    /\ pass.at = "saml" /\ Put("saml", made.input, "dispatch", FALSE)
    /\ UNCHANGED <<children, made, deployed, around>>

\* The secret of comp-dispatch; those of comp-hw-aux and comp-trip-share likewise.
DispatchSecret ==
    /\ pass.at = "dispatch"
    /\ Put("dispatch", [postgres |-> made.postgres, input |-> made.input], "newrelic", FALSE)
    /\ made' = NoApp
    /\ UNCHANGED <<children, deployed, around>>

\* Nobody takes away the secret of New Relic.
NewRelic ==
    /\ pass.at = "newrelic"
    /\ \/ ~UsesNewRelic /\ GoOn("config", NoPatch) /\ UNCHANGED stored
       \/ UsesNewRelic /\ Put("newrelic", TRUE, "config", TRUE)
    /\ UNCHANGED <<children, made, deployed, around>>

ConfigMap ==
    /\ pass.at = "config" /\ Put("config", Config(pass.obj), ToMigrations, TRUE)
    /\ UNCHANGED <<children, made, deployed, around>>

Secrets ==
    LookUpKey \/ NewKey \/ Gather \/ AppSecret \/ SamlSecret \/ DispatchSecret \/ NewRelic
      \/ ConfigMap

-----------------------------------------------------------------------------
(* The rollout, of a version that is migrated.                              *)

Migrations ==
    /\ pass.at = "migrations"
    /\ GoOn(ToRollout, [NoPatch EXCEPT !.phase = "Deploying"])
    /\ UNCHANGED <<children, stored, made, deployed, around>>

Deploying == pass.obj.status.phase = "Deploying"

\* The replicas of the workers are the autoscaler's when there is to be one.
Deployment ==
    /\ pass.at = "deploy"
    /\ \/ ~Deploying /\ GoOn("budget", NoPatch) /\ UNCHANGED <<deployed, around>>
       \/ /\ Deploying /\ (cached.app = NoApp \/ cached.config = {})
          /\ Fail("app secrets", TRUE) /\ UNCHANGED <<deployed, around>>
       \/ /\ Deploying /\ cached.app # NoApp /\ cached.config # {}
          /\ deployed' = [app |-> cached.app, config |-> cached.config,
                          dispatch |-> Replicas(pass.obj)]
          /\ around' = [around EXCEPT !.scaled = @ /\ pass.obj.spec.auto]
          /\ GoOn("budget", NoPatch)
       \/ Deploying /\ CallFails(NoPatch, TRUE) /\ UNCHANGED <<deployed, around>>
    /\ UNCHANGED <<children, stored, made>>

\* The budget of comp-dispatch.  One that differs is deleted, and made in another pass.
Budget ==
    /\ pass.at = "budget"
    /\ LET wanted == Replicas(pass.obj) > 0
           differs == around.budget = "other"
       IN \/ /\ around' = [around EXCEPT !.budget = IF wanted /\ ~differs THEN "goal"
                                                    ELSE "absent"]
             /\ R!Return("autoscaler", NoPatch, wanted /\ differs, FALSE)
             /\ UNCHANGED disturbances
          \/ CallFails(NoPatch, wanted) /\ UNCHANGED around
    /\ UNCHANGED <<children, stored, made, deployed>>

Autoscaler ==
    /\ pass.at = "autoscaler"
    /\ \/ around' = [around EXCEPT !.autoscaler = pass.obj.spec.auto]
          /\ GoOn(ToSchedulers, NoPatch)
       \/ CallFails(NoPatch, pass.obj.spec.auto) /\ UNCHANGED around
    /\ UNCHANGED <<children, stored, made, deployed>>

SchedulerFor(o) == IF o.spec.redbeat THEN "redbeat" ELSE "celerybeat"

\* Each of the two schedulers goes when the other is asked for.
Scheduler(kind, stage) ==
    /\ pass.at = kind
    /\ LET wanted == SchedulerFor(pass.obj) = kind
       IN \/ ~Deploying /\ GoOn(stage, NoPatch) /\ UNCHANGED around
          \/ /\ Deploying /\ ~wanted /\ GoOn(stage, NoPatch)
             /\ around' = [around EXCEPT !.schedulers = @ \ {kind}]
          \/ /\ Deploying /\ wanted /\ cached.app # NoApp /\ cached.config # {}
             /\ around' = [around EXCEPT !.schedulers = @ \cup {kind}]
             /\ GoOn(stage, NoPatch)
          \/ /\ Deploying /\ wanted /\ (cached.app = NoApp \/ cached.config = {})
             /\ Fail("app secrets", TRUE) /\ UNCHANGED around
          \/ Deploying /\ CallFails(NoPatch, wanted) /\ UNCHANGED around
    /\ UNCHANGED <<children, stored, made, deployed>>

Celerybeat == Scheduler("celerybeat", "redbeat")
Redbeat == Scheduler("redbeat", "status")

\* A Deployment that is not found is not ready.
Status ==
    /\ pass.at = "status"
    /\ LET there == deployed # NoPods /\ SchedulerFor(pass.obj) \in around.schedulers
       IN GoOn("save", IF Deploying /\ there THEN [NoPatch EXCEPT !.phase = "Ready"] ELSE NoPatch)
    /\ UNCHANGED <<children, stored, made, deployed, around>>

Components ==
    /\ \/ Objectives \/ Secrets \/ Migrations \/ Deployment
       \/ Budget \/ Autoscaler \/ Celerybeat \/ Redbeat \/ Status
    /\ UNCHANGED <<env, cached, work, top, view>>

Save ==
    /\ R!Save(FALSE)
    /\ UNCHANGED <<childVars, secretVars, made, deployed, around, disturbances>>

-----------------------------------------------------------------------------
(* The world around.                                                        *)

Sync == R!Sync /\ UNCHANGED <<childVars, secretVars, made, deployed, around, disturbances>>


\* WatchMap: a secret starts a pass of its owner, and of the platforms whose object,
\* as it is stored, names it.
Watched(o) ==
    {"key", "app", "saml", "dispatch", "newrelic", "config", "input"}
      \cup (IF o.status.postgres = "" THEN {} ELSE {"postgres"})
      \cup (IF o.status.rabbit = "" THEN {} ELSE {"rabbit"})
      \cup (IF o.spec.role THEN {} ELSE {"aws"})
      \cup (IF o.spec.mock THEN {"tenant"} ELSE {})

SyncSecrets ==
    /\ cached # stored /\ cached' = stored
    /\ IF \E n \in Watched(view.obj) : cached[n] # stored[n]
       THEN R!Event ELSE UNCHANGED work
    /\ UNCHANGED <<childVars, top, view, pass, stored, made, deployed, around, disturbances>>

\* The credentials come before the status that announces them.
MakeCredentials ==
    /\ \E n \in {"postgres", "rabbit", "aws", "tenant"} :
         /\ stored[n] = 0
         /\ CASE n = "postgres" -> children.postgres = "Ready"
              [] n = "rabbit"   -> children.rabbit = "Ready"
              [] n = "aws"      -> children.user
              [] n = "tenant"   -> children.tenant = "live"
         /\ stored' = [stored EXCEPT ![n] = Unused({cached[n]})]
    /\ UNCHANGED <<childVars, top, view, pass, work, cached, made, deployed, around, disturbances>>

ChildReady ==
    /\ \E n \in {"postgres", "rabbit"} :
         /\ children[n] \in {"", "Error"} /\ children' = [children EXCEPT ![n] = "Ready"]
         /\ stored' = [stored EXCEPT ![n] = IF @ = 0 THEN Unused({cached[n]}) ELSE @]
    /\ R!Event
    /\ UNCHANGED <<env, top, view, pass, cached, made, deployed, around, disturbances>>

TenantGone ==
    /\ children.tenant = "deleting"
    /\ children' = [children EXCEPT !.tenant = "absent"]
    /\ stored' = [stored EXCEPT !.tenant = 0] /\ R!Event
    /\ UNCHANGED <<env, top, view, pass, cached, made, deployed, around, disturbances>>

Crash ==
    /\ Disturb /\ R!Restart /\ cached' = stored /\ made' = NoApp
    /\ UNCHANGED <<childVars, stored, deployed, around>>

EditObject ==
    /\ Disturb
    /\ \/ \E f \in Edited \ {"debug"} : R!Write([top EXCEPT !.spec[f] = ~@])
       \/ /\ "debug" \in Edited
          /\ \E d \in {"unset", "on", "off"} \ {top.spec.debug} :
               R!Write([top EXCEPT !.spec.debug = d])
    /\ UNCHANGED <<work, childVars, secretVars, made, deployed, around>>

\* The user provides the input again, with another content.
ProvideInput ==
    /\ stored.input = 0
    /\ \E v \in {2, Bad} : stored' = [stored EXCEPT !.input = v]
    /\ UNCHANGED <<childVars, top, view, pass, work, cached, made, deployed, around, disturbances>>

\* Somebody rotates a credential or repairs the input; somebody deletes a secret.
ChangeSecret ==
    /\ Disturb
    /\ \/ \E n \in Rotated :
            /\ stored[n] # 0
            /\ stored' = [stored EXCEPT ![n] = Unused({stored[n], cached[n]})]
       \/ \E n \in Lost :
            stored[n] # NoSecrets[n] /\ stored' = [stored EXCEPT ![n] = NoSecrets[n]]
    /\ UNCHANGED <<childVars, top, view, pass, work, cached, made, deployed, around>>

\* The autoscaler sets the workers, which is an event of their Deployment.
Scale ==
    /\ around.autoscaler /\ ~around.scaled /\ around' = [around EXCEPT !.scaled = TRUE]
    /\ R!Event
    /\ UNCHANGED <<childVars, top, view, pass, secretVars, made, deployed, disturbances>>

\* Somebody changes the budget.
ChangeBudget ==
    /\ Disturb /\ around.budget = "goal"
    /\ around' = [around EXCEPT !.budget = "other"] /\ R!Event
    /\ UNCHANGED <<childVars, top, view, pass, secretVars, made, deployed>>

Trouble ==
    /\ Disturb
    /\ \E c \in {"postgres", "rabbit"} :
         children[c] = "Ready" /\ children' = [children EXCEPT ![c] = "Error"]
    /\ R!Event
    /\ UNCHANGED <<env, top, view, pass, secretVars, made, deployed, around>>

Worker == Begin \/ Components \/ Save
Makers == MakeCredentials \/ ChildReady \/ TenantGone

Next ==
    \/ Worker \/ Sync \/ SyncSecrets \/ Makers \/ Scale \/ ChangeBudget
    \/ Crash \/ EditObject \/ ProvideInput \/ ChangeSecret \/ Trouble

Spec == Init /\ [][Next]_vars

\* The worker, the informers, the controllers of the objects asked for.
Fairness ==
    WF_vars(Worker) /\ WF_vars(Sync) /\ WF_vars(SyncSecrets) /\ WF_vars(Makers)

FairSpec == Spec /\ Fairness

-----------------------------------------------------------------------------
TypeOK ==
    /\ env \in Environments
    /\ R!TypesOK(Objects, Patches,
                 {"defaults", "postgres", "user", "vhost", "key", "newkey", "tenant",
                  "secrets", "app", "saml", "dispatch", "newrelic", "config", "migrations",
                  "superuser", "deploy", "budget", "autoscaler", "celerybeat", "redbeat",
                  "status"})
    /\ children \in [postgres : ChildStatus \cup {"absent"},
                     rabbit : ChildStatus \cup {"absent"}, user : BOOLEAN,
                     tenant : {"absent", "live", "deleting"}, admin : BOOLEAN]
    /\ \A secrets \in {stored, cached} :
         /\ \A n \in Sources : secrets[n] \in Values \cup {Bad}
         /\ \A n \in Sources : secrets.app[n] \in Values
    /\ \A n \in Sources : made[n] \in Values /\ deployed.app[n] \in Values
    /\ around \in [schedulers : SUBSET {"celerybeat", "redbeat"}, autoscaler : BOOLEAN,
                   scaled : BOOLEAN, budget : {"absent", "goal", "other"}]
    /\ disturbances \in 0 .. MaxDisturbances

\* The key that signs sessions stays: once the app secrets hold it, the operator does
\* not replace it, however far its cache is behind, unless somebody deletes it.
KeyKept ==
    [][stored.app.key = stored.key /\ stored.key # 0 => stored'.key \in {0, stored.key}]_stored

Wanted ==
    /\ top.spec.valid /\ stored.input \notin {0, Bad}

Settled ==
    /\ top.status.phase = "Ready"
    /\ stored.app = Bundle(top, stored)
    /\ stored.saml = stored.input
    /\ stored.dispatch = [postgres |-> stored.postgres, input |-> stored.input]
    /\ stored.newrelic = UsesNewRelic
    /\ stored.config = Config(top)
    /\ deployed = [app |-> stored.app, config |-> stored.config, dispatch |-> Replicas(top)]
    /\ children.tenant = (IF top.spec.mock THEN "live" ELSE "absent")
    /\ children.admin = top.spec.admin
    /\ around.schedulers = {SchedulerFor(top)}
    /\ around.autoscaler = top.spec.auto /\ (~top.spec.auto => ~around.scaled)
    /\ around.budget = (IF Replicas(top) > 0 THEN "goal" ELSE "absent")

\* Whatever is edited, rotated, lost or late, the pods end up with the credentials and
\* the configuration there are, and with the scheduler, the autoscaler, the number of
\* workers and the budget that the Spec asks for.
Settles == <>[]Wanted => <>[]Settled
=============================================================================
