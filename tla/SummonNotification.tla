------------------------- MODULE SummonNotification -------------------------
(***************************************************************************)
(* Which version a SummonPlatform asks for, and who is told about it: the  *)
(* first and the last components of the summon controller.                 *)
(*                                                                         *)
(* defaults insists on exactly one of Spec.Version and Spec.AutoDeploy;    *)
(* autodeploy puts the newest image of the branch into Spec.Version, in    *)
(* memory only, from a tag cache that a goroutine has looked at from time  *)
(* to time; what the components in between make of it is SummonRollout's   *)
(* subject and appears here as a phase; notification announces a version   *)
(* that became Ready, once per component of the platform, starts the       *)
(* regression suite, and reports errors.  Duplicates are held back by a    *)
(* cache in memory and by Status.Notification.                             *)
(*                                                                         *)
(* Abstracted: message texts, the Slack channels (they fail as one), the   *)
(* seven announced components as a set, Status.Notification.Githubactions- *)
(* RegressionWebhook, which is only shown; an error is its kind.           *)
(***************************************************************************)
EXTENDS Naturals, FiniteSets

CONSTANTS
    Parts,         \* announced parts of a platform, "summon" among them
    MaxVersion,    \* versions and build numbers 1 .. MaxVersion
    Modes,         \* subset of {"version", "auto"}: how the user chooses versions
    Outcomes,      \* what the components in between come to: subset of RolloutOutcomes
    MaxTries,
    MaxEdits,      \* bound: edits of the specification
    MaxFailures    \* bound: failing calls to Slack, registry, webhook; restarts

Versions == 1 .. MaxVersion
NoVersion == 0

\* A phase that is set, none ("waiting"), or an error: of a component, one wrapped
\* in NoNotify, a write conflict.
RolloutOutcomes == {"Deploying", "Ready", "waiting", "fault", "quiet", "conflict"}

ASSUME NotificationConstantsOK ==
    /\ "waiting" \in Outcomes /\ Outcomes \subseteq RolloutOutcomes
    /\ "summon" \in Parts
    /\ MaxVersion \in Nat \ {0} /\ MaxTries \in Nat \ {0}
    /\ Modes \subseteq {"version", "auto"} /\ Modes # {}
    /\ MaxEdits \in Nat /\ MaxFailures \in Nat

\* Error messages: from defaults, from the registry, of a component in between, from
\* a failing post.
Errors == {"refused", "registry", "fault", "quiet", "conflict", "post"}
Phases == {"", "Deploying", "Ready", "Error"}

VARIABLES
    top, view, pass, work, \* see ComponentReconciler
    rollout,   \* what the components in between end with: a phase or an error
    newest,    \* the largest build of the branch in the registry
    tags,      \* CachedTags: the largest build known; expired
    dup,       \* dupCache: announced versions, reported errors, suite started
    told,      \* the last version announced of each part
    replayed,  \* parts whose record was last changed by the replay of a status write
    repeated,  \* parts announced again although the record was stored
    edits, failures

\* The status modifiers of a pass: a phase, and whether Status.Notification is
\* copied from the Spec of the object they run on.
NoPatch == [phase |-> "keep", notified |-> FALSE]

Patches == [phase : {"keep", "Deploying", "Ready"}, notified : BOOLEAN]

Apply(p, o) ==
    [o EXCEPT !.status.phase = IF p.phase = "keep" THEN @ ELSE p.phase,
              !.status.message = IF p.phase = "Ready" THEN "" ELSE @,
              !.status.notified = IF p.notified THEN o.spec.version ELSE @]

Then(p, q) == [phase    |-> IF q.phase = "keep" THEN p.phase ELSE q.phase,
               notified |-> p.notified \/ q.notified]

Failed(o, message) == [o EXCEPT !.status.phase = "Error", !.status.message = message]

R == INSTANCE ComponentReconciler WITH Absent <- [spec |-> "none"]

cacheVars == <<newest, tags>>
historyVars == <<told, replayed, repeated>>
boundVars == <<edits, failures>>
vars == <<top, view, pass, work, rollout, newest, tags, dup, told, replayed,
          repeated, edits, failures>>

Specs == [version : [Parts -> Versions \cup {NoVersion}], auto : BOOLEAN]
Objects == [spec : Specs,
            status : [phase : Phases, message : Errors \cup {""},
                      notified : [Parts -> Versions \cup {NoVersion}]]]

Dups == [done : [Parts -> Versions \cup {NoVersion}], hook : Versions \cup {NoVersion},
         error : [Versions \cup {NoVersion} -> Errors \cup {""}]]

NewDups == [done |-> [c \in Parts |-> NoVersion], hook |-> NoVersion,
            error |-> [v \in Versions \cup {NoVersion} |-> ""]]

NewPlatform(mode) ==
    [spec |-> [version |-> [c \in Parts |-> IF mode = "version" /\ c = "summon"
                                            THEN 1 ELSE NoVersion],
               auto |-> mode = "auto"],
     status |-> [phase |-> "", message |-> "",
                 notified |-> [c \in Parts |-> NoVersion]]]

Init ==
    /\ \E mode \in Modes : R!Start(NewPlatform(mode))
    /\ rollout = "waiting"
    /\ newest = NoVersion /\ tags = [build |-> NoVersion, expired |-> TRUE]
    /\ dup = NewDups
    /\ told = [c \in Parts |-> NoVersion] /\ replayed = {} /\ repeated = {}
    /\ edits = 0 /\ failures = 0

-----------------------------------------------------------------------------
(* Telling people about errors: the error handler of the notification       *)
(* component runs at every error of a pass, and when the stored status is   *)
(* an error.                                                                *)

SomeCallFails == failures < MaxFailures /\ failures' = failures + 1

Reportable(message, v) == message # "conflict" /\ dup.error[v] # message

\* handleError: nothing to say, the message is sent, or it cannot be sent.
ErrorHandled(message, v) ==
    /\ dup' = IF Reportable(message, v) THEN [dup EXCEPT !.error[v] = message] ELSE dup
    /\ UNCHANGED failures

ErrorUnsent(message, v) == Reportable(message, v) /\ SomeCallFails /\ UNCHANGED dup

\* A component fails; an error wrapped in NoNotify is not reported.
ComponentFails(message) ==
    /\ R!ReturnError(message, NoPatch, FALSE)
    /\ LET v == pass.obj.spec.version["summon"] IN
       IF message = "quiet" THEN UNCHANGED <<dup, failures>>
       ELSE ErrorHandled(message, v) \/ ErrorUnsent(message, v)

-----------------------------------------------------------------------------
(* The components.                                                          *)

Begin ==
    /\ R!Begin("version")
    /\ UNCHANGED <<rollout, cacheVars, dup, historyVars, boundVars>>

ChoosesOneVersion(spec) == spec.auto <=> spec.version["summon"] = NoVersion

DefaultsRefuse ==
    /\ pass.at = "version" /\ ~ChoosesOneVersion(pass.obj.spec)
    /\ ComponentFails("refused")
    /\ UNCHANGED <<top, view, work, rollout, cacheVars, historyVars, edits>>

\* Mutant: the tags are fetched once.
FetchedOnce == IF tags.build = NoVersion THEN newest ELSE tags.build

\* GetLatestImageOfBranch: the tags are fetched when the cache has expired.
Fetched == IF tags.expired THEN newest ELSE tags.build

AutoDeploy ==
    /\ pass.at = "version" /\ ChoosesOneVersion(pass.obj.spec)
    /\ \/ /\ ~pass.clean.spec.auto
          /\ R!Return("rollout", NoPatch, FALSE, FALSE)
          /\ UNCHANGED <<tags, dup, failures>>
       \/ /\ pass.clean.spec.auto
          /\ tags' = [build |-> Fetched, expired |-> FALSE]
          /\ \/ /\ Fetched # NoVersion
                /\ pass' = [pass EXCEPT !.at = "rollout",
                                        !.obj.spec.version["summon"] = Fetched]
                /\ UNCHANGED <<dup, failures>>
             \/ Fetched = NoVersion /\ ComponentFails("registry")
       \/ /\ pass.clean.spec.auto /\ tags.expired
          /\ failures < MaxFailures
          /\ R!ReturnError("registry", NoPatch, FALSE)
          /\ dup' \in {dup, [dup EXCEPT !.error[NoVersion] = "registry"]}
          /\ failures' = failures + 1 /\ UNCHANGED tags
    /\ UNCHANGED <<top, view, work, rollout, newest, historyVars, edits>>

\* Everything between autodeploy and status, of which notification sees a phase or
\* an error.
Rollout ==
    /\ pass.at = "rollout"
    /\ \/ /\ rollout \in {"Deploying", "Ready"}
          /\ R!Return("notification", [NoPatch EXCEPT !.phase = rollout], FALSE, FALSE)
          /\ UNCHANGED <<dup, failures>>
       \/ /\ rollout = "waiting"  \* no component sets a phase
          /\ R!Return("notification", NoPatch, FALSE, FALSE)
          /\ UNCHANGED <<dup, failures>>
       \/ rollout \in Errors /\ ComponentFails(rollout)
    /\ UNCHANGED <<top, view, work, rollout, cacheVars, historyVars, edits>>

Wanted(c) == pass.obj.spec.version[c]

\* Mutant: only the record counts, not what this process has announced.
DueByRecord(c) == Wanted(c) # pass.obj.status.notified[c]

Due(c) == Wanted(c) # pass.obj.status.notified[c] /\ dup.done[c] # Wanted(c)

Announce(parts) ==
    /\ told' = [c \in Parts |-> IF c \in parts THEN Wanted(c) ELSE told[c]]
    /\ repeated' = repeated \cup {c \in parts \ replayed :
                                    /\ told[c] = Wanted(c)
                                    /\ top.status.notified[c] = Wanted(c)}
    /\ UNCHANGED replayed

Announced(parts) == [c \in Parts |-> IF c \in parts THEN Wanted(c) ELSE dup.done[c]]

\* The regression suite is started once per version as far as this process knows;
\* a webhook that fails is not an error.
SuiteStarted ==
    \/ dup' = [dup EXCEPT !.done = Announced({c \in Parts : Due(c)}),
                          !.hook = Wanted("summon")]
       /\ UNCHANGED failures
    \/ dup' = [dup EXCEPT !.done = Announced({c \in Parts : Due(c)})]
       /\ dup.hook # Wanted("summon") /\ SomeCallFails

\* Mutant: announcements that failed count as made.
NotifySuccessAnyway ==
    /\ pass.at = "notification" /\ pass.obj.status.phase = "Ready"
    /\ \E missed \in SUBSET {c \in Parts : Due(c)} :
         /\ IF missed # {} THEN SomeCallFails ELSE UNCHANGED failures
         /\ Announce({c \in Parts : Due(c)} \ missed)
         /\ dup' = [dup EXCEPT !.done = Announced({c \in Parts : Due(c)} \ missed)]
    /\ R!Return("save", [NoPatch EXCEPT !.notified = TRUE], FALSE, FALSE)
    /\ UNCHANGED <<top, view, work, rollout, cacheVars, edits>>

\* handleSuccess: every part is tried, and one that fails is an error of the pass,
\* which the error handler tries to report in turn.
NotifySuccess ==
    /\ pass.at = "notification" /\ pass.obj.status.phase = "Ready"
    /\ \/ /\ Announce({c \in Parts : Due(c)}) /\ SuiteStarted
          /\ R!Return("save", [NoPatch EXCEPT !.notified = TRUE], FALSE, FALSE)
       \/ \E missed \in SUBSET {c \in Parts : Due(c)} :
            /\ missed # {} /\ SomeCallFails
            /\ Announce({c \in Parts : Due(c)} \ missed)
            /\ \E reported \in BOOLEAN :
                 dup' = [dup EXCEPT !.done = Announced({c \in Parts : Due(c)} \ missed),
                                    !.error[Wanted("summon")] =
                                       IF reported THEN "post" ELSE @]
            /\ R!ReturnError("post", NoPatch, FALSE)
    /\ UNCHANGED <<top, view, work, rollout, cacheVars, edits>>

\* The stored error is reported again, if this process has not done so; when that
\* fails the error is another one.
NotifyError ==
    /\ pass.at = "notification" /\ pass.obj.status.phase = "Error"
    /\ \/ /\ ErrorHandled(pass.obj.status.message, Wanted("summon"))
          /\ R!Return("save", NoPatch, FALSE, FALSE)
       \/ /\ Reportable(pass.obj.status.message, Wanted("summon")) /\ SomeCallFails
          /\ dup' \in {dup, [dup EXCEPT !.error[Wanted("summon")] = "post"]}
          /\ R!ReturnError("post", NoPatch, FALSE)
    /\ UNCHANGED <<top, view, work, rollout, cacheVars, historyVars, edits>>

NotifyNothing ==
    /\ pass.at = "notification" /\ pass.obj.status.phase \notin {"Ready", "Error"}
    /\ R!Return("save", NoPatch, FALSE, FALSE)
    /\ UNCHANGED <<top, view, work, rollout, cacheVars, dup, historyVars, boundVars>>

Components == DefaultsRefuse \/ AutoDeploy \/ Rollout \/ NotifySuccess \/ NotifyError
                \/ NotifyNothing

\* A replay copies what the Spec asks for by then, whoever has announced it.
Save ==
    /\ R!Save(FALSE)
    /\ LET changed == {c \in Parts : top'.status.notified[c] # top.status.notified[c]} IN
       replayed' = IF pass.at = "replay" THEN replayed \cup changed ELSE replayed \ changed
    /\ UNCHANGED <<rollout, cacheVars, dup, told, repeated, boundVars>>

-----------------------------------------------------------------------------
(* The world around.                                                        *)

OtherEvent ==
    /\ R!OtherEvent
    /\ UNCHANGED <<rollout, cacheVars, dup, historyVars, boundVars>>

Sync == R!Sync /\ UNCHANGED <<rollout, cacheVars, dup, historyVars, boundVars>>

\* The tags grow old; the goroutine that sleeps for the same time starts passes of
\* platforms that deploy automatically, and panics when it cannot list them (Crash).
TagsExpire ==
    /\ ~tags.expired /\ tags' = [tags EXCEPT !.expired = TRUE]
    /\ UNCHANGED <<top, view, pass, work, rollout, newest, dup, historyVars, boundVars>>

WatchForImages ==
    /\ top.spec.auto /\ ~work.queued /\ R!Event
    /\ UNCHANGED <<top, view, pass, rollout, cacheVars, dup, historyVars, boundVars>>

ImagePushed ==
    /\ newest < MaxVersion /\ newest' = newest + 1
    /\ UNCHANGED <<top, view, pass, work, rollout, tags, dup, historyVars, boundVars>>

\* What the rollout comes to changes with the cluster; its objects are watched.
RolloutMoves ==
    /\ \E r \in Outcomes : r # rollout /\ rollout' = r
    /\ SomeCallFails
    /\ R!Event
    /\ UNCHANGED <<top, view, pass, cacheVars, dup, historyVars, edits>>

RolloutEnds ==
    /\ rollout # "Ready" /\ rollout' = "Ready" /\ R!Event
    /\ UNCHANGED <<top, view, pass, cacheVars, dup, historyVars, boundVars>>

\* Bound: the other parts have one version, or none.
Choices(c) == IF c = "summon" THEN Versions ELSE {1}

EditVersion ==
    /\ edits < MaxEdits /\ edits' = edits + 1
    /\ \E c \in Parts : \E v \in Choices(c) \cup {NoVersion} :
         /\ v # top.spec.version[c]
         /\ R!Write([top EXCEPT !.spec.version[c] = v])
    /\ UNCHANGED <<work, rollout, cacheVars, dup, historyVars, failures>>

Crash ==
    /\ SomeCallFails
    /\ R!Restart
    /\ dup' = NewDups /\ tags' = [build |-> NoVersion, expired |-> TRUE]
    /\ UNCHANGED <<rollout, newest, historyVars, edits>>

Next ==
    \/ Begin \/ Components \/ Save \/ Sync \/ OtherEvent \/ TagsExpire \/ WatchForImages
    \/ ImagePushed \/ RolloutMoves \/ RolloutEnds \/ EditVersion \/ Crash

Spec == Init /\ [][Next]_vars

\* The worker, the informers and the two timers of the process; the rollout ends
\* (SummonRollout!Converges).  Nothing is assumed of the user or of a resync.
Fairness ==
    /\ WF_vars(Begin) /\ WF_vars(Components) /\ WF_vars(Save) /\ WF_vars(Sync)
    /\ WF_vars(TagsExpire) /\ WF_vars(WatchForImages) /\ WF_vars(RolloutEnds)

FairSpec == Spec /\ Fairness

-----------------------------------------------------------------------------
Stages == {"version", "rollout", "notification"}

TypeOK ==
    /\ R!TypesOK(Objects, Patches, Stages)
    /\ rollout \in RolloutOutcomes
    /\ newest \in Versions \cup {NoVersion}
    /\ tags \in [build : Versions \cup {NoVersion}, expired : BOOLEAN]
    /\ dup \in Dups
    /\ told \in [Parts -> Versions \cup {NoVersion}]
    /\ replayed \subseteq Parts /\ repeated \subseteq Parts
    /\ edits \in 0 .. MaxEdits /\ failures \in 0 .. MaxFailures

\* Once the announcement of a version is on record it is not made again: not by a
\* pass with an old copy, which the cache in memory holds back, nor by a new
\* process, which has only the record.  Unless the record is the doing of a replay,
\* which copies a version that nobody may have announced.
NoRepeatOnceRecorded == repeated = {}

RecordsAnnouncement(c) ==
    top'.status.notified[c] \in {top.status.notified[c], told[c], NoVersion}

\* "The last version notification posted": a version goes on record only when it is
\* the one that was announced last.
NotifiedHonest == [][\A c \in Parts : RecordsAnnouncement(c)]_top

\* So it is when the pass that announced it, or knows that it was announced, writes
\* the record at once, also if the version is autodeploy's and in no stored object.
HonestWithoutConflict ==
    [][pass.at # "replay" => \A c \in Parts : RecordsAnnouncement(c)]_top

\* With AutoDeploy the newest image is announced in the end, although Slack or the
\* registry fail now and then and the operator's caches are emptied by restarts.
NewestAnnounced ==
    <>[](ChoosesOneVersion(top.spec) /\ top.spec.auto /\ newest # NoVersion)
      => <>[](told["summon"] = newest)
=============================================================================
