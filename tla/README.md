# The agent harness in TLA+

`packages/agent-harness` (design.md there, and `docs/plans/lean-harness-rebuild.md`) takes an
idea to a pull request: agents clarify, specify, implement, review and publish, each turn being
one *command* that a coordinator process leases from a SQLite table. It promises that a run
survives the end of the process at any point, that its two loops do not trip over each other,
and that what it publishes is what was checked. Its operator works with a dashboard, a page that
follows the events of the server and may be behind it in every part. This directory models the
parts that keep those promises, checks them with TLC and proves the central ones with TLAPS.

Everything else in the repository (`General/`, `E&E/`, `templates/`: rules and skills, which are
prose for language models; scripts, CI) has no behaviour to model.

## Inventory

| Part | State | Operations | Hard part |
|---|---|---|---|
| Command store, `store.ts` | rows of `commands`, lease columns of `runs` | enqueue (idempotent), two lease transactions, renew, finish | expiry and reclaiming between any two steps of a worker |
| Coordinator, `coordinator.ts` | two loops, a renewal timer, a stop flag, one lease owner | start, stop, `consume`, `consumeCancellations` | crash and restart, overlapping processes, two loops with one owner |
| Engine, `workflow-engine.ts` | run status, step and revision; step records; gates; turns and actions | `process` of six command kinds, `executeTransition`, `complete` | awaits at which the other loop and the API run; crashes between statements |
| HTTP API, `api-server.ts` | the state of the runner build (else it shares the store) | create a run; answer, retry, cancel, publish; setup, settings, guidance; event stream | requests at any time, in any status, twice; what is read before and after an await |
| Steps, `workflows/*.ts` | stage, indexes, attempts, ordinals | `start`, `onAgent`, `onCommand`, `onUser` | every request needs a key without a stored result; limits; order of checks |
| Environment, `environment-manager.ts`, `container-runtime.ts` | run container, image, stored results | build, setup, health, recovery | results that outlive what they were obtained in |
| Git, `git-runtime.ts` | worktree, HEAD, delivery branch, pull request | commit, publish | publish is interrupted and repeated |
| Agent runtime, `agent-runtime.ts`, `worker.ts` | none | one turn with a deadline | a late or lost answer |
| Configuration, `config.ts`; guidance, `guidance.ts` | `config.json`; override files | read, merge and write; read, write, reset | read, merge and write are not one step |
| Dashboard, `ui/app.js` | selected run, forms, drafts, lists, disabled buttons, polling interval | select, type, submit, retry, cancel, start, build, save | replies in any order, events while a form is filled in, a lost connection |

How they interact: the API and the engine enqueue commands in the store; a loop leases one, calls
`engine.process`, which executes one transition of the current step (a call of an agent, a
container or git, awaited), stores its result, hands it to the step, stores the answer and
enqueues the next `continue`; then the loop finishes the command. Everything runs on one thread;
the second loop and the API run whenever the first awaits. The page knows of all this from the
replies to its requests and from one stream of events, each of which makes it load something again.

What makes each part correct:

* store and coordinator: an accepted command ends exactly once, at most one worker has it, none
  is forgotten, whatever crashes;
* engine: no wakeup is lost, no stale state is written back, an answer reaches the question it
  was given for, what has a result is not done again, a run comes to rest, a cancellation takes effect;
* steps, environment and git: only verified and approved work is committed, only the validated
  change is published, the environment is the one that was specified, limits hold;
* dashboard: a page at rest shows what is; what was typed for one run, chosen for one project or
  written for one role does not end up in another; what was said to be saved is.

`PROJECT.json` lists every component, the hazards at the line where they bite, and the properties
that watch them.

## Modules

| Module | Models | Built on |
|---|---|---|
| `CommandStore` | the statements of `store.ts` on `commands` and `runs.lease_owner` | |
| `Coordinator` | `coordinator.ts`: processes, loops, timer, crash, restart | `CommandStore` |
| `WorkQueue` | abstract: what a durable work queue promises | |
| `CoordinatorProperties` | invariants, refinement mapping, liveness | `Coordinator`, instance of `WorkQueue` |
| `RunEngine` | `workflow-engine.ts` and its rows, for one run with steps that answer anything their type allows | `Coordinator` |
| `RunLife` | abstract: what the engine makes of a run, without commands, processes or failures | |
| `RunEngineProperties` | what a run may rely on, refinement mapping | `RunEngine`, instance of `RunLife` |
| `StepContract` | the contract between engine and steps: transitions, keys, stored results | |
| `Dialogue` | `clarify.ts`, `specify.ts` | `StepContract` |
| `Provision` | `provision.ts`, `environment-manager.ts`, the run container | `StepContract` |
| `Delivery` | `implement.ts`, `validate.ts`, `publish.ts`, `git-runtime.ts`, the worktree and the remote | `Provision` |
| `Workflow` | the whole `complete` workflow (`ticket` has the same steps) and its properties | `Dialogue`, `Delivery` |
| `PageStream` | the events table, the page's stream of it, replies in and out of order | |
| `RunPage` | the list of runs, the selected run, its gate forms, drafts and actions; `/api/runs` and its commands | `PageStream` |
| `SetupPage` | the setup panel, its polling, the runner build; `/api/setup` | `PageStream` |
| `StartForm` | projects, branches and the start of a run | `RunPage`, `SetupPage` |
| `SettingsPage` | the two settings forms, `config.ts`, `/api/settings` | `SetupPage` |
| `GuidancePage` | the guidance tab, `guidance.ts`, its endpoints | `StartForm`, `SettingsPage` |
| `Dashboard` | the page as a whole: events delivered to its parts, a lost connection | `GuidancePage` |
| `DashboardProperties` | what the operator may rely on | `Dashboard` |
| `Brief` | `domain/reflect.ts`, the brief gate of `clarify.ts` and its form in `ui/app.js` | |
| `RunContainer` | the docker commands that create and remove a run container, in both loops and the recovery | |
| `MCCoordinator`, `MCRunEngine`, `MCWorkflow`, `MCDashboard`, `MCBrief` | instances for TLC (`RunContainer` has no constants) | |
| `CoordinatorProofs` | theorems about the queue, its refinement of `WorkQueue` among them | `CoordinatorProperties` |
| `EngineProofs` | theorems about the engine, its refinement of `RunLife` among them | `RunEngineProperties` |
| `AnswerProofs` | theorems about the gate forms | `DashboardProperties` |
| `DashboardProofs` | theorems about the settled page, the setup panel and the runner build | `AnswerProofs` |
| `FormProofs` | theorems about the start form, the guidance tab and the settings | `DashboardProofs` |
| `WorkflowProofs` | theorems about the steps, the worktree and the container | `Workflow` |
| `ContainerProofs` | theorems about the run container | `RunContainer` |
| `BriefProofs` | theorems about texts and about the brief | `Brief` |

### State and code

*Command store.* `commands` is the table in `created_at` order. A row's key is its idempotency
key, a record in place of the string. Time is one bit per lease: `expired` says that
`lease_expires_at` has passed. Each action is one transaction of `store.ts`.

*Coordinator.* `proc[o]` is the life of a process, `loop[o][l]` what its main or cancellation
loop is doing. An owner is a process, because each `Coordinator` draws a fresh UUID. `Overlap`
allows a second `serve`; `MayLapse` names the loops whose lease may run out under a live worker:
`{}` is a coordinator whose timer always comes in time and whose cancellations are faster than
their lease, `{"cancel"}` one where removing a container takes longer.

*Engine.* `run`, `rec`, `gate` and `ext` are the rows of `runs`, `step_states`, `gates`, and
`turns` with `actions`. `act[o][l]` is where a loop stands inside `process` and what it keeps in
local variables across an await (the step, the transition, the revision it read). A statement
that commits is an action, so a crash (`EngineCrash`) can fall between any two. Of those, the ones
the code runs without an await in between keep the thread (`Synchronous`): no other loop and no
request gets in, but the process may die there. Steps answer with any transition their callback
may return, `MaxOrdinal` times; `RoleOf` says which agent the request of an ordinal goes to, as
corrections of one role share a key and those of two do not. The fault set `Fault` says which calls may fail:

| Fault | In the code |
|---|---|
| `agent`, `deadline`, `command` | an exception inside the `try` of `executeTransition`, or `AgentDeadlineError` |
| `schema` | output that fails `validateJsonSchema` |
| `worktree`, `start`, `artifact`, `destroy` | an exception outside any `try` of the engine |
| `answer` | `onUser` throws after `answerGate` has committed |
| `recovery` | `ensureContainer` fails in `Coordinator.start` |

*Steps.* `step`, `tr`, `st` and `results` are the current step, its stored transition and state,
and the stored results of its requests. A stage, index, attempt or ordinal is as in the step's
`State`; texts, sessions and evidence are left out. A verdict (an exit code, an approval, a
`resolved`) is a Boolean in the result, and so is whether the output of an agent is valid. An
invalid one is corrected once (`ScheduleCorrection`), under the key all corrections of the role in
the step share (`CorrectionKey`): the step is told the corrected output, or that of an earlier
correction, or is blocked. In `Delivery` a result also holds the version of the
worktree it was obtained on, and in `Provision` the spec.

*Worktree and remote.* `tree.version` rises with each turn that writes, `tree.head` is the
version last committed, `remote` the version of the delivery branch and whether it has a pull
request. *Container.* `container` is its image, the setup commands that ran in it, and whether a
build or the recovery made it.

*Life of the container.* `Provision` sees a container that is there or not; `RunContainer` has the
docker commands one by one, with the cancellation loop, a crash or docker itself between any two.
`main` is what the main loop (or the recovery before it) awaits, `cancel` where `cancelRun` is. The
main loop may take the run up whenever it is not over, as an operator's retry lets it, so the queue
is not needed. Status, step and transition are kept as far as they decide what is done with the
container. `late` and `kept` are history: the container was created for a run past saving, and
docker did not remove it.

*Brief.* Texts are sequences of lines, so that joining, splitting and trimming mean something:
`CoerceReflectOutput` and `ApplyReflectEdits` are `domain/reflect.ts`, `Shown` and `ReadForm` the way
into the form and back, `OnUser` the step. `touched` and `proposed` are history. The order of lines
in the brief is left out.

*Dashboard.* A request under way is a record with a stage: sent, perhaps half served (the server
awaits something between two reads), served; receiving it is the code after `await request(...)`.
The requests of a part of the page form a sequence (`calls`, `probes`, `forms`, `saves`, `docs`).
`ordered` says whether replies keep the order of their requests: HTTP promises nothing, and the
code does not look, so a property either holds in every order or names `ordered` as its condition.
`shown` is the run the detail was last rendered with, `panel`, `form` and `drafts` the gate form,
what stands in it and `gateDrafts`. A text is the run and gate it comes from and whether it was
typed or proposed. Behind the API, a run is its status and its open gate, moved on by
`TakeCommand` and `Advance` with the event that goes with each change; how the engine really gets
there is `RunEngine`. `Interrupted` is a lost connection or a restarted server: every request
under way fails, each with the code of its `catch`, and the stream starts from the first event.

Five variables are history, read by properties only: `typed` (what the operator typed an answer
for), `told` (what the page said is saved), and three that record an operator who was faster than
the page: `start.rushed` (changed the project while a list of branches was loading), `hurried`
(went on in the settings before a form was saved) and `hasty` (turned to another role before the
guidance of the last one was there). In those cases the code does mix things up: it offers the
branches of the other project, loses the first of two saves, puts one role's guidance into
another's editor.

`RunEngine` and `Workflow` divide the engine between them: `RunEngine` has all its control flow
and treats steps as arbitrary; `Workflow` has the real steps, and keeps of the engine what a step
can see: a request stays pending until a result is stored under its key, and a crash or failed
call leaves it pending.

## Runs

| Run | Configuration | Distinct states | Shows |
|---|---|---|---|
| `coordinator` | a command and a cancellation that may outlive its lease, two processes, overlap | 17 680 | mutual exclusion, no orphaned lease, refinement of `WorkQueue`, every command ends |
| `engine_live` | two steps, one process, no crash, answers and a cancellation, every fault of a call | 252 354 | types, a run comes to rest, a cancellation lands, refinement of `RunLife` |
| `engine_crash` | two steps, one crash anywhere, a recovery that may fail, answers and retries | 1 347 735 | wakeups, captured state, gates, step order, no call repeated, no silent stop, refinement of `RunLife` |
| `engine_cancelled` | two steps, a cancellation | violation | a cancelled run goes on |
| `engine_gate` | one step, no faults | violation | a crash loses a gate |
| `workflow` | whole workflow, with invalid outputs and corrections | 3 113 967 | the properties below |
| `workflow_setup` | one revision of the spec | violation | executable in the old image |
| `workflow_review` | two tasks, one attempt each, invalid reviews | violation | a version no reviewer approved is committed |
| `workflow_clean` | one final repair | violation | validated, and unpublishable |
| `containers` | one run, crashes, cancellations, lost containers and failing removals, unbounded | 1 949 | names are free, no container is left unaccounted for |
| `brief` | every answer with each field missing, blank, padded or of two lines; three edits, or a direct answer | 81 331 | a brief is confirmed as shown, no answer throws |
| `dashboard` | eleven sessions in the parts of the page, replies in and out of order, one interruption | 1 117 871 | settled views, texts, branches, settings and guidance that stay where they belong, one build at a time, seen to its end |

What the properties of the passing runs say is stated above each definition. The deeper ones:
`ImplementsWorkQueue` relates rows, owners and leases of all processes to one promise;
`ImplementsRunLife` maps the rows of a run, under crashes, retries, cancellations and duplicated
answers, to steps that ask for one thing at a time, go on only with its answer, never ask for what
they had, and are left once: an answer or result applied twice, late, to a request that has been
replaced, or before it is there, has no counterpart in `RunLife`;
`FreshContinue` is why a `continue` is never dropped as a duplicate, although its key is made
from a revision read before an await; `CapturedIsCurrent` and `OpenGateIsCurrent` are why a
single lease column suffices although two loops are at work on a run; `CommitIsVerified`,
`ValidatedAsItIs` and `PublishedIsValidated` follow the worktree through repairs, retries and
lost results; `FreshRequest` is what all of them rest on. `CommitIsVerified` says how far the shared
key of corrections can lead: what is committed was verified as it is and its reviewer was asked about it
as it is, but an invalid answer may have been replaced by the approval of an earlier, committed
task. In `validate` an old correction can only be a rejection, since an approval ends the step. `NoSilentStop` lists the only ways a run
can be left behind, with crashes and faults: one of its commands has failed, its step waits for the
operator, or its first command was never queued; the theorem has the faults outside `try` as well. `SettledPage` says that no change is without an
event that makes the page load it, in whatever order events, clicks and replies come, and after a
replay of the stream; `AnswerOfItsRun` that selecting runs faster than they load, with one
`gateDrafts` for all, never sends the text of one as an answer of another; `BuildIsSeenToEnd` that
the polling interval makes up for events and replies that are lost.

`OnlyLateOnesStay` is as much as the code achieves of removing what it created: it holds through
every order of removal, creation, mark and crash because `cancelRun` marks last and is repeated until
it has. `NeverFails` matters because `answerGate` commits first: an exception after it leaves a run
with a closed gate. `UntouchedKept` and `ConfirmedAsShown` follow a list through four conversions.

`RunSettles` excludes the retry of a step that answered `blocked`: such a run stays `queued` with
no command. A fault outside the `try` blocks fails the `start-run` or `continue` command, which
is the other exception: after it only the operator moves the run. `RunSettles` and `CancellationLands`
are checked without crashes, as a crash between a statement and its `enqueueCommand` leaves a run
behind in the same way; what a crash leaves of a run is `NoSilentStop`, and that a command, a
cancellation among them, is worked on again after a crash until it ends is `EveryCommandEnds`.

`ExecutableIsSetUp` and `SetUpUnlessRevised` speak of containers made by a build; one made by
the recovery has run no setup command at all, because `ensureContainer` runs none.

### Bounds, and why they are enough

* Commands: an ordinary command and a cancellation give both lease transactions, both priorities
  and contention for each row; the theorems are for any number of commands. Two processes: one that dies and its successor, or
  two at once; a lease names one owner, so a third would meet the same rows. Crashes and stops
  happen while a process is left to start (`SpareProcess`), otherwise liveness would only say
  that nobody starts the harness again.
* Steps: two, so that completing one and starting the next is covered; the last has no successor.
  `MaxOrdinal = 2` requests or gates per step: a first and a following one, and two corrections.
  One tag per kind of operator command: a repeated request is absorbed, and the enqueueing of
  another of the same kind is covered by answers to distinct gates.
* Workflow: two specs with one and two setup commands, one revision; one or two tasks, two
  attempts (one repair), one final repair, two validation commands, two rounds of questions.
  Each loop is entered, repeated and exhausted. `MaxVersion = 6` allows both tasks all their
  attempts, the final repair, and one turn that is repeated or corrected.
* Containers: no bound at all; validation commands are as those of implement.
* Brief: one list, as the five are treated alike; an item of two lines, one that is blank and one with
  blanks around; every pair of fields in a direct answer; three edits add, fill and remove an entry.
* Dashboard: a session allows each part of the system so many acts of its own (`Sessions`): three
  of the operator on a run with one move of its engine; two with an interruption; three presses in
  the setup panel; two in the start form, or one there and one in the setup panel; four in the
  settings (edit and save, twice), four in the guidance tab (turn, edit, save, turn back). What
  follows from an act (requests, replies, events, renderings, commands, the end of a build) is not
  bounded, except by two requests of a part under way. Two runs that wait at a gate and one that
  may be started make selection and drafts matter, gates of four kinds cover those with and
  without a draft and a proposal; two projects with one common branch, two roles, two texts.
  The parts share the stream of events only, so sessions that mix all of them add interleavings
  of steps that do not meet; those of start form with setup panel and run list are included.

`CHECK_DEADLOCK FALSE` everywhere: a system without requests stops, a blocked or finished run too.

### Fairness

Weak fairness of each loop of a live process (its promises settle and its timers fire), of the
clock (an unattended lease runs out), of a request already being handled (`EnqueueStart`), and of
restarting: an operator who finds no coordinator running starts one. A call of an agent settles
because it has a deadline, the removal of a container because it has a timeout. Project and setup
commands have none (`workflow-engine.ts:73`, `environment-manager.ts:21`): that they end is
assumed, and without it one that hangs keeps the main loop, and with it every run, waiting.

Weak is enough: a loop's next step is disabled only while the other loop or a request has the
thread, up to its next await, and the other loop has only cancellations to do, of which there are
finitely many. In `Coordinator` the loops' leasing is fair separately, as each polls by its own
timer. Crashes, stops, submissions, answers and retries are never owed, and neither is the lapse
of a lease that is being renewed.

On the dashboard only the setup panel's interval, the replies to its requests and the end of a
docker build are fair: `setInterval` goes on, requests are answered or fail, docker ends. No event
need be delivered and no button pressed.

`Workflow` states no liveness: whether a step goes on is `RunEngine`'s matter, and whether an
agent ever approves is nobody's.

## Theorems

For all values of the constants (any runs, keys, processes, overlap and lapses; for the engine any
number of steps, of requests and gates per step, of processes, of operator commands and any set of
faults; for the steps any EnvironmentSpecs and their commands, tasks, attempts, repairs, validation
commands, rounds of questions and versions of the worktree; for the dashboard any runs, scripts of gates, projects, branches, roles and sessions; for
the brief any answers, of lists, texts and lines of any length, and any edits):

| Theorem | Establishes |
|---|---|
| `CoordinatorProofs!TypeCorrect` | `CoordinatorTypeOK` |
| `CoordinatorProofs!Exclusive` | `ExclusiveWork` |
| `CoordinatorProofs!NoOrphans` | `NoOrphanedLease` |
| `CoordinatorProofs!Implements` | `CoordinatorSpec` implements `WorkQueue` (`ImplementsWorkQueue`) |
| `EngineProofs!EngineTypes` | `EngineTypeOK` |
| `EngineProofs!StepsRunInOrder` | `StepsInOrder` |
| `EngineProofs!OpenGatesAreCurrent` | `OpenGateIsCurrent` |
| `EngineProofs!CapturedStaysCurrent` | `CapturedIsCurrent` |
| `EngineProofs!CallsNeverRepeated` | `NeverRepeated` |
| `EngineProofs!ContinuesAreFresh` | `FreshContinue` |
| `EngineProofs!NeverStopsSilently` | `NoSilentStop` |
| `EngineProofs!EngineImplementsRunLife` | `Spec` of `RunEngine` implements `RunLife` (`ImplementsRunLife`) |
| `WorkflowProofs!WorkflowTypes` | `WorkflowTypeOK` |
| `WorkflowProofs!RequestsAreFresh` | `FreshRequest`, if `DistinctTasks` |
| `WorkflowProofs!CommitsAreVerified` | `CommitIsVerified`, if `DistinctTasks` |
| `WorkflowProofs!TasksAreCommitted` | `ImplementedIsCommitted`, if `DistinctTasks` |
| `WorkflowProofs!ChangesAreValidated` | `ValidatedAsItIs` |
| `WorkflowProofs!AttemptsAreBounded` | `AttemptsBounded` |
| `WorkflowProofs!PublicationsAreValidated` | `PublishedIsValidated` |
| `WorkflowProofs!ContainersAreSetUp` | `SetUpUnlessRevised` |
| `AnswerProofs!AnswersStayWithTheirRun` | `AnswerOfItsRun` |
| `AnswerProofs!TypedIsKept` | `TypedStays` |
| `DashboardProofs!PageSettles` | `SettledPage` |
| `DashboardProofs!SetupSettles` | `SettledSetup` |
| `DashboardProofs!BuiltOnce` | `OneBuild` |
| `FormProofs!StartedFromItsProject` | `BranchOfProject` |
| `FormProofs!GuidanceStaysWithItsRole` | `GuidanceForItsRole` |
| `FormProofs!SavedIsStored` | `SavesTakeEffect` |
| `FormProofs!DashboardTypes` | `DashboardTypeOK` |
| `ContainerProofs!LeftOvers` | `OnlyLateOnesStay` |
| `ContainerProofs!FreeName` | `NameIsFree` |
| `BriefProofs!BriefTypes` | `BriefTypeOK` |
| `BriefProofs!SchemaHolds` | `NeverFails` |
| `BriefProofs!UntouchedIsKept` | `UntouchedKept` |
| `BriefProofs!ConfirmedIsShown` | `ConfirmedAsShown` |

The only assumptions are those the modules name: `NoOwner` is not an owner, `Overlap` is a
Boolean, `MayLapse` a set of loops; for the engine that there is a step, a bound on what a step asks,
and a known set of faults (`EngineAssumption`; that one coordinator runs at a time, with leases it
renews, is how `RunEngine` instantiates `Coordinator`); for the steps that the constants are the
numbers and sequences they are used as, with at least one attempt and one round (`PlanAssumption`,
`RoundsAssumption`, `DeliveryAssumption`). Three theorems name a condition, `DistinctTasks`, because
the code does not see to it: the other five hold for tasks with equal ids too. The theorems about the
dashboard assume that the runs are finitely many, that the value for "none" is not one of them, and
that a run does something and opens gates of the known kinds (`RunPageAssumption`). They hold for connections lost at any moment and for requests and sessions
without bound; those about texts, branches, guidance and builds for replies in any order, and those
about what is shown at rest and what was saved for replies in order, as their properties say: out of
order, the code shows what came last. The theorems about the brief assume that the fields of an
answer are texts or absent, and that its lists are among the five of the schema (`BriefAssumption`).

None of the invariants is inductive, and each proof has its own strengthening. Of the queue:

* `TypeInv` adds to the types that the job of a busy loop is a row of the table (`JobExists`).
* `ExclusiveInv` adds `WorkIsLeased`: a worker whose lease cannot lapse still holds it, unexpired,
  or its row is finished. So nothing reclaims the row, and no second loop can lease it.
* `OrphanInv` adds `NewOwnsNothing`: no lease names a process that has not started, hence a
  process that starts, with idle loops, leaves none behind.
* `RefinementInv` is `ExclusiveInv` with `KeysUnique`: `enqueueCommand` absorbs repeated keys, so
  the fate of a key is that of one row.

Of the engine, `EngineInv`, the conjunction of three layers that rest on each other:

* `SkeletonInv`: the types; `ThreadInv`, one process runs at a time and its cancellation loop does
  nothing but cancel; `JobInv`, each loop at work has a row of its own, under an unexpired lease. So
  of all that happens to a run only the main loop of one process moves its step, in one of fourteen
  actions; the other steps are shown once to leave step, gate and results alone (`Quiet`).
* `DataInv`: the counters of a step bound the keys of the requests issued for it (`StepInv`,
  `IssuedInv`), and those keys with a stored result are keys that were issued; what a loop has read
  of a step is what the step still is, or the step is over (`ActInv`); a finished row is not one a
  loop works on (`DoneInv`); the revision in the key of a wakeup lies below the next one to be
  queued (`RevisionInv`), which is all of `FreshContinue`.
* `SilentInv`: a run that should go on has a row that is not finished, unless one of its commands has
  failed. Each action that finishes a row is preceded by the one that queues the next.

The refinement follows from `EngineInv`: starting a step, storing an answer with a request, asking
for a correction and applying a result are `Ask`; a call that returns and an operator's answer are
`Answer`; leaving a step after its artifact is `Leave`; leases, crashes, cancellations, retries and the
statements in between stutter.

Of the steps, `WorkflowInv`. A step sees nothing of another but the worktree and the container, so the
invariant has one disjunct per step, and says besides what outlives a step:

* `StepsInv`: a step has not been started (`Idle`), or its own invariant holds. Each of `ClarifyInv`,
  `SpecifyInv`, `ProvisionInv`, `ImplementInv`, `ValidateInv` and `PublishInv` says that the stage
  determines what is pending (`...Asks`), and that the counters of the step bound the keys of its stored
  results (`...Keys`), which is why the next request is new. `ImplementResults` and `ValidateResults` say
  which of these results are good and of the version the worktree still has; the two bounds on turns
  count, task by task and repair by repair, what has been spent.
* `NewTask` carries tasks of equal ids through that: what is said of the verification and the commit of
  a task is said of one whose id is new, and those before it have left their commits (`ImplementDone`).
* `ApprovedByCorrection` and `FinallyCorrected` follow the one correction a reviewer gives in a step. In
  `implement` it is of the worktree as it is until that is committed, and of an earlier commit from then
  on, which is all that `CommitIsVerified` can say of it; in `validate` it approves at the very end or not at
  all. `Storable` adds that an invalid output is never good.
* `OneSpec`: until the spec is revised, container, build result and setup results are all of one spec;
  once a build has a result nothing is built again, so no container with less setup replaces another.
* `ProgressInv`: before provisioning is done nothing is ready, and with a pull request the worktree is
  clean and the delivery branch its head, as no turn writes in publish any more.
* `ResultsInv` and `SharedInv`: results are finitely many, so that turns can be counted, and the
  types of what the steps share.

Of the dashboard:

* `TypedInv`, on top of `AnswerInv`: a draft has an entry for each question of the form shown, the
  form shows the draft, and what was typed for a question stays in the draft of its run, also while
  another run is shown. So rendering the form anew brings back what was typed.
* `PageInv` says of each moment what `SettledPage` says of a page at rest: the last view of the selected run under
  way, once it is read, and with none under way the one shown, is as the run is, *or an event of the run is due*,
  that is, in the log behind the cursor; likewise the list of runs. No step makes a change without its event
  (`Announced`), an event that is handled asks for both, and an earlier reply does not overtake the last.
  `ChosenInv` and `RunsInv` say that all that was ever seen has an event in the log, for the moment at
  which a lost connection takes every request back and the stream starts again.
* `SetupInv` likewise: `StatusInv` of the last status under way, part by part as the server reads docker
  before its own state; `PanelInv`, that a panel that shows a build polls.
* `BuildInv`: a build runs exactly while the server says "building".
* `AnswerInv` follows a text on its way: the form holds texts of the run shown, the drafts those
  of their run, a request to answer and a command in the queue those of the run they name; and a
  loaded view is of the run that was asked for, which is what makes a late view harmless.
* `BranchInv`: while the operator has not been hasty, every list under way is of the chosen
  project, the enabled select holds a branch of it, and a start carries both together.
* `GuidanceInv`: likewise, every request of the guidance tab is of the selected role, with what
  it carries and brings back, and so is the open editor.
* `TypeInv`, on top of the others: every request of the four forms brings back a status, a field, a
  text or a role there is. That texts and gates are those there are is part of `AnswerInv` (`RunInv`).
* `SavesInv`: what the page told is in the settings it shows and in the file, or in a form that has been stored
  and is about to be told; only the last request under way saves, and none gets ahead of
  an earlier one; what a request has read is what was told; and what a form sends without its having
  been edited is what was told. That is why saving one form does not bring back old values of the
  other, although each sends more than was edited.

Of the container: `LeftInv` says it of each moment from a removal on (`cancelRun` or publication is
past it, the run is cancelled, the publication is stored) and not only of a run at rest, and
`MainInv` that the publish step is complete only with that result.

Of the brief: `BriefInv` says that a stored brief is trimmed and without blank entries (`IsBrief`), that at the
gate it is the proposal, and (`FormInv`) that a field of the form not touched says what the brief says. The
work is in what the functions of `reflect.ts` and of the form do to texts, and that is induction over data:
`NatSetInduction` and `SeqSetInduction` are induction for sets, from the well-foundedness of `<` and a least
counterexample, so no fact with an operator for a parameter is needed. With them `FlattenSeqIs` shows that
the function `FlattenSeq` chooses exists, and the rest follows: `NonBlankElements`, `NonBlankKeeps`,
`EntriesAre` (filtering and splitting lines lose nothing but what is blank), `TrimElements`,
`TrimTwice`, `FlattenBlank`.

Requests under way are sequences of which only the elements matter: `IsList` and the lemmas
`ListOf`, `ListAppend` and `ListRemove` say what replacing, adding and removing one does to them.
Where their order matters, `AppendLast` and `RemoveLast` say what becomes of the last request of a kind.

For each, a lemma shows that the initial states have it and another that every action
keeps it, with lemmas about the statements of the store (which rows they
change, and into what) underneath. `CoordinatorProofs` maps each action to a step of `WorkQueue`
or a stutter: `Submit` to `Accept`, both leases to `Begin`, `Finish` to `End`, `LeaseLost` and
`Crash` to `Vanish`, the rest, including expiry, renewal and reclaiming, to nothing.

Only model-checked: all liveness (`EveryCommandEnds`, `RunSettles`, `CancellationLands`,
`BuildIsSeenToEnd`), which is out of reach of the prover. Every invariant and refinement that a
passing run checks is a theorem.

## Where code and documents part

1. `engine_cancelled`: a call under way during a cancellation revives the run
   (`workflow-engine.ts:149`).
2. `engine_gate`: transition and gate are stored in two transactions
   (`workflow-engine.ts:149-150`).
3. `workflow_setup`: build and setup keys do not depend on the spec
   (`environment-manager.ts:11`, `provision.ts:43-49`).
4. `workflow_clean`: a final repair is never committed (`validate.ts:35`,
   `git-runtime.ts:43-44`).
5. `workflow_review`: all corrections of a role in a step share an action key, so that after one
   correction has approved a task, an invalid review of a later task counts as approved and its
   change is committed (`workflow-engine.ts:85-89`, `116`; `implement.ts:31-36`). In `RunLife`
   these requests are `Shared`, and no others are.

Seen while modelling, without a run of its own:

* Two tasks to which the slicer gives the same id, which nothing refuses, share the keys of their
  verification and commit (`implement.ts:29`, `36`): the second is given the results of the first,
  and what it changed is left uncommitted. With `Slices` of `<<1, 1>>` TLC finds
  `ImplementedIsCommitted` violated. Until it was proved about, the model assumed the ids to differ.
* The cancellation loop does not renew its lease; when it has been lost, `finishCommand` throws
  inside the `catch` as well and the process ends (`coordinator.ts:41-42`; `MayLapse` in `coordinator`).
* A cancellation that overtakes a build leaves a container behind (`workflow-engine.ts:57`,
  `container-runtime.ts:72-80`), and so does a restart after the publication was stored and before the
  step was, with a run that completes. `OnlyLateOnesStay` says that no others are left.
* What the brief gate asks for as "Extra notes for the agent" reaches no agent (`clarify.ts:66-77`,
  `app.js:620`).
* The dashboard sends no Idempotency-Key, so the second "Retry turn" of a run is a duplicate of the
  first and does nothing (`api-server.ts:111`).
* The title edited in the brief is stored and used nowhere (`clarify.ts:76`).
* A draft flag or the model of a role, once set, cannot be taken back, because updates are merged
  (`config.ts:29-35`).
* Limits come unvalidated from JSON: with one that is not a number the repair loop has no bound
  (`implement.ts:14`).

## Abstractions

* A worker whose turn was cut short by its deadline or by a crash has stopped writing. The code
  kills the `docker exec` client; what happens to the process in the container is docker's matter.
* Verification commands and reviewers leave the tracked files of the worktree alone.
* Limits are numbers. In the passing run the slicer gives its tasks different ids (`DistinctTasks`).
* `FreshRequest` is about the requests of the steps themselves; those for corrections are made by the
  engine under a key that may have a result.
* On the page: `config.json` and overrides are written in one step; a runtime form may
  always be refused (`RefuseConfig`: an `agentDeadlineMs` that is not positive), as the number is not
  kept; opening a run does not hide the settings; the start button follows the setup as soon as a run is started, not when it is shown;
  which branch is picked is chosen when the list is loaded; a stalled run is shown as a blocked one.
* Whether an answer of an agent can be coerced into a brief is a choice in `Dialogue`; `Brief` has
  the coercion. Answers are strings there (the API does not check them); that others make the step
  throw is the fault `answer` of `RunEngine`.
* A docker build ends with the server that started it.
* A docker command under way when the process dies has taken effect by then or never does.
* The order of rows with equal `created_at` (milliseconds) is the order of insertion.
* Action keys hold run and step ids: one run is modelled, and results of a step are dropped with it.

## Not modelled

Telemetry and the views that only show text (events, sessions, artifacts, errors); registering a
project; project overrides of the configuration; roles and the compilation of prompts; container
policy and Containerfile normalisation (pure text); child processes, worker envelope parsing,
artifact files; the CLI apart from `serve`; images, scripts and CI. The reasons are in
`PROJECT.json`.

## Plan

Done: the queue with its refinement and proofs, the engine with its refinement, the six steps, the dashboard with what
it talks to, the brief, the life of the container. In this order, next:

1. Several runs: one main loop serves all, so a slow turn of one delays the others;
   `EveryCommandEnds` per run under the priority of cancellations.
2. The checks of `schemas.ts` and the container policy against reference definitions.
