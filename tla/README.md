# Verification of k41-agent

TLA+ specifications of the concurrent core of k41-agent, TLC configurations that
check them on small instances, and TLAPS proofs about them. Paths below are
relative to `src/agent/`; `modules/agent_runtime/` is abbreviated `ar/`.

    tlc -workers 2 -config TasksAdverse.cfg BackgroundTasks   # any run of PROJECT.json
    tlapm BackgroundTasksProofs.tla                           # any *Proofs module

## 1. The system

k41-agent is one Python process: an asyncio event loop that serves HTTP, a
dashboard, chat channels and a command line, runs agents (LangGraph graphs) on
conversation threads, and stores threads, tasks and checkpoints in SQL. Almost
everything is concurrent in the asyncio sense: code between two `await`s is
atomic, anything can happen at an `await`, and a cancellation is delivered at the
await a task is suspended in, those of its `finally` blocks included.

| Component | State | Operations | Interacts with | What makes it correct |
|---|---|---|---|---|
| Background tasks `ar/background_tasks.py` | `_tasks`, the coroutine of each attempt, SQL rows | submit, attempt, retry, cancel, remove, trim, restore | sessions, thread rows, workspace leases, notifications, cleanup hooks | a task is never lost or stuck, cleaned up once, recalled as it ended |
| Model pools `modules/providers/model_pools.py` | per member: cooldown, probe mark, generation | execute, fail, reset | providers, configuration | a probe mark is always cleared, late answers change nothing, no output of two attempts |
| Active sessions `ar/active_sessions.py` | sessions with counts and tasks, reserved threads | acquire, release, cancel, reserve, wait | runner, compaction, fork, injection, deletion, runtime switch | counts match runs; no run beside a mutation that asked for an idle thread |
| Chat streams `ar/chat_stream_manager.py` | session per thread, replay log, subscribers | send, supersede, stop, subscribe, remove | runner, conversation history, dashboard | readers get everything; errors stay with their run; streams end |
| Conversations `modules/conversations/` | thread rows, checkpoints | compact, fork, inject, delete, navigate | the checkpointer, sessions | no acknowledged message is lost |
| Agent runner `ar/runner.py` | none of its own | streams graph events | all of the above | nesting of sessions |
| Runtime switch `modules/projects/runtime_switch.py` | reserved workspaces, run leases, a journaled transition | request, phases, abandon, recover | sessions, sandboxes, database | one active environment with the last files after any crash; a switch ends |
| Project workspaces `modules/projects/workspaces.py` | head, pinned revision, persistence status | checkpoint, write, ensure, retire | object store, tools, sandboxes | a named revision exists; nothing ends an environment that is not saved |
| Local synchronisation `modules/projects/local_sync.py`, `modules/workspaces/host_mirror.py` | a baseline, a replacement journal beside the files | preview, apply, mirror, resolve, sweep | the user's editor, the file system | no local edit is lost, whatever step a crash interrupts |
| Workspaces `modules/workspaces/` | sandboxes, host mirrors | allocate, mirror, retire | providers | sandboxes are accounted for |
| Coding tools `modules/tools/coding/`, `workflows/nodes/tool.py` | a journal per call, grants, processes | authorize a batch, invoke, replay, observe, stop | LangGraph, the user, projects | an effect is executed once, and after every approval |
| GitHub tasks `modules/github/` | deliveries seen, the claim of an issue, worktrees, branches | handle, prepare, run, publish, clean up, prune | background tasks, project workspaces, git, GitHub | work survives the worktree; one agent per issue; a push drops nothing unseen |
| Browser `modules/browser/` | sessions, locks, handoffs, invocations | ensure, execute, handoff, close, delete | driver, database | human and agent never drive together |
| Channels `modules/channels/` | status and task per channel | start, stop, fail | platform adapters | status matches the task |
| Scheduler, MCP, decisions, calendar, notifications | rows, caches, jobs | jobs, calls | external services | mostly sequential |
| Providers, agents, skills, prompt variables, users, usage | rows and files | CRUD, package installation | database, disk | mostly sequential |
| Bootstrap, configuration, delivery | the container | start, stop, update, route | everything | start-up order |

The hard parts are interleavings of coroutines at awaits, cancellation inside
handlers, restarts between two writes, and late results. Each place where this
code is exposed is in `PROJECT.json` under `hazards`, with the properties that
watch it or the reason why none does.

## 2. Modules

| Module | Models | Proofs |
|---|---|---|
| `TaskLifecycle` | what the task manager promises: the statuses users and the database see | in `BackgroundTasksProofs` |
| `BackgroundTasks` | the task manager | `BackgroundTasksProofs` |
| `ModelPool` | one pool and its calls | `ModelPoolProofs` |
| `ActiveSessions`, `MCSessions` | the session registry and the mutations of checkpoints | `ActiveSessionsProofs` |
| `ChatStream` | the streams of one thread | `ChatStreamProofs` |
| `ProjectFiles` | what a project workspace promises: one environment, the files the last save or write left | in `ProjectRuntimeProofs` |
| `ProjectRuntime` | one workspace: runs, tools, checkpoints, retirement, switches, recovery | `ProjectRuntimeProofs` |
| `LocalSync` | workspaces that apply their files to one local directory | `LocalSyncProofs` |
| `GitHubTasks` | deliveries, from the webhook to the pushed branch | `GitHubTasksProofs` |
| `CodingCalls` | one batch of tool calls, its approvals and its replays | `CodingCallsProofs` |

Conventions: an action is the code between two awaits, named for what the code
does there; `pc`, `at` or `phase` names the await at which a coroutine is suspended. In
`BackgroundTasks` and `ChatStream` a
cancellation sets `hit` and is consumed by an `Interrupt...` action at that await:
an action that resumes normally requires `~hit`. `Max...` constants that only keep
behaviours finite are marked "bound" where they are declared. A failing call, an
outage, a crash is a trouble, and `MaxTroubles` bounds them together. Definitions
marked "mutant" are not used by the specifications: they are the plausible bugs with
which each property is tested (`PROJECT.json`, `mutants`).

### BackgroundTasks and TaskLifecycle

`submit` is `SubmitPersist` (row written), `SubmitLaunch` (registered, first
attempt created) or `SubmitFails` between them. An attempt (`_execute_attempt`)
goes created, starting (start row), admitting (workspace lease), running,
publishing (completion hook), then its finally block: `retrySave` if it is to be
retried, else `finalSave`, `finalThread`, `notifying`, `cleaning`; then it leaves
the session and gives the lease back. An attempt is named by the `retry_count` it
starts with; `asyncTask` is `task._async_task`. Requests: `Cancel` (`cancel`),
`StopSession` (the dashboard's stop, through the session registry), `Remove`
followed by its steps, `DeleteThread`, `ForkReserve`. `Crash` forgets memory;
`RestoreList`, `RestoreRow` and `RestoreDone` are `restore_from_persistence`. Channels and the scheduler start before the
restore (bootstrap/runtime.py:145-153), but only the dashboard and the GitHub webhook
submit tasks, so every submission comes after it. Times are only compared, so `completedAt` is an order. Agent runs, hooks and
notifications are their outcomes: return, raise, time out, be cancelled. The row of
a task is its status and whether `deleted_at` is set.

`TaskLifecycle` knows per task what is shown and what is stored, and the moves
between the statuses. `BackgroundTasks` implements it with `shown` the status of
registered tasks and `stored` that of the rows (`Lifecycle`, `KeepsLifecycle`).

### ModelPool

A call is choosing, trying, or sleeping before a retry, at member `at`. `held` is
the lease: the epoch and generation of the state object it saw, and whether it
probes. A reset replaces the state objects; the code's `self._states.get(key) is
state` becomes `held.epoch = epoch` (`Holds`). It is asked for (`Reset`) or made by the
`get()` of a call that meets changed settings (`Execute`). Provider errors are two codes, with
or without a retry-after hint, retryable or not, or errors that propagate.
Streaming is one action that marks the output as started.

### ActiveSessions

Each registry method is one action under the registry's lock. `Acquire` and
`Release` are the two ends of `track_active_session`; a task nests it for its own
thread and several tasks overlap. Mutations: with `require_idle` (`ReserveIdle`:
compaction, fork, runtime switch; `Compact` is the write of a compaction), and
waiting ones (`Request`, `Poll`): `Inject` and the deletion of a tree, which holds
the parent while it takes child after child. `wait_for_thread_mutation` polls for ever: what
ends a note or a deletion before its time is an error or a cancellation (`Fail`), never
the wait itself. `Finish` is the exit of a compaction, a fork or a switch. A checkpoint is the set of messages
it preserves; every writer writes a successor of what it read (`base`), which is
how a lost update would show. Between two polls of 0.05 s a waiter is just waiting.

### ChatStream

`lock` is the manager's lock, which `Supersede` keeps through a sleep; the
`session.lock` sections await nothing. A run produces events, error events, or
raises; `Report` is `_push_error_event`, which looks its checkpoint up (`Locate`)
and saves the error (`Record`) unless superseded. The `finally` block sets `done`,
sleeps (grace) and removes the session. A task cancelled before its first step is
`dead` (`NeverStart`): asyncio runs no line of it. A write that is cancelled may
have committed or not (`Committed`).

### ProjectRuntime and ProjectFiles

The coroutines are `switch` (the task of `request()`), `recovery` (`replace()`,
called by a run that finds its environment lost or by a user who confirms its
replacement) and `mend` (`recover()`, `abandon()`). All three drive a transition
through the same phases, so `Step(k)` is the code of `_run` for coroutine `k`, `state[k]`
the dictionary it works on, `journal` the row's `transition_json`, and `at[k]` the
await: `Journal`, `Start` (takes `service.lock`), `Pin`, `Provisioning`, `Allocate`,
`Remember`, `Restoring`, `Restore`, `Verifying`, `Verify`, `Activating`, `Publish`,
`Activated`, then the handler (`Handler`) on an error, `Unpin`, `Cleanup`, `Record`.
`RaiseTo` sends a failing provider call or write there. `Recover` is one call of
`recover()`, which the program makes each half minute. Tools are `Ensure`, `Write` and
`Persist`; `RetireCheck` to `RetireStatus` are `retire_matching()`. A provider's answer may be
lost after it allocated (`coming`, and `Arrive` later). The files of an environment are the
number of the last write they show. A `Fault` in a write is an outage: the write
may or may not have been committed, and the next one fails too.

A transition that is published still has to clean up, outside the lock, while the next one
may begin; the cleanup then writes its own state over the newer record. `overwritten` is a
history variable that collects the transitions whose record was lost so, and no action reads it.
`SandboxesAccounted` promises nothing for them: a recovery whose record is overwritten and
whose process then crashes leaves a sandbox that runs and is on no list, while
docs/project-workspaces.md (line 224) calls the record durable.

Abstractions: the reads and the reservation of `Request` are one action; restoring
files and writing the phase are two. The local directory is never lost and the
revision a switch to it merges is the one it saves (`LocalSync` has the details). A
caller that is cancelled is a `Fault`. `Abandon` assumes what its documentation asks:
the operator has reconciled the allocation. A call of `recover()` that finds nothing to do
is a stutter.

`ProjectFiles` knows the last write, the last saved contents, the contents of the
active environment and whether it exists; it can write, save, lose the environment
and restore the saved files into a new one, and nothing else. `ProjectRuntime` implements it
(`Files`, `IsProjectFiles`) however many environments, journals and coroutines are involved.

### LocalSync

`Begin`, `Recover`, `Sweep`, `Compare`, `Check` are the common start of preview, apply,
mirror and forced resolution (`job.kind`); a checkpoint of a workspace that runs in the
directory ends after the sweep. `Compare` is the three-way plan, strict or not.
`TakePath` goes through deletions and additions (`Recheck`, `Unlink`, `Place`) and changes of
type, which `_replace_entry` journals: `WriteJournal`, `Prepare`, `Move`, `Clear`, `Publish`,
`Settle`, `Settled`. `temp` is the replacement directory `.k41-sync-<id>` with `original` and
`prepared`. `Edit` is somebody's editor, at any moment. `Fails` is an exception of the step at
hand (a replacement settles in its `finally` block), `Crash` leaves everything as it is.

Abstractions: no path contains another; a signature is the entry it was taken from
(type and contents); temporary files of plain additions are left out; one writer is in
the directory at a time, which the directory lock ensures; the policy is that of the row.
A revision is its manifest, and `stored` the revisions a workspace has in the store. A checkpoint
(`Checkpoint`, of new files or the same again) stores the files, writes the row, and collects
what the row does not name: head, previous, baseline and the one `host_backup_revision`. It
may not get to the collection. It holds the lock of its workspace, so it comes between the steps of
another's application only. Revisions pinned by a switch are spared as well and left out here
(`ProjectRuntime` has them). So an edit does not stay for ever: `owed` is the last edit of a
path while somebody may count on it, and `Released` says when nobody can: the next
resolution overwrites the one backup slot, and a baseline moves on with both sides.

An edit in the two system calls between the last check of a path and its change may
be overwritten; docs/project-workspaces.md says so, and `exposed` collects exactly those.

### GitHubTasks

A delivery is its handler (`Deliver`, `Claim` or `Accept`, `Prepare`, `Submit`, on failure `Undo` and
`ReleaseClaim`), then the background task it becomes: `Start`, `Write` and `Persist` of its tools,
`AgentReturns` or `AttemptFails`, the completion hook (`Publish`, `Push`), the cleanup hook
(`CleanUp`, `Discard`). `Save` is any checkpoint of others. `Cancel` interrupts it wherever it waits,
`Restart` ends everything, after which `prune_orphaned_worktrees` removes what
`preserved_local_paths` does not name; no delivery comes before that
(bootstrap/runtime.py:150-160). A second delivery with the same id is a stutter.

Abstractions: the branch of the pull request is a set of commits, one per delivery and the
author's; branches of issue tasks and backup branches carry the name of the delivery or the task, so no
one else writes them. `LeaseHolds` is about the push itself: it exempts the tracking
branch that another task has moved (see below). Time only matters to claims: `Tick` ages the claim and the
attempts of issue tasks. A worktree that was never registered gets no promise: the code makes
none. Remote backends, settings, bindings and installations, the pull requests and
comments that are created are left out; the task manager itself is `BackgroundTasks`.

### CodingCalls

`phase` is that of the tool node. `Prepare` is `prepare_batch` call by call (`Passed`, `StopBatch`,
`AskFor`, `Execute`); then each call's coroutine goes through `_invoke` (`Enters` the lock, `Replayed`,
`Begin`, `Refused`, `Act`, `Complete`, `CompleteFails`). `Interrupt` ends the node with a request;
`Resume` starts it again from the beginning with one more answer. LangGraph is external
and modelled by how the code uses it: answers are handed out by position, and an
interrupt in one call does not cancel its siblings, which `asyncio.gather` leaves running
(`late`, at most one per call is followed). `PermissionResume` passes over answers with another
`request_id` and refuses an answer of another form; `ask_user` compares nothing. `Stop`, `Crash` and
`Restart` (the resume flag of the API, runner.py:1337) replay the node as well. `Stop` withdraws the
grants and cancels the run in one step, as `cancel_session` does without giving up the
event loop (active_sessions.py:240); so `_invoke`, which authorizes again, never asks in
the run of the node (`GrantsInv`, proved), and only a coroutine left behind is `Refused`.

Abstractions: what each call needs is chosen once; approval and the first journal
write are one action (both are local files, under the lock of the call); a journal that was opened and not
completed is `started`. A policy that denies a call and an approval nobody can give only stop the
batch before any effect (`permissions.py`), and are left out. Jobs, the remote worker, and what the file operations do are left out.

## 3. Runs

| Run | Question | Bounds and why they are enough |
|---|---|---|
| `tasks_adverse` | Reachability of attempts, one cleanup, deletions, refinement of the lifecycle | 1 task, 2 retries, 2 cancellations, 1 crash, 1 failed write, every request: two retries distinguish "the next" from "the last" attempt, and two cancellations hit both a body and its finally block; tasks only meet in the history, which the next run has |
| `tasks_history` | Trimming, liveness | 2 tasks, history of 1: the second completion trims; with a retry, a crash and a failed write; no cancellation, see the finding below |
| `tasks_stuck` | finding | the smallest instance that shows it |
| `pool` | All properties of the pool | 2 calls (one holds an old lease while the other acts), 2 members (failover), clock 0..2 with cooldowns 1 and 2 (shorter and longer), 1 retry, 1 change of the configuration or reset asked for |
| `sessions` | Exact counts, exclusion, no lost message | 2 tasks nesting twice on a thread and its child, one mutation of each kind, 1 stop; tasks are symmetric |
| `sessions_served` | No waiter starves | 2 deletions of one tree, a note, a compaction and a run: the circle that could form; no one has to fail |
| `chat` | Readers, log, errors, end of streams | 2 sessions, 2 messages, a reader, a stop, 1 event: a run is superseded, stopped, or both, at every await |
| `project` | Refinement of `ProjectFiles`, revisions, exclusion, sandboxes on record, nothing ended unsaved | 1 run, 2 transitions (one left behind while the next begins), 1 write, 2 troubles (a lost answer and a crash, or an outage and a lost environment) |
| `project_settles` | An interrupted transition ends, what it left behind is stopped | 1 transition and 3 troubles: a failing phase, its failing handler and a restart |
| `local` | No edit and no entry lost, the baseline is true | 1 workspace, 2 paths (a forced plan of both, in which the second fails), 2 local edits (so two resolutions, the second of which takes the backup slot of the first), 1 revision (a change of contents or of type), 2 troubles (a crash and a failing recovery), checkpoints at any time; both policies |
| `github` | Work outlives its worktree, claims outlive agents, leases protect | 2 deliveries of any kind (they meet in claim and clone), timeout 1, 1 retry (the time to live is two attempts), 1 write, 2 troubles |
| `calls` | One effect, after every approval; the node ends | 2 calls and a question, one resource or none each, 6 answers, 1 in the wrong place, 2 troubles: the shortest histories in which a call is left behind, replayed and stopped |

Deadlock is not checked: bounded requests and runs come to an end. The inductive
invariants are not invariants of the runs, their conjuncts being cheap to prove and
long to evaluate; each was checked with TLC on the same instances before it was proved.

### Fairness

* `BackgroundTasks`: weak fairness of the steps of submission, attempts and
  restore: the event loop resumes what is ready, and database calls return or
  raise. Users and faults have none.
* `ModelPool`: weak fairness of a call's choices and of its attempt: a provider
  answers or times out, a retry delay ends. The clock, edits and callers have none.
* `ActiveSessions`: weak fairness of `Serve`, the steps of a note or a deletion towards
  its end, and of `Finish`, the end of a compaction, a fork or a switch, which provider
  and database timeouts bring about. No fairness of `Fail`: nothing in the code makes a blocked
  deletion give up, so a circle of waiters would last. None of the runs either: the waiters
  do not ask for an idle thread. `Poll` needs only weak fairness because in these
  bounds each holder comes once; the code makes no promise against an unlimited stream
  of competitors.
* `ChatStream`: weak fairness of a run's end (its events are bounded), of the tasks'
  sleeps and removal, and of a reader that polls every 0.5 s.
* `ProjectRuntime`: weak fairness of the steps of a transition, of a tool that saves
  and of a retirement under way: provider calls have timeouts. Strong fairness of
  `Start("switch")`, since an `asyncio.Lock` serves its waiters in order, and of `Recover`,
  since the half-minute loop calls it again and again and the workspace is not
  reserved each time. Requests, tools and faults have none.
* `CodingCalls`: weak fairness of the node and of each call's coroutine, and of
  `Answer` and `Restart`: the question is whether a user who answers and resumes gets to
  the end. Stops, crashes and answers to something else have none.
* `LocalSync`, `GitHubTasks`: none; their properties are about safety.

### What the violation says

`tasks_stuck`: a cancellation before the first step of an attempt, or in its start or
retry write, or a thread reserved by a fork or a deletion when the session is
acquired (`background_tasks.py:435`), ends the coroutine outside its `try`: the
task stays pending or running for ever and cannot be removed.

### Known divergences without a run of their own

The models contain these behaviours, and the properties are stated so that they are
true of the code as it is:

* `remove()` of a task whose outcome is still being written: the write clears
  `deleted_at` and the row is back after a restart (`background_tasks.py:721`). A
  cancellation during that write skips notification and cleanup (`:532`).
* The `finally` block of an attempt clears the probe mark of another call's probe
  (`model_pools.py:283`): an expired cooldown may grant a second one.
* Of overlapping runs of a thread only the last is cancelled (`active_sessions.py:256`).
* A stop in the grace period leaves a chat session registered until the next message
  (`chat_stream_manager.py:101`); a run cancelled before its first step never sets
  `done` (`:155`).
* Deletion by thread id does not look at the status of the task (`conversations.py:561`).
* The cleanup of an older transition writes its state over a newer one's journal
  (`runtime_switch.py:404`), whose left-behind environments are then forgotten, while
  docs/project-workspaces.md promises that cleanup is retried. `overwritten` collects exactly
  these.
* There is one backup slot: a second resolution of conflicts gives up what the first one
  replaced (`host_mirror.py:297`), and the next checkpoint collects it. `EditsSurvive` promises
  it until then.
* Two workspaces that share a local directory: the sweep of one deletes the original
  which the journal of the other, interrupted, refers to (`local_sync.py:244`).
* A lease without a value compares with a tracking branch that any other task of the
  clone moves: a push may drop a commit the task has never seen (`github/workspace.py:291`).
* The time to live of a claim allows for attempts, not for what surrounds them
  (`github/service.py:57`); `ClaimOutlivesAgents` is about the former.
* `ask_user` may be handed the answer to an approval on a replay, and fails
  (`ask_user.py:186`); the comment at `coding/service.py:233` says why approvals compare.
* On a replay of a batch in which one call was interrupted and another completed, both are
  reported as stopped before execution (`coding/service.py:189`), while docs/coding-v2.md
  says that completed results are reused.

## 4. Proofs

All theorems are proved for every value of the constants that satisfies the
named assumption of the module (counts are naturals, sets of actors disjoint).

* `BackgroundTasksProofs`. The inductive invariant `IInv` adds to the type: which
  statuses fit which place of an attempt (`StatusFitsAttempt`), what the row then
  says (`RowFitsStatus`), that a task being submitted has no attempt
  (`SubmitIsFresh`), that nothing lives after a crash (`QuietWhenDown`), and how far
  cleanup has come (`CleanupFitsStatus`). It is needed because the safety
  properties follow only from where coroutines are: that one attempt is live and
  `_async_task` names it depends on the retry being launched in the last step of
  its predecessor's finally block. From it: `AttemptIsReachable`,
  `UnfinishedStaysRegistered`, `CleanupOnce`, and the action property
  `DeletedStaysDeleted`. Two more invariants stand on it.
  `Stamped`: outcomes have different times, hence distinct ranks among the newer ones, so
  that a trim keeps at most `MaxCompleted` (the lemma `TrimmedIsBounded`, an injection
  into an interval). `Counted`: what is kept beyond that is paid for by cancellations
  spent, one for each that is not delivered yet or has cut a finally block short of its
  trim. It gives `HistoryIsBounded`. `Undisturbed`: where `MaxCancels = 0` and the only
  requests are removals, an active task has an attempt in front of its outcome, and a
  thread is reserved only for a task that has one; it gives `ActiveTaskHasAttempt`, whose
  hypothesis is necessary (the run `tasks_stuck`). The refinement of `TaskLifecycle`: the
  initial states and every step map to the abstract module; the row and status parts of
  `IInv` give the guards of the abstract moves.
* `ModelPoolProofs`. `IInv` adds: the generation a call holds is not newer than the
  member's (`HeldIsOlder`), a call whose output was seen does not start another
  attempt (`OutputEndsTheCall`), a sleeping call has a retry left. From it
  `ProbeHasCall`, `OutputFromOneAttempt`, `OnlyProbesRecover`, `CooldownNeverShrinks`,
  `OrphansAreHarmless`.
* `ActiveSessionsProofs`. `IInv` adds: reservations are held by exactly one mutation
  (`ReservationsAreHeld`), nesting and running agree (`RunsNest`), and every
  writer's base contains what must be kept (`WritersKnow`), without which `KeptIsSaved`
  is not inductive. The exact counts are facts about cardinalities of finite sets
  (`FiniteSetTheorems`).

* `ChatStreamProofs`. `IInv` adds what the safety properties share (`SessionsInv`): the
  current session is the newest, and a superseded run that can still do anything has its
  cancellation to come, so only the current run can look up a checkpoint or save an error; and while a
  message waits for the old run to stop, it holds the lock (`LockInv`).
* `LocalSyncProofs`. For any number of workspaces that share a directory, `IInv` says that the journal is open
  from `Prepare` to `Settled`, and none is left when the sweep or the next replacement comes
  (`Journaled`); that nothing is left in the replacement directory then (`Prepared`); that what a job
  compared is the baseline of the row, and what a baseline names was in the directory (`Compared`); that what a row
  names, or a running job will write into it, is in the store (`RowsAreStored`, which is where a collection matters: it
  spares what the row names, and the row of a running job is locked); and that what is about to be
  replaced is in a baseline or a backup, or was put there after the last check (`Named`, `Kept`, `Replaceable`). From it
  `EditsSurvive` and `BaselineWasThere`: Replaceable says which row keeps an edit, RowsAreStored that the store has it. `NothingVanishes` needs one workspace (`Alone`; with
  two it is false, see above) and one conjunct more: a path that has not the entry last put there is empty,
  and a journal that names it leads to that entry (`Away`). `ReplacementsAreJournaled` is that invariant,
  `NothingIsLost` its consequence for users: since it holds in every state, it holds after a crash at any step.
* `ProjectRuntimeProofs`. `IInv` has three groups. *Known*: types, which coroutine owns the workspace and
  which transition each coroutine works on (`OwnersWork`, `OneTransition`), that transitions are numbered, and
  where each stage of one leads (`Numbered`, `Destined`). *Service*: what the environment in
  service, a pinned revision, the context of a run and a retirement under way know of each
  other (`InService`, `Pinned`, `InContext`, `Retiring`): a stage works on the generation
  it read as long as it holds the lock, and what it restored are the files of its revision. *Book*: any
  coroutine that may still write the record has in its own copy what the record must
  name (`Accounts`), and a sandbox whose allocation is unknown is that of the record
  (`Arrivals`); without these `SandboxesAccounted` is not inductive, since a step replaces the whole
  record. From it `SwitchExcludesRuns`, `RevisionsKept`, `SandboxesAccounted`, the action property
  `EndsOnlyWhatIsSaved`, and the refinement of `ProjectFiles` (`IsProjectFiles`), in which
  every step is a write, a save, a loss, a restoration or a stutter: a switch is one of these at
  `Publish` only, when the row names the environment whose files are those of the pinned revision.
* `GitHubTasksProofs`. `IInv` adds: what the status of a row says about the worktree
  (`FilesInv`), which is what preservation decides on, and how the age of a claim bounds the
  attempts that have run under it (`ClaimInv`), where the lemma `AttemptsFit` is the
  arithmetic of retries. From it `WorkKept` and `OneAgentPerIssue`; `LeaseHolds` is an action property.
* `CodingCallsProofs`. `IInv` adds: what each stage of a call says about journal, effects and
  report (`JournalInv`), and that grants, the progress of `prepare_batch` and the calls under way
  all rest on answers that were given (`ApprovalInv`): before everything is approved nothing has begun;
  and that what `prepare_batch` has passed stays granted while its run goes on (`GrantsInv`).
  From it `EffectsHappenOnce` and `ApprovalComesFirst`, for any number of replays.

Only model-checked: the liveness properties, since fairness and ENABLED are beyond the
prover. Every safety property that a passing run checks is a theorem (two of them with the
hypothesis named above, which the constants of the run satisfy). The assumption on
`Sub` is about the tree of thread ids. No module contains a recursive operator.

## 5. Not modelled

* What models, tools, platforms and providers answer: outcomes are chosen.
* Threads: the registry's lock makes its methods atomic, everything else is on the
  event loop.
* The adapters of the sandbox providers (`daytona_backend.py`, `modal_backend.py`, ...),
  the formats of snapshots and their transfer: I/O behind the calls `ProjectRuntime` makes.
* Prompt texts, formatting, listings and statistics, the command line, the TypeScript
  dashboard: sequential, or pure presentation.
* Migration, session creation and forks of projects, periodic sweeps of the object store.
* The components marked `not_modelled` in `PROJECT.json`, with the reason; those
  of the plan below first.

## 6. Plan

1. `BrowserHandoff`: the modes of a session, expiry, journaled invocations, deletion under locks.
2. `Channel`: `ManagedChannel` start, stop and failure: the status matches the task.
3. The process jobs of the coding tools: what is observed and stopped after a restart.

Runs are kept few: a new module gets one safety run and, where something must
happen, one with fairness, and takes the place of the weakest run there is.
