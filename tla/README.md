# A TLA+ model of yydra

yydra is a Rust command line tool that creates and drives *product workspaces*:
a Rust server over PostgreSQL, an Expo client, and the shared capabilities
(authentication, client settings) both use. This directory holds TLA+ modules
that model its stateful parts, TLC configurations that check them on small
instances, and proofs checked by TLAPS. Paths below are relative to the
repository's root; `W` is `crates/yydra-cli/template/product-workspace`.

Run a configuration with `tlc -workers 2 -config MCx_y.cfg MCx` (`MCx.cfg MCx`
where a module has one), the proofs with `tlapm xProofs.tla`.

## 1. Inventory

| Part | Source | State | What is hard | Module |
|---|---|---|---|---|
| Post-commit executor | `W/crates/application/src/post_commit.rs` | accepting flag, bounded channel, JoinSet, active names, metrics, stored report | threads against the drain, abort against completion, two shutdown callers | LossyWork, PostCommitExecutor |
| Reading-queue commands | `W/crates/application/src/lib.rs`, `W/crates/persistence-postgres/src/lib.rs` | entries, a derived progress row per account | row locks at READ COMMITTED, derived state, unknown commit outcomes | ReadingShelf, ReadingQueue |
| Reading-queue listing | same, and the cursor codec | none of its own | writes between pages, commit order against `created_at` | ReadingQueuePaging |
| Reading-queue view (client) | `W/frontend/src/product-presentation/reading-queue` | pages, cursor, the mark of an unread save, generation | stale answers, overlapping refreshes, pages of two walks | ReadingQueueView |
| Auth service | `capabilities/auth/rust/src` | attempts, native handoffs, accounts, sessions | single use under concurrent requests, a save in flight against logout, expiry | AuthService |
| Auth controller (client) | `capabilities/auth/expo/src/controller.ts` | auth state, revision, stored credential | promises that resolve after the state has moved on | AuthController (native platform) |
| Migration history | `crates/yydra-cli/src/main.rs`, `W/crates/persistence-postgres/src/lib.rs`, `W/crates/server/src` | files, embedded histories, `_sqlx_migrations` | two adders, a migrator that dies, binaries of different files on one database | Migrations |
| Server process | `W/crates/server/src/main.rs` | pool, cleanup interval | what it may start to serve | Migrations (start, verification and stop) |
| Workspace identity | `crates/yydra-cli/src/main.rs`, `library_packages.rs`, `source_workspace.rs` | none | the many ways to redirect a dependency that still reads like the release | WorkspaceIdentity |
| Workspace creation | `crates/yydra-cli/src/main.rs` | staging directory | two creators, reused process ids, a kill between two files | WorkspaceCreation |
| Dev supervisor, process capture | `crates/yydra-cli/src/main.rs`, `process.rs` | children, their groups, armed handles | exits, signals, descendants that ignore them, a reporter that panics | ChildSupervisor |
| Setup locks | `crates/yydra-cli/src/main.rs` | two lock files and their snapshot | restoration on every way out | ChildSupervisor |
| Doctor | `crates/yydra-cli/src/doctor.rs` | count of required failures | timeouts and Ctrl-C against a probe | ChildSupervisor |
| Android build | `crates/yydra-cli/src/android_build.rs` | generated host, seeded cache and its marker | leftovers of killed builds, inputs and seed that change under it | AndroidBuild |
| Server and H5 builds | `crates/yydra-cli/src/product_build.rs` | none | one captured tool between two file checks | not modelled |
| Request executor (client) | `W/frontend/src/framework/api/request.ts`, `client.ts` | one request: timer, caller signal | late credentials against deadline and abort | not modelled |
| HTTP transport | `W/crates/transport-http/src`, `crates/yydra-http/src` | none | mapping of errors | not modelled |
| API preparation | `W/frontend/scripts`, `crates/yydra-build` | generated package | two preparers | not modelled |
| Client settings | `capabilities/client-settings/typescript/src` | a synchronous store | nothing concurrent | not modelled |
| Vendored Bolts tasks | `W/frontend/modules/yydra-bolts-tasks` | third-party Java | not this code | not modelled |

What makes each correct:

- *Executor*: every accepted task accounted for, at most one terminal event;
  counters match events; a shutdown that returns after everything stopped, with
  one report; work that settles; a seam no wider than its documentation.
- *Commands*: progress equals the number of completed entries; an account
  touches only its entries; an error answer means no effect unless the outcome
  is called unknown; nobody is stuck behind a lock.
- *Listing and its view*: a list is in order and misses nothing that was there
  all along; the notice of a save goes only when a first page read after it is
  there; a refresh blocks pagination for exactly as long as it awaits its read.
- *Auth service*: an attempt and a handoff are redeemed once; a session goes to
  the client that began the sign-in; a late save restores no access after a
  logout; a signed-in record is not shortened by an ordinary request.
- *Auth controller*: an answer reaches the screens only of the session they
  show; the credential of a live session is not removed by something meant for
  an earlier one; signed out is shown only after the server has revoked; the
  screen without a button is always left.
- *Migrations and identity*: a server serves exactly the history it was built
  from, two servers agree, and a command that verifies builds only from the
  libraries its Distribution names (but for two ways round in Cargo's
  configuration that it does not look for).
- *Creation*: a destination is the user's or one whole workspace; a stage is
  one creator's and is removed; what passes verification is complete, unless it
  is a stage whose removal was cut off.
- *Supervisor*: a command that returns has left no process it could have
  killed; the backend starts over a finished migration; the locks are as
  committed; a failure is reported once, and doctor reports each required probe
  that failed and the outcome; the command ends.
- *Android build*: the reported APK is this build's, made of one state of the
  inputs unless edits were taken back; leftovers do not block; a marker stands for a whole cache; the copy
  keeps to its limits.

How the parts call each other: the product server mounts the auth routes and
its session middleware around the product's routes (`Identity` of AuthService is
what a product request meets); the handlers call the use cases of ReadingQueue
and the listing of ReadingQueuePaging; a cleanup task deletes expired rows
beside them; the server listens only after the verification of Migrations. The
executor is a seam the workspace offers its products; the generated server
starts none yet. In the app the auth controller gives `sessionFetch` to the
request executor, and the reading-queue view reads through both. The command
line creates a workspace (WorkspaceCreation), verifies it (WorkspaceIdentity)
before nearly every other command, and runs tools as children
(ChildSupervisor).

Three compositions are checked as such: ReadingQueueView EXTENDS, through
ReadingQueueScreen, ReadingQueuePaging (a client's walk over the server's
pages), Migrations
EXTENDS WorkspaceIdentity (builds of a workspace that may have drifted), and the
two abstract specifications LossyWork and ReadingShelf are instantiated with a
refinement mapping in the modules that implement them.

## 2. The modules

Each model keeps the control of its code (every await, statement, system call or
channel operation that another actor can come between is a step of its own) and
names data by model values.

### LossyWork, PostCommitExecutor (post_commit.rs)

`LossyWork` is the promise: a task is rejected or accepted, runs at most once,
settles at most once; closing settles all that wait; what is accepted after
closing is lost without a trace.

`PostCommitExecutor` is the code. `sub[t]` is the position of one submitter in
`try_submit`: the accepting flag is read (`CheckAccepting`), a permit taken
(`TakePermit`), the task appended (`Push`), the counter moved
(`CountAdmission`, `CountRejection`). The manager's biased `select!` is polled
arm by arm (`mgr` in control, join, recv, parked), because the state can move
between two polls; `Wake` is the waker. `BeginShutdown` is `begin_shutdown`
with its drain, `ForceShutdown`, `JoinAborted` and `ReturnForced` the end of
the grace. `Callers` run `shutdown()` up to each await, and those in
`Abandoning` may drop the future there; `DropSender` and `DropWatch` are the
two fields that drop with the last handle, in that order. Time is two facts:
the tasks whose deadline has passed and whether the grace has. A task's
deadline can pass as soon as it is anchored, while still in `try_submit`.

External: tokio. `try_send` takes a semaphore permit and appends afterwards;
`close` closes the semaphore; `try_recv` does not wait for permits still held;
a `biased` select polls its arms in order; a mutex whose holder is dropped is
released; an aborted task ends at its next await.

### ReadingShelf, ReadingQueue (application/src/lib.rs, persistence-postgres/src/lib.rs)

`ReadingShelf` has one atomic effect per command. `ReadingQueue` has one step
per SQL statement of `CreateReadingEntry`, `ChangeReadingEntryState...` and
`GetReadingProgress`: `tx[c]` is the position in the transaction, `entryLock`
and `progressLock` the row locks, `shelf`, `owner`, `rows` and `completed` the
committed tables. `Blocker(c)` is the transaction that the next statement of c
has to wait for; a statement is a step only while there is none. What a
transaction has written shows at its commit (`Apply`); until then its locks
keep others out. Every statement, `begin` and `COMMIT` can fail; the answer to
a COMMIT can be lost after it took effect (`AnswerLost`) or before
(`CommitLost`). Commands may name any entry of any account.

External: PostgreSQL at READ COMMITTED. `SELECT ... FOR UPDATE` reads the row
again once it has the lock; `INSERT ... ON CONFLICT DO NOTHING` waits for a
transaction that is inserting the same key.

### ReadingQueuePaging, ReadingQueueScreen, ReadingQueueView (listing; the client's queue)

`ReadingQueuePaging` is `ListReadingEntries` as an operator on the committed
table: filter, sort, the rows after a cursor, one row more than the page, the
next cursor from the last row kept, and the refusal of a cursor made for another
account, filter, sort or page size. `Sorted` is the ORDER BY, `Remaining` the
rows behind the cursor before the LIMIT. `ReadingQueueScreen` declares the state
of the screen and of the server it reads, with what the user may rely on;
`ReadingQueueView` is the hook `useReadingQueue` that has to live up to it:
`data` holds the pages of each variant of filter and
sort, `fetch` the fetch of each variant, in flight or paused, `needs` that no
first page has shown a save yet. A create takes its time stamp when its transaction
begins and appears when it commits (`BeginCreate`, `CommitCreate`), so an entry
can appear before a cursor that has been handed out. `Refresh`, `LoadMore`,
`SaveAnswered`, `Switch`, `Leave` and `Return` are what the user or the system
does, `ServerAnswers`, `PageArrives`, `LateRead`, `ReadAgain` and `FetchFails` the
life of a read.

`absent` is which of the network and the focus is away, from the start if need
be. A fetch asked for without a network is paused before its read (`pause`), and
one that is to be repeated while either is away is paused between two attempts;
`Resume` is the moment the queries hear of a return (`returned` until then): what
was paused goes on and the page on the screen is read again. `refetchQueries`
resolves at once when its fetch is paused at the start, so such a refresh has no
waiter, and `refreshing` is lifted although its read is still to come.

External: TanStack Query. An infinite query reads its pages one after the
other, keeps the old ones until all are there, cancels a read that a newer one
replaces without stopping the code in its `queryFn`, retries, and pauses what it
may not start or repeat (`networkMode` "online", a retry in a hidden window).

### AuthService (capabilities/auth/rust/src)

A process per HTTP request: `Arrive` loads the session, `Identity` is the
middleware, then the handler by kind (`InsertAttempt`, `RedeemAttempt`,
`Authenticate` or `Decline`, `InsertHandoff`, `RedeemHandoff`), then
`establish` and `revoke` statement by statement (`Revoke`, `Flush`, `Login`,
`Save`, `Activate`), then `Answer`, which saves a changed session and gives
the client its id. Attempts, handoffs, bindings and session ids are named by
the request that drew them; nobody guesses one, but a callback URL or a handoff
can be opened by any client. `held` is every session id a client was ever
given, so that it may present an old one. The requests in `Earlier` are over
when the model starts: each left a signed-in session or a native sign-in that
is under way. `Fail` ends a request anywhere, which is also a crash of the
server between two statements. Expiry is a step that may come at any time once
the request that set it is over (lifetimes are longer than a request).

External: tower-sessions (load before, save after unless the answer is a server
error), axum-login (login draws a new id unless the session was signed in,
logout flushes), the provider.

### AuthController (capabilities/auth/expo/src/controller.ts)

The native client. A job is a call suspended at an await (a refresh, the one
action `runAction` lets run, a product request); `io` says whether the awaited
answer is there, and the code after the await is a later step. The numbers
`revision` and `refreshSequence` are replaced by `live`: they only grow and are
only compared for equality with the value a call began with, so `live` ends at
the step that raises them. SecureStore performs its calls in their order
(`calls`) and each may fail without effect; the server's answers, failures and
late effects are environment steps, with `AuthService` being what stands behind
them. `Init` is every state a start can find after a process death: any stored
credential, accepted by the server or not, with or without a callback URL.

### WorkspaceIdentity, Migrations (verification; files, migrator and servers)

`WorkspaceIdentity` is `verify_workspace` as a predicate on a record of what it
looks at (origin record, snapshots, support files, source record, dependencies,
overrides, lock files), beside what Cargo and npm build from the same record
(`CargoUses`, `NpmUses`, external): `Verify` is right if whatever it accepts is
built from the Distribution's own libraries. Of Cargo's overrides the record
has what the code looks for, `[replace]` and `[patch]` tables (`overrides`), and
two things it does not, `paths` and a `[source]` table (`replaced`).

`Migrations` follows a migration from `db migration add` (`Plan`, then
`Create` with create_new, then `Write`: the file is empty in between) through
the user's edits, deletions and merges to the migrate binary (`BuildMigrator`
embeds the files; `Lock`, `ApplyNext` and `MigratorEnds` are sqlx on the
database) and to the servers (`BuildServer`, `VerifyMigrations`, `Listen`). A
migrator may fail or die between two files. Its field `checked` says whether a
command that verifies the workspace built it (`db migrate`, dev) or Cargo alone
did (the Dockerfile); `BuildServer` never verifies, for neither
`product:build-server` nor the Dockerfile does. The workspace was created by the
command, or has drifted by up to `Drift` edits before, any natural number.

### WorkspaceCreation (`yydra new`)

Creators inspect the destination, reserve a stage (the first name of
process id and attempt that nobody has), write the four parts that matter to
verification one after the other, each first partial and then whole, and rename
the stage. Every creator may fail at every step or be killed; the removal of a
stage (`Cleanup`) takes its files one by one in any order and may be killed or
fail at each (`torn` is the history of a stage whose removal has begun); two
creators can have one process id (a later run after a kill,
or two containers); the user makes, fills or removes the destination.
`rename(2)` replaces an empty directory and nothing else; that is external.

### ChildSupervisor (dev, db migrate, setup, doctor)

One command with its children. Each child leads a process group; `leader[k]` is
the child, `rest[k]` the kinds of its descendants: those that SIGKILL can reach
("killable"; whether they heed SIGTERM is theirs), those it has reached ("dying"),
those that this user may not signal ("foreign"), and those that left the group
for a session of their own ("stray"): no signal to the group reaches them, and
they hold the output they inherited. `pc` is the
supervisor's step, `todo` the children it is about, `goal` what happens after a
termination. `Signal`, `Probe`, `Kill`, `Wait`, `Join` are `terminate_child`;
`Drop`, `Grace`, `DropWait` the destructors of the handles that are still
`armed`, which run on every way out, a panic of `println!` on a broken standard
output included. setup reads both locks first and writes back what reads
differently; doctor goes through its probes with a timeout each, emits an event
with severity "error" for each required one that fails and another for the
outcome (`failures` is the summary's count, `fails` the events).

External: killpg, waitpid, the end of a pipe (when every holder of it is gone,
`OutputEnded`), and what processes do (`Forks`, `Exits`, `Dies`, `Vanishes`,
`Rewrites`). Only a child and the killable members of its group are taken to
rewrite the locks.

### AndroidBuild (`product:build-android`)

Builds of one workspace. `Start`, `RemoveFixed`, `OpenLog` and `RemoveHost` put
away what an earlier build left; `Walk` reads the authored inputs one by one
before and after expo; `Seed` looks for a cache, its marker and the preflight's
limits, `List`, `OpenNext`, `Read` and `Finish` copy file by file and byte by
byte, `Mark` writes the marker; `Judge` is the verdict over the generated host;
`StartGradle`, `GradleExits` and `Output` end in the APK. expo and Gradle are
`tool[b]`: processes that go on when their build is killed, and write the host
and the cache whoever owns them by then. An input is known by its contents, which is
what the walks compare; an edit brings new contents or former ones again. The
histories `past` (states the inputs were in), `steady` (since this build started
no input got contents back) and `alone` (no build or tool ran beside this one)
say what the properties are about: the workspace's documentation asks to run large builds one
after the other, and nothing in the code excludes two.

External: expo, Gradle, the file system's `create_new`, SIGKILL, and whoever
edits inputs or prepares the seed.

## 3. The runs

| Run | Instance | Question, and what it shows |
|---|---|---|
| `MCPostCommitExecutor_work` | 3 tasks, queue of 1, 2 running, 2 callers of `shutdown()`; 2.8 million states | Each accepted task is in one place; counters count; both callers return after everything stopped, with one report. |
| `MCPostCommitExecutor_live` | 2 tasks, queue of 1, 1 running, a caller that may drop its future; 170 thousand states, fair | `LossyWork` is implemented; a queued task settles although the body before it blocks; `shutdown()` returns; dropping the handles stops the manager. |
| `MCPostCommitExecutor_loss` | 2 tasks, 1 caller | Violation: finding 1. |
| `MCReadingQueue_commands` | 4 commands, 2 entries, 2 accounts, pool of 2; 140 thousand states | Progress is exact at every committed state; an account touches its own entries; commands are atomic; among open transactions one can always go on. |
| `MCReadingQueueView` | 2 old entries and 1 new, two variants, pages of 1, 1 change, 2 refreshes, 1 change of variant, 1 retry, 1 absence of network or focus; 414 thousand states, fair | Order, completeness, the notice of a save, the blocking of pagination, and that a save is settled by a list or an error, also one whose read was paused. |
| `MCAuthService_session` | 3 requests by 2 clients for 2 accounts beside an earlier sign-in or native start; 675 thousand states | Single use, return to the starter, no access through a revoked id, a lease keeps its record. |
| `MCAuthController_session` | 2 credentials, the boot refresh and one more, 1 product request; 872 thousand states | Late answers, a kept credential, honest sign-out, a loading screen that is left. |
| `MCAuthController_overtaken` | the same without the second refresh | Violation: finding 2. |
| `MCMigrations` | 2 adders, 2 servers, versions to 3, 1 edit, 2 drifts; 2.6 million states | Servers serve what they were built from and agree; a command that verifies builds from the Distribution's own libraries. |
| `MCWorkspaceCreation` | 3 creators with one process id, 2 names, 1 action of the user; 3.1 million states | The destination is the user's or whole; stages are private and removed; what verifies is complete, or its removal was cut off. |
| `MCChildSupervisor` | dev, migrate, setup and doctor, 2 looks before SIGKILL, every kind of descendant, a required and an optional probe; 266 thousand states, fair | Nothing killable of a group is left; migration first; locks kept; failures reported once, doctor's by probe and outcome; commands end. |
| `MCAndroidBuild` | 2 builds, 2 inputs, a seed of up to 4 names (2 at first), limits of 4 entries, 2 files and 1 byte, 2 disturbances; 3.5 million states | The artifact is the build's own; leftovers do not block; a marker means a whole cache; the copy keeps to its limits. |

Why these bounds.

- *Executor*: three tasks are one running beside another while a third is
  queued, and a permit holder against a full queue; the queue of one is the
  limit case of the bound. The theorems hold for any number.
- *Commands*: three commands are a create and two conflicting changes; the
  fourth is needed for progress to be adjusted by two commands that one entry
  does not serialize. A pool of two makes two transactions overlap; three would
  only add one that waits. The theorems hold for any number.
- *View*: with pages of one entry, two entries are two pages, so a next page and
  a cursor into the middle occur; the new one, newest, commits behind cursors
  already passed, or else an old one moves to the other variant. Two refreshes are
  one that overtakes the other. One absence is a network that goes away and comes
  back, or a hidden window, at the start or at any moment. Several changes between
  the reads of one list, and late inserts into its middle, are beyond this bound;
  the theorems have them: they hold for any queue, any page sizes and variants,
  and any number of changes, refreshes and absences.
- *Auth service*: one signed-in id and three requests are a load before a
  logout, the logout, and a sign-in or product request after it; with a native
  start that is over (new requests begin sign-ins in the browser only), three
  requests are the callback, the exchange and its repetition. The theorems hold
  for any number.
- *Auth controller*: one credential is stored and one is signed in, or two
  sign-ins from an empty store; a further refresh is superseded as the second is. The theorems
  hold for any number.
- *Migrations*: two adders plan the same version, a third version is one that
  meets the other two; two servers are built before and after an edit. Two drifts
  are a redirected dependency and the edit that would hide it. The theorems hold
  for any number.
- *Creation*: three creators with one process id, for only those meet in a name,
  of which any may be dead; two names are a name taken and a name left, and both
  taken. The theorems hold for any number, with any process ids.
- *Supervisor*: a group is looked at until the bound whatever it is; two looks
  are one that finds it alive and one that finds it gone. The theorems hold for
  any number.
- *Android build*: a build that leaves something and one that meets it (or two at
  once). Two inputs are the least that can be a mixture, two prepared names the
  least for a partial tree; four names are one more file than the limit and as
  many entries as exceed theirs, the directory being one. One byte is the least
  that a partial file lacks; two disturbances are two edits, which a mixture of
  new contents takes, or one change of the seed. (A mixture that goes unnoticed
  takes four, two edits and their undoing: the exception `steady` of
  `ArtifactIsOwn` is needed only beyond this bound, and the theorem has it.) The
  theorems hold for any number.

Permutations of tasks, requests, commands, creators, builds and credentials are
symmetries of runs without liveness only. `CHECK_DEADLOCK` is FALSE for
ReadingQueueView, Migrations, WorkspaceCreation, ChildSupervisor and
AndroidBuild, whose commands end and whose users run out of bounded actions. The
other modules have steps for the states in which nothing is left to do
(`Quiescent`, `Answered`, `AllAnswered`), so a state stuck otherwise is reported.

Every property is also checked against a change of the code's model that a
plausible bug would make: the operators marked "Mutant" beside the definition
they change. No specification uses them.

### Fairness

- `PostCommitExecutor!Fairness`: a submitter goes on, a deadline passes, a body
  whose deadline has passed is ended by `timeout_at`, the manager is polled again
  after it was woken, the grace elapses, a caller of `shutdown()` goes on (strong
  fairness for the mutex, which tokio grants in order), a dropped handle finishes
  dropping. Nothing obliges anyone to submit, to shut down or to drop, and no body
  has to heed its cancellation. These are what the runtime gives: woken tasks are
  polled, timers fire. A body must reach an await, which the executor's
  documentation asks of it.
- `ChildSupervisor!Fairness`: the supervising thread runs (each of its steps is
  weakly fair as one), a probe's timeout comes, a process that SIGKILL reached
  dies. Children need not exit, and descendants may ignore SIGTERM for ever.
  `Finishes` excepts a foreign or a stray descendant that holds a forwarded pipe
  open.
- `ReadingQueueView!FairSpec`: a read that was sent is answered or fails (the
  client's requests have a deadline), so do the mutations that were held back,
  after which the queries hear that nothing is away. Nothing obliges the network
  or the focus to return, nor a paused fetch to go on before. A user who
  changed the filter for ever would restart the read for ever: `MaxSwitches` bounds
  that.

The other modules state no fairness: `NobodyStuck` and `LoadingIsServed` are the
safety halves of "a command is answered" and "the screen is left". `NobodyStuck`
says that one of the open transactions has no `Blocker`, not that one is ENABLED:
the guard of each statement is its position and the absence of a blocker, and
where a statement looks at a row there is a step for each thing it can find.
(`InsertEntry` also takes an id, of which the model has only `Entries`; the bound
`IdsLeft` lets no more creates begin than there are ids.)

## 4. The proofs

`PostCommitExecutorProofs`, from `ConfigAssumption` (finitely many tasks,
positive bounds):

- `TypeCorrect`: the types alone are not inductive, because a join settles a
  task with its body's result and "aborted" is not a terminal event;
  `AbortedLate` says results become so only after the manager has stopped
  joining.
- `AcceptedTasksAccounted` (`Accounted`) and `OneTerminalEvent`
  (`OutcomeStable`): `AccountInv` adds that a manager which has returned or is
  aborting tracks no name. Each step then moves a task from one place to the
  next; the batch steps (drain, forced shutdown) settle exactly what they empty.
- `ShutdownStops` (`ReturnedMeansStopped`) and `ShutdownReportsAgree`
  (`OneReport`): `CloseInv` follows the JoinHandle from the slot to the caller
  that awaits it to the stored report (`Handover`). It holds only as long as no
  caller dropped its future; `AbandonedStays` shows that one that did stays
  dropped, and `CloseInvariant` is proved in the form `NoneAbandoned => ...`.
- `CountersAreExact` (`CountersMatch`): each counter is the cardinality of a set
  of tasks. The manager settles batches, so the step that matters is that a batch
  holds only tasks without a terminal event, which is `AccountInv`.
- `SeamIsImplemented` (`ImplementsLossyWork`): a step of the manager is a start, a
  batch of settlements, the closing or a stutter of `LossyWork`. `ArmsInv` is
  what the mapping needs besides the accounting: the channel is closed exactly
  when the loop's flag is set, and the arm that receives is reached only with
  room for a body.

`ReadingQueueProofs`, from `ReadingAssumption` (finitely many entries, distinct
null values):

- `IInv` is the types, the arguments a command has at each position
  (`ArgInv`), that an open command has neither answered nor taken effect
  (`OpenInv`), and the lock discipline `LockInv`: what a command has read under
  a lock is still true, and the count its UPDATE computed is still one off the
  committed one. `ProgressExact` and `NeverUnavailable` are inductive only
  together with it, because the commit writes back what was read earlier.
- `TypeCorrect`, `ProgressIsExact`, `RowsNeverMissing` are parts of `IInv`.
- `CommandsAreAtomic` is the refinement `Spec => ImplementsShelf`: every step
  is a stutter except a commit and an error answer.
- `OthersEntriesKept` is the action property `OnlyItsAccountChanges`.
- `ConflictsSerialize` needs `EffectInv`: the history of commits, counted by
  entry.
- `NoDeadlock` (`NobodyStuck`) needs `HolderInv`: a progress row is held only
  by a transaction that has inserted it or that is ready to commit, an entry only
  by one past its SELECT or INSERT. So the holder of a progress row waits for
  nobody, and the holder of an entry at most for a progress row: no chain of
  waits is longer than two, and none closes.

`ReadingQueueProofs` also has the theorems of the screen, about
`View == INSTANCE ReadingQueueView` and the properties of ReadingQueueScreen.
They assume `ViewAssumption` (page sizes the server accepts, naturals as bounds,
null values that are no cursor, page or fetch) and nothing of the commands; any
queue, any new entries, any set of variants:

- `ListsInOrder` (`ShownInOrder`) and `ListsComplete` (`NothingSkipped`) are
  about lists that grow for as long as the user likes while entries commit behind
  cursors already passed. `Chain` is what a list of pages is at any time:
  `PagesInOrder` (each page ascends, and lies behind all pages before it),
  `PagesCovered` (its last cursor lies behind nothing that is shown) and
  `PagesComplete` (what every read selected is shown, or lies beyond the last
  cursor). The next page asks for what lies behind that cursor, so its order
  needs the second part, and its completeness the third for every prefix of the
  list. `ChainAppend` is the step: a page
  that answers the last cursor makes a longer chain.
- `AnswerOfServer` is what one read promises, whatever is committed at its
  moment: `Answers`. It rests on `SortedExists`, that every finite set of positions
  has one ascending list (the rank of a position is the size of the set up to
  it), without which the `CHOOSE` of the ORDER BY would say nothing.
- `FetchesAreGood` carries both through the fetch of each variant, in flight or
  paused (`Sound`): the pages it has read, or the pages shown when it loads one
  more, are a chain, and an answer that has arrived answers the cursor at its end.
  `ListsAreChains` is the same of the lists that are stored.
- `NoticesAreEarned` (`NoticeIsEarned`): an answer that waits in a fetch of the
  current revision was read after every acknowledged save, for each save cancels
  the fetch of before.
- `RefreshBlocks` (`BlockedWhileRefreshing`) needs `ShownIsAwaited`, which bounds
  a fetch's waiter by `generation` and says that only the variant on the screen is
  awaited.
- `ViewTypes` is the type invariant; `ViewInv` is all of them together.

`ChildSupervisorProofs`, from `ProbesAssumption` (at least one look),
`ForkKindsAssumption` and `ChecksAssumption` (doctor has a probe):

- `TypeInv` is the types with `ShapeInv`, what every step finds in `todo`,
  `tries`, `goal` and `checks`: without it `Head(todo)` has no type.
- `GroupsGone` (`NoGroupLeft`): `GroupInv` says that a handle is disarmed only
  over a group of which nothing killable is left, that nothing comes back into
  such a group, and that the command returns only with every handle disarmed.
- `MigrationComesFirst` (`MigrationFirst`): `DevInv` follows dev from a
  migration that exited with success to the spawn of the backend, `OnlyDevInv`
  keeps the other commands away from a backend, and `GroupInv` gives that nothing
  of the migration is left.
- `LocksKept` (`SetupKeepsLocks`): `LockInv` needs `GroupInv`, for once setup
  restores a lock no tool may be left to rewrite it.
- `FailuresReported` (`ReportedOnce`): `FailInv` counts the events emitted up to
  each step, in `DoctorFails` those of the probes that failed so far, in
  `OtherFails` those of a command that reports its failure once.

`AuthServiceProofs`, from `AuthAssumption` and `RecordAssumption` (the null value
is no request, client, account or record); any number of requests, clients and
accounts, and any set of requests that are over at the start:

- `TypeCorrect`: with the types, `PosInv` says which positions a route has and
  when its account is known, without which `Login` has no account to store.
- `AtMostOneRedeems` (`SingleUse`): `SecretInv` keeps a secret that was redeemed
  out of both tables. The DELETE takes the row in the step that reads it, and
  nobody inserts a secret twice, for its request is over.
- `ReturnsToStarter` (`SignInReturnsToStarter`): four steps lie between the
  binding and the answer. `HeldInv`: an id is known to one client; `BindInv`: a
  binding of a pending attempt is in sessions and records of the client that
  started it only; `ChainInv`: whoever redeemed has the starter's client, also
  across the handoff; `AccessInv`: an open row was opened by that request.
- `RevokedOpensNothing` (`NoAccessAfterLogout`): from `AccessInv` (`EndedShut`)
  and that only `Activate` opens a row, of a fresh id or one still signed in.
- `RecordStands` (`RecordOutlivesLease`): `RecordInv` follows every request that
  loaded the same session: whatever it saves later still carries the account
  and, if it saves without a change of its own, the lifetime. This is the
  invariant that a late save of a stale session would break.

`WorkspaceCreationProofs`, from `AttemptsAssumption` and `UserActionsAssumption`;
any number of creators, any of which may have one process id:

- `TypeCorrect`, `NothingLeftBehind` (`NoDebris`), `InventoryVouches`
  (`VerifiedMeansComplete`) and the action property `DestinationIsKept`
  (`DestinationKept`).
- `PlaceInv` is what a creator has by each position. `OwnerInv` says that every
  stage has exactly one owner who runs, was killed or could not remove it, and
  is what excludes that one creator renames or removes another's stage, although
  names repeat. `ContentInv` says that a stage holds the first `written` parts
  of its owner and at most a beginning of the next, or, once its removal has
  begun (`torn`), any part of that. The inventory is written last, so what has one
  is complete unless it is torn, and a torn stage is never renamed: `DestInv` is
  that consequence for the destination. The properties follow only together.

`MigrationsProofs`, from the module's assumptions about its bounds; any number
of adders and servers, of versions, edits and drifts:

- `BuiltFromRelease` (`OnlyReleasedIsBuilt`): `BuiltInv` says that the workspace
  of a migrator that is `checked` verifies; the rest is what `Verify` accepts
  beside what Cargo and npm build from it. Nothing is claimed of what Cargo alone
  builds.
- `HistoryIsServed` (`ServesItsHistory`): `verify_migrations` compares how many
  rows and files there are and looks for a file for each row. `SameHistory` is
  the counting argument that this suffices: rows of distinct versions (the
  primary key, `DistinctRows`) map one to one to files, and as many of them
  leave no file without a row. `TodoInv` and `ServesInv` carry it over later
  steps: rows are only added.
- `HistoriesAgree` (`ServersAgree`): `AgreeInv` says that of two servers that
  verified, one has all the rows of the other, the earlier one, because
  each had exactly the rows of its moment.

`AuthControllerProofs`, from `ControllerAssumption` (the null value is no
credential, the three kinds of jobs are distinct); any number of credentials,
refreshes and product requests:

- `TypeCorrect`, `AnswersBelong` (`AnswersBelongToSession`), `SignOutIsHonest`
  (`SignOutRevokes`), `CredentialIsKept` (`KeptUnlessOvertaken`) and
  `FirstScreenIsServed` (`LoadingIsServed`).
- The code has one counter, `revision`, to tell a promise that the state has
  moved on; `PosInv` is what it is worth: a refresh is current alone and beside
  no action. `QueueInv` says that each queued SecureStore call is the one its
  job awaits, `BootInv` that only the first refresh runs while the screen loads.
- `MemInv` and `StoreInv` tie the session shown to memory and to SecureStore: they
  agree, and no save is queued, unless the server has ended the session or a 401
  overtook its save. They are inductive only with what each suspended job knows:
  what a current refresh has loaded is still stored (`Refreshing`), a current
  request bears the credential of the session shown (`Fetching`), and an action
  ends the former session at the server before it stores or removes anything
  (`Acting`).
- One lemma per kind of step says what it means for all other jobs (`Others`,
  `OneMoves`, `Cut` for a change of session, `Starts`), so that the proof of a
  handler is about the job it resumes.

`AndroidBuildProofs`, from `NoneAssumption` (the null value is no build),
`NamesAssumption` (finitely many names of a seed) and `LimitsAssumption`; any
number of builds and inputs, any limits, any number of edits:

- `TypeCorrect`, `ArtifactsAreOwn` (`ArtifactIsOwn`), `NothingBlocks`
  (`LeftoversNeverBlock`), `MarkerIsTrue` (`MarkedMeansWhole`) and
  `CopiesAreLimited` (`CopyWithinLimits`).
- `AloneInv` says what the history `alone` is worth: beside a build that is alone
  nobody works, not even a tool that outlived its build, so that while it lasts
  every step is its own or the user's. `OwnInv` is what such a build may rely on at
  each position: no log or script in its way (`FixedOf`), a host that is absent,
  then generated, then without an APK until its own Gradle makes one (`HostOf`),
  and files of the cache that it copied itself (`CopyAlone`).
- `WalkOf` is the argument that two walks, which read one file after the other,
  detect any mixture while the build is `steady`: contents that do not come back
  are ordered by when they appeared, so with `p` what the inputs were when expo
  started, the first walk saw at most `p`, expo read at least `p`, and what
  the second walk sees unchanged pins both to `p`, a state that existed.
- `CacheInv`: a seeded build passes its seeding only over a marked cache, and a
  cache without a marker has a build to blame. `CopyInv`: the counters of a copy
  are the cardinalities of what is in the cache under its name, everything it is
  done with is whole, and as long as the names of the seed stay it has taken every
  name that is no longer to do. `MarkInv` follows from it at the marker: then
  nothing more is opened.

Only model-checked: the liveness properties (fairness and ENABLED are outside
the prover's reach), which are those of the executor, the supervisor and
`SavedIsSettled` of the view. Every safety property and every action property
that a passing run checks is a theorem, and so is the `TypeOK` of each module
with variables of the code.

## 5. Findings

1. **A graceful shutdown loses an admitted task silently**
   (`NoSilentLoss`, `MCPostCommitExecutor_loss`). `begin_shutdown` closes the
   receiver and drains it; a `try_send` that had its permit appends after the
   drain. `try_submit` has answered Ok, the admitted counter moves, no terminal
   event follows, the report is Graceful. post_commit.rs:5-7 lists how work can
   be lost, and this is not in the list.
2. **A late 401 deletes the new credential** (`LiveSessionIsKept`,
   `MCAuthController_overtaken`). While `complete()` awaits the save of a new
   credential, a product request of the old session is answered 401 and
   `authorizedFetch` queues the removal behind the save (controller.ts:173); the
   check of the revision comes after it. ADR 0010:151-153 asks for late
   responses of the previous session to be rejected. `KeptUnlessOvertaken`
   shows that nothing else loses it.

### Observations

Behaviour met while modelling that the models follow and no run calls wrong.

- *Executor.* When the caller with the JoinHandle drops its `shutdown()` future,
  the next caller gets a fresh Graceful report (post_commit.rs:291) although the
  manager still runs or ended at its deadline; `W/README.md`:186-189 has the seam
  distinguish the two. `ReturnedMeansStopped` and `OneReport` are about callers
  none of whom was dropped.
- *View.* After a failed refresh that followed a save, "Load more" succeeds and
  clears the error, so the notice disappears although page one was not read again
  (use-reading-queue.ts:127). The comparison of `saveRevision` in `queryFn`
  changes nothing beside the cancellation and the check of the abort signal. A
  refresh asked for without a network is not shown as one while its read is still
  to come, and pagination is not blocked by it. A background read of a list that
  the user has left may withdraw the notice (its first page was read after the
  save, but is not the one on the screen).
- *Auth service.* Two overlapping starts in one browser overwrite each other's
  binding, so only the later can be completed. A late answer may set an older
  cookie, which access does not honour.
- *Auth controller.* When the deletion of the verifier fails after the exchange,
  the new session stays at the server and is not used. An expiry timer that
  fires during a logout is spent, so if the logout fails expiry is noticed at the
  next 401.
- *Identity.* Neither a `paths` override in `.cargo/config.toml` nor a `[source]`
  table with `replace-with` is looked for, and Cargo honours both;
  `OnlyReleasedIsBuilt` names the exceptions. Cargo's configuration outside the
  workspace is not modelled. `product:build-server` and the Dockerfile build
  without verification, so the property is about `db migrate` and dev.
- *Creation.* A removal that was cut off in a complete stage (its rename had
  failed) can leave files that verify without the product's own;
  `VerifiedMeansComplete` excepts such a stage.
- *Supervisor.* A stray descendant is not terminated, and in JSON format its hold
  on the output keeps the command from returning; so does a foreign one. Strays,
  foreign and dying descendants are assumed to leave the locks alone.
- *Setup.* A setup that is killed after a tool rewrote a lock leaves it
  rewritten, and the next one takes that for the committed state.
- *Android build.* A build without a seed lets Gradle make `modules-2` without a
  marker, so that a later build with a seed is refused until the cache is
  removed; so does a build killed or failed while seeding. Edits
  beside expo that are taken back before the second walk can leave a mixture that
  the comparison accepts. A user who removes the cache but not its marker, which
  lies beside it, is not modelled. Gradle reads the authored inputs again for the
  bundle, and nothing compares those. Two builds of
  one workspace at once are not excluded; the documentation asks not to run them,
  and `ArtifactIsOwn` and `LeftoversNeverBlock` are about builds nothing ran
  beside.

## 6. What is left out

Of the modelled parts: logging, event broadcast and failure payloads of the
executor, and a runtime torn down under its manager; a task body that never
reaches an await is outside the executor's contract. Titles, URLs and the
encoding and signature of cursors; PKCE with the provider, CSRF tokens,
configuration and problem bodies of the auth service; the web platform (cookie,
no stored credential), `dispose` and the messages of the auth controller. The
rendering of names into the template, the SQL of a migration, the environment
and the versions of tools; Windows. Links and forbidden names in a Gradle seed
are a file operation that fails.

Not modelled:

- *Request executor*: one request that ends by an answer, its deadline or its
  caller's abort; the view and the controller model what it hands them. Next in
  the plan.
- *HTTP transport*: maps one request at a time and keeps no state.
- *Server and H5 builds*: one captured tool (ChildSupervisor) between two checks
  of files.
- *API preparation*: build tooling around one generated package.
- *Client settings*: a synchronous store and one subscription.
- *Vendored Bolts tasks*: third-party Java.

## 7. Plan

Done, in this order: the executor with `LossyWork`, the commands with
`ReadingShelf`, the auth service, the auth controller, listing and view,
migrations and identity, creation, the supervisor with setup and doctor, the
Android build; then the proofs of the executor, the commands, the supervisor,
the auth service, creation, migrations, the auth controller, the Android build,
and last the listing with its screen and the waits between commands.

Next: the request executor; the web platform and `dispose` of the auth
controller; two preparers of the API package.
