# Verification of tsr

tsr is a Rust port of the native TypeScript compiler and language server.  Its
53 crates fall into two parts.  The large one is sequential: scanner, parser,
binder, checker, transformers, printer, and the language-service queries.  The
small one decides *when* the sequential part runs, on which thread, over which
version of the files, and who keeps its results alive.  It is concurrent and
stateful, it fails and unwinds half-way, and its tests drive it along a few
schedules only.  This project models the small part in TLA+, checks it with TLC
on small instances, and proves safety of eight of its components with TLAPS for
every instance.

## How the parts interact

    editor ── lsp.rs reader/writer ── Connection ── dispatcher, workers, observer
                                        │ (CancelableQueue = DynamicQueue)
                                        ▼
    native watcher thread ─────────▶ Session ◀── API client
                                        │  pending, timers, background tasks
                         update_snapshot│
             ┌──────────────────────────┼───────────────────────┐
             ▼                          ▼                       ▼
      OwnerCache (extended      RefCountCache (parsed     CheckerScheduler
      configurations, owned     files, leased by          (checkers of one
      by snapshots)             programs)                 program, lent to requests)
                                        │ publication
                       ┌────────────────┴───────────────┐
                       ▼                                ▼
      WatchManager (globs registered       AtaJobs (installation of
      with the native watcher)             typings, results come back)

    tsc --build ── BuildGraph ── BuildOrchestrator (builders, watch cycles)

The connection admits messages and runs handlers.  Handlers notify the session,
and take snapshots from it.  An update of the session builds the next snapshot:
it loads configurations through the owner cache and files through the
reference-counted cache, discards the schedulers of replaced programs and
publishes.  Requests borrow a checker of the snapshot's program from its
scheduler; the API borrows its own from the pool directly.  After a publication
the session hands the old and the new watch set of the snapshot, and those of its
auto-imports, to the watch manager, and starts type acquisition for projects whose
inputs changed.  The observer passes on what the session publishes; it and the
watch manager's threads call the client, and the end of the connection waits for
them.  Old snapshots are dropped on whatever thread held the last
reference, so releases in both caches race with loads for the next snapshot.

## Inventory

Paths are below `src/crates`.

| Component | State | Operations | Hard behaviour | What makes it correct | Module |
|---|---|---|---|---|---|
| Reference-counted cache (`tsr_project/src/ref_count_cache.rs`; used by `parse_cache.rs`) | index, state and count of an entry, sleepers | acquire (produce, join, wait, fail, panic), release | producers nest, fail and panic; release finds its entry by key | a lease pins its entry; counts are exact; one producer per key; waiters return | RefCountCache |
| Checker scheduler and pool (`tsr_project/src/scheduler.rs`, `lib.rs`) | slots, requests, files, timer epoch; the pool's cells and checkouts | acquire, operate, drop, cancel, clean up, discard; checkouts of the API | two locks, weak leases, wake-up and cleanup functions on contexts, timers that expire on threads of their own | a slot has one holder; pool and slots agree; cancelled checkers are not reissued; idle checkers are timed | CheckerScheduler |
| Extended configuration cache (`tsr_project/src/owner_cache.rs`, `extended_config.rs`) | index, owners, busy thread; the keys of a snapshot | load_and_acquire, try_add_owner, inherit, retain, release | loads nest along `extends`; entries are removed while others sleep on them | listed keys are owned; owners know their keys; nothing is left behind | OwnerCache |
| Cancellable queue (`tsr_lsp/src/dynamic_queue.rs`) | items, closed contexts | put, get | cancellation between the check and the wait | atomic FIFO that gives up only on cancellation | DynamicQueue |
| Connection (`tsr_lsp/src/connection.rs`, `rpc_client.rs`, `tsrust/src/lsp.rs`) | contexts by request ID, three queues, calls to the client | admit, cancel, dispatch, work, complete, call the client, shut down, exit, close | IDs are reused; the dispatcher waits for the client; any thread may end the connection | IDs and requests agree; every request is answered; everything stops | Connection |
| Session (`tsr_project/src/session.rs`, `session/timers.rs`, `background.rs`) | snapshot, pending events, three timers, background queue | enqueue, watch events, inferred options, update, roll back, close | five locks; debounced timers; failed builds put events back | no event is lost or reordered; updates come; close is final | Session |
| Watch registrations (`tsr_project/src/watch/manager.rs`, `watch.rs`; client `tsr_lsp/src/watcher.rs`) | identities of watches, counts of globs, ids to retry | publish, update, register, roll back, unregister, stop | two threads per publication; calls time out before or after they took effect | the client watches what the snapshot needs, without a gap; counts are exact | WatchManager |
| Build graph and orchestrator (`tsr_build/src/graph.rs`, `lib.rs`, `task.rs`, `watch.rs`) | graph, completions of tasks and reports, cached status of each task, watch events | walk references, build, skip, compile, touch, clean, mark downstream, report, watch cycle | builders wait for one another; tasks and reports fail and panic; files change during a build; a status outlives its cycle | builds end; done tasks are final; reports in graph order; a quiet watch is up to date | BuildGraph, BuildOrchestrator |
| Type acquisition jobs (`tsr_project/src/session/ata.rs`) | running jobs, accepted results, inputs of the installed typings | publish, trigger, install, receive, adopt, switch off and on, close | inputs change and change back while jobs run; close races jobs and publications | results belong to the present inputs; nobody is forgotten; close is final and comes to its end | AtaJobs |
| Contexts, inter-process connection (`tsr_ipc/src/context.rs`, `conn_async.rs`) | trees of contexts, deadlines, pending calls | cancel, after_func, call, respond | cancellation races registration; responses race timeouts | every function runs at most once; every call ends | not modelled |

`PROJECT.json` lists the remaining parts with the reason each is left out; they
are the sequential compiler, I/O, generated code, wrappers and test tooling.

## Modules

All models follow one convention: an action is one critical section of one
lock, or the code between two of them, so that every interleaving of the
sections of different threads is explored.  A condition variable is a program
counter value `asleep` that a notification changes.  A panic is a step that
unwinds through the guards the code has on its stack.

**RefCountCache** (with LeaseTable, RefCountRefinement).  A member of `Call` is
one acquisition with its lease; the entry it creates bears its name.  `pc`
follows `acquire_or_error` and `release`; producers may acquire other keys
(`Nests`), fail, panic or reenter.  LeaseTable is the abstract promise: a table
from keys to the value all current leases of the key share.  RefCountRefinement
gives the mapping.

**CheckerScheduler.**  `slots`, `requests`, `files` and `timing` are the fields
of `State`; `cell` and `checkouts` are the pool's.  A call claims a slot, checks
its checker out of the pool, perhaps initialises it, publishes the lease,
registers its cleanup, and on the drop of the last handle disposes of a
cancelled checker, returns the checkout and releases the slot, each in the
section the code has for it.  The API's registries take the checker of the API slot
from the pool without asking the scheduler and keep it
(`tsr_api/src/session/handles.rs:71`); such a checkout is a member of `Direct`, and
`pins` is the cell it has.  Its operations may panic but are never cancelled: they
run without a request.  Time is a small counter; every expiry runs the cleanup on
a thread of its own (`tsr_ipc/src/context.rs:249`), a member of `Cleaner`, so
cleanups overlap.  Left out are the merging of global diagnostics and the pool
operations the scheduler does not call.

**OwnerCache.**  `entry` and `index` are the cache, `keys` the
`ConfigOwnership` of each snapshot.  A call loads (with nested loads for what the
configuration extends), inherits, trims or drops.  The hash of a file's content
is reduced to its verdict.

**CancelableQueue, DynamicQueue.**  CancelableQueue is an atomic FIFO queue
whose callers may be refused once their context has ended.  DynamicQueue has the
lock, the condition variable and the functions registered on the context.

**Connection.**  `Receive` and its successors are the reader and the admission
pump, `Disp` the dispatcher, `Worker` the workers; `outgoing` goes to the writer.
The queues are used as CancelableQueue specifies them.  Handlers are reduced to
their outcomes: answer, error, hand over to a worker, exit.  The threads of the
session call the client as handlers do: `Observer`, which passes on its events
(`runtime.rs:876`), and `Watch`, those that register watches (`RemoteWatch`), whose
calls are given up after a second (`TimeOut`).  When the workers are joined,
`Runtime::close` waits for both (`Leave`), and then `run` returns (`Close`).  The
other waits of `Session::close` are in AtaJobs and Session, and so is its unwinding
when a job of type acquisition has panicked, which leaves `run` as well.  The
progress thread (`progress.rs:117`), which calls the client too, is left out.

**Session.**  A thread is the list of sections it has still to do (`todo`), so
one action per kind of section serves every caller.  A timer that fires becomes
a thread named by its kind and epoch.  A build is reduced to its outcome: ok,
error or panic, and a panic if the batch breaks the assertions of
`process_changes` (`Orderly`).  Left out: the fields of `Pending` that merge as
the inferred options do, type acquisition, watch registration, content mappers,
the API's temporary clones, and `Drop for Session`.

**WatchManager.**  `made` are the `WatchedFiles` with the identity they get when
somebody first asks for it, `entries` and `retry` the registry, `client` the
table of the native watcher.  A publication changes any of the keys of the watch
set at once (`session.rs:845`) and makes the auto-import watch anew (`:847`); it adds
a thread for each of the two sets, again a list of steps (`todo`), each a section of
the registry's lock or one call of the client, which may time out before (`lost`) or
after (`late`) it took effect.  An identity is the name of a watch with a number;
the typings watches of all projects have one name (`session/build.rs:84`, `Typings`).  Kinds of
events are left out: every watch has the same.

**BuildGraph** is the walk of `setup_task`, a recursive operator over the
references of the projects.  **BuildOrchestrator** takes any set of graphs that
are topological; the runs give it the ones the walk generates.  `at` is what each
builder does, `done` and `reported` are the completions, `status`, `blame`,
`pending` and `initial` the task's memory between cycles.  The disk is `src`,
`built` and two relations, `later` and `newdts`, that stand for all comparisons
of modification times.  The many out-of-date statuses are one (`newer`), the two
pseudo builds are one (`types`).  `Edit` saves a source at any moment, with other
or the same text, errors and declarations; `Reconfigure` saves a configuration
with other references and runs its cycle.  Left out: `--dry` and `--force`,
solutions, missing configurations, content mappers, configurations saved while a
build runs, which directories are watched, and `noEmitOnError`, with which a project
that has errors emits and touches nothing (`task.rs:822-832`); in the model a
compilation emits with errors too.

**AtaJobs.**  `lock` is the session's update lock, `stage` and `todo` the
publication that holds it, `running` the jobs with the step of their thread,
`pend` and `flush` the fields of `Pending`, `closer` the progress of
`Session::close`.  An installation is its outcome.  The panic of a job is kept
(`panics`) and resumed by whoever waits for the jobs next: `close`, which it unwinds,
or `wait_for_background_tasks` (`WaitTasks`).  Left out: the installer's own
cache, throttle and processes, `wait` called on a job's own thread, `Drop`.

MC modules hold the values of function- and relation-valued constants, the
constraints that bound an instance and the symmetry sets; each `.cfg` is one run.

## Runs

| Run | Instance | What it shows |
|---|---|---|
| `refcount` | 2 threads, 2 keys, 3 acquisitions, producers of k1 nest k2 or reenter k1 | leases pin their entries, counts are exact, producers exclude each other, nothing leaks or sleeps for good; refinement of LeaseTable; every call returns |
| `sched` | 2 threads, a query slot, the diagnostics and the API slot, 1 request, 1 file, 3 acquisitions, 2 checkouts of the API, all faults, time passes, 2 threads of timers | exclusive slots, sharing inside a request only, agreement of pool and slots, no cancelled checker reissued, associations and timers end with what they belong to, no forgotten sleeper |
| `owner_circle` | 2 threads, 2 snapshots, 2 configurations that extend each other, 4 loads | ownership and keys agree also when reentry unwinds; calls sleep on busy entries only |
| `owner_reentry` | 1 thread, the same circle | **violation**, see Findings |
| `queue` | 3 callers, capacity 2, 3 items, 1 context | no lost wake-up, no function left, refinement, cancelled callers return |
| `conn` | 2 messages, 1 ID, 1 worker, the observer, 1 watch thread, 1 call to the client by any of them, ends at any moment | IDs, contexts and requests agree; cancellation hits what it means; every request is answered while the connection lasts; afterwards `run` comes to its end and all threads stop |
| `session` | dispatcher, API client and native watcher, 1 file, 3 calls, 1 timer, builds fail and panic | no event or option lost, changes have an update coming (but for those a failed one put back), close is final, refreshes can be cancelled |
| `session_open` | dispatcher and native watcher, 1 file, 2 calls | **violation**, see Findings |
| `watch` | 2 typings watches and the auto-import watch, 2 globs, 3 publications with 2 threads each, 1 of these with failing calls | needed globs are watched whatever the order of updates; one by one they are followed exactly, and without a gap unless a glob moves on to a later key; a failure leaves no count behind |
| `watch_retry` | 1 key, 2 globs, 3 updates one by one, 1 with failing calls | **violation**, see Findings |
| `build` | 3 projects, 2 builders; all 24 graphs of a set of references built once with an edit (stopping at errors; a diamond also without); a diamond with 2 faults and cancellation, built or cleaned; a watched diamond with 2 edits of sources or references, or an edit and a fault; a watched loop with a circular reference and an edit | builds end; done tasks are final; reports in order; cycles are found and excused as they should be; skipped projects are skipped for a reason; a quiet watch is up to date |
| `ata` | 1 project, 2 inputs and none, 2 results, 3 updates, 1 switch, 1 fault, close at any moment | stale results are rejected, present inputs are attended to, close is final and ends, returning or unwinding |

Bounds.  Every race the properties are about has two parties, and a third thread
matters only where a wake-up may go to the wrong one; the queue therefore has
three callers.  Two keys, configurations, globs or slots let nesting, circularity
and sharing occur.  Three calls of a session suffice for a batch to be taken,
fail and meet another; one timer that fires is enough for it to be late, because
epochs only compare for equality.  Two messages with one ID let it be reused
while the first request is being completed.  Two publications with two threads
each overlap in every way two sets can; a third lets a failure, or a zero identity,
meet what comes next.  Three projects are the fewest with a
diamond and with a cycle that a circular reference excuses from a distance; two
builders the fewest of which one waits.  The inputs `a`, `b`, `a` let a job of
the first publication meet the third.

Five runs have a constraint in their MC module, because the full product of what
may vary is too large and its parts are what matters.  `ClockPinsOrCalls` of `sched`:
while a call is left to make, either the clock runs, checkers fail or panic and the
scheduler is discarded, or the API has its checkouts, with all of this but the clock
and discard, while calls are for its slot; all three calls are made at one time,
without faults and for query checkers.  `TimersOrCalls` of `session`: the last call
is made before the timer fires, or after one change at most.  `Bounds` of
`watch`: two threads run at a time, calls fail and the third snapshot comes only
while updates are made one by one, and the manager stops during the first ones.  `EndsOnce`
of `conn`: what surrounds the connection ends it once, while something is left to
be read or called.  `OwnersFirst` of `owner_circle`: both snapshots exist before
the first call; creating one touches nothing shared.  `session_open`,
`owner_reentry` and `watch_retry` use none.  The safety invariants of `sched`,
`session`, `conn` and `owner_circle` do not depend on these bounds: they are
proved without.

Counters (`MaxCalls`, `MaxFires`,
`MaxItems`, `MaxTime`, `MaxUpdates`, the `edits` and `faults` of a scenario) only
bound how long a run goes on.  The passing runs fire every action, failures and
panics included.  `conn`, `build` and `ata` switch the deadlock check off: a
connection, a build and a session that have ended stay so.  That nobody waits for
ever is then what `StopsWhenOver`, `BuildEnds` and `CloseEnds` say.

Several properties are conjunctions of named parts, one for each thing that must
agree (`LeasesHold`, `LeasesExclude`, `NothingDangles`, `TimersAgree`,
`OwnershipIsExact`, `RequestsHold`, `NothingForgotten`); the parts are stated and
explained where they are defined.

Every property has a mutant: a definition of the model replaced by what a
plausible slip in the code would make of it (a missing notification, two steps
swapped, a stale comparison), under which TLC finds the property violated.

## Fairness

Fairness stands for the operating system running every thread, and for nothing
the code does not rely on.

* Cache: weak fairness of every internal step; strong fairness of producers,
  which end.  Producers nest along an order of the keys (`CallsReturn` fails
  otherwise: two threads loading in opposite orders wait for each other).
* Scheduler, owner cache, watch manager: none.  What could be forgotten there is
  stated as safety (`SleeperHasWaker`, `NoLostWakeup`, `NeededIsWatched`): whoever
  sleeps waits for somebody who holds what he needs and notifies him when he is
  done.  That he will be done is not said: two threads that load a circle of
  configurations in opposite orders sleep on each other's entries for ever, as do
  two that hold a checker of one class each and wait for the other's.
* Queue: callers run, and cancelling a context gets to all its functions.
* Connection: reader, writer and threads run, those of the session included; a
  call of a watch thread need not time out.  A client that could answer
  again and again does so at some point; it may still never answer once the
  connection ends.
* Build: each builder runs on, and so does the thread that joins them.  Nothing
  obliges an edit or an event to come.
* Type acquisition: threads run on and npm ends.  The update lock is not fair,
  but a close or a job that waits for it gets it in the end (strong fairness of
  `CloseSnapshot` and `Receive`).  `CloseEnds` says that close then ends; it may end
  by resuming the panic of a job.  Nobody is obliged to call close.

## What is proved

`RefCountCacheProofs` proves, for any sets of threads, keys and calls (calls
finite), any nesting of producers and both values of `DisableDeletion`, all
safety properties of the `refcount` run and the refinement of LeaseTable.  The
assumptions are `NilAssumption` and `CallAssumption`.  None of the properties is
inductive.  The invariant `IInv` adds

* `Fresh`: a call that has created no entry is unknown as one;
* `Located`: a call's entry exists and has the call's key;
* `Indexed`: the index holds live entries under their own keys, and every Ready
  one, which is why a release by key finds the lease's entry;
* `Creators`: only its creator completes or abandons a provisional entry;
* `Claimed`, `Kept`: whoever claims an entry finds it Ready, and a Ready entry
  keeps a reference unless deletion is disabled;
* `Nesting`: a producer is suspended under exactly one acquisition;
* `NoLostWakeup` and `ReferencesAreLeases` themselves.

`ShapeStep` shows all but the counts action by action; `CountStep` uses
cardinality lemmas (`CountAdded`, `CountDropped`, `CountStarted`) for the counts;
`TableStep` shows that each step is a step of LeaseTable or a stutter.
`LeasesAlwaysHold` puts the parts of `LeasesHold` together.

`DynamicQueueProofs` proves for every number of callers and contexts and every
capacity that the queue stays within its capacity, that no wake-up is lost, that
no function is left on a context, and that DynamicQueue implements
CancelableQueue.  Its invariant adds `Functions` (where a call is, and whether
its function is registered) and `Answers`.

`BuildOrchestratorProofs` proves, for every set of topological graphs
(`GraphsAreTopological`), any set of builders and every scenario, that reports
follow the order of the graph (`InOrder`), that no step of a build changes a task
that is done in it (`DoneIsFinal`), and that the builders never all wait
(`NobodyIsStuck`).  The invariant says how the positions of the order are shared
out while a build runs: `Placed` (a builder has a position of its own below the
counter), `Stepped` (what its step says about its task), `Counted` (what is done
has its upstream tasks done; a position below the counter is reported or held by
somebody) and `Sorted` (what is reported is a prefix).  `NoDeadlock` takes the
builder with the lowest position: all positions below it are reported, so it
waits neither for an upstream task nor for a report.  The least position comes
from the library's well-founded minimum (`Least`).

It also proves the two invariants that reach over a whole build and over the
cycles of a watch, from three more assumptions: `NilIsNoTask`, `SomeBuilder`
(`--builders` is at least 1) and `ScenariosStart` (`--clean` and `--watch` cannot
be combined).  `Stage` is the frame: a build ends only when everything in the
order is done.

* `SkippedForAReason` needs `Fresh` (in a single build a task that is not done has
  no memory, so its status is computed in this build) and `Skipping` (a status is
  the one the upstream tasks call for, also between the moment a builder decides
  it and the moment it records it: they are done, and `DoneIsFinal`).
* `Settled` needs `Versions` (versions of a source are not used twice), `Firsts`
  (while some task is in its initial cycle, in which it marks nobody, nobody has a
  status that such a mark would have to change) and `Quiet`.  `Quiet` says of every
  project: the times on the disk show what is out of date (`Disk`); a remembered
  status that spares the project an inspection (`Kept`) is good for its outputs, or
  the watch has an event for it (`Held`); and what a builder has decided rests on
  inputs that do not change before it acts (`Underway`).

`AtaJobsProofs` proves, for any sets of projects, inputs and results and any
bounds, `PendingIsCurrent`, `InputsAreAttended` and `NothingAfterClose` from
`Constants` and `NilIsNothing`.  The invariant adds `Locked` (who holds the update
lock, and that after close has taken it nothing is pending and nobody publishes,
whether it returns or is unwound in the end),
`Looked` (while a publication looks at the projects, those it has looked at are
attended to) and `Carries` (a job to be received has its files).

`CheckerSchedulerProofs` proves all six invariants of the `sched` run, for any
sets of threads, calls, requests, files, direct checkouts and timer threads, any
number of query slots, any nesting and any faults, from `AsksAssumption`, `SlotsAssumption`, `TimeAssumption`
and `NilAssumption` (`Nil` is none of the things it stands beside).  The layers,
each proved from the ones before:

* `Shape`: types, and what a call or a timer's thread has in hand at each step;
* `Exclusive`: a slot is held by the one call that reserves it or by the calls
  that share its lease (`Reserves`, `Leases`, `OneHolder`, `HeldBySome`);
* `Pool`: a checker stays with the slot it was made for (`Homed`), and what the
  pool has in a slot is what the step of its holder says (`Stocked`), which is what
  makes two locks safe.  Of the API's slot it says only what direct checkouts leave
  true: they may make its checker, outlive its leases and take a cancelled checker
  out of the pool early.  `PinEffect` and `InitializeEffect` reduce their steps to
  what they write, and `MadeStays` keeps a checker in its cell once made;
* `Woken`: whoever waits has its wake-up function registered;
* `Ending`: an association has a cleanup function registered, taken or on its way,
  and serials are not used twice;
* `Timed`: an epoch has one setter, a timer that is armed is the scheduler's or
  about to be stored, and the deadline covers every idle checker unless somebody
  is about to compute it, however many cleanups run at the same time.

`ConnectionProofs` proves `PendingIsAwaited`, `IdsAgree` and `RequestsHold` for any
number of messages, IDs, workers, watch threads and calls, from
`ConnectionAssumption`.  Its
layers are `Shape`; `Places` (a message is in one place: with the reader, in one
of the queues, or with one thread, and until then unanswered); `IdsAgree` itself,
which needs that no two messages in flight share an ID; and `Reasons`, by which a
refusal or a cancellation already has its reason when it is decided.

`OwnerCacheProofs` proves `KeysAreOwned`, `OwnershipIsExact` and `NoLostWakeup` for
any threads, snapshots and configurations, extending each other in any way, and
both kinds of fault, from `NilAssumption` and `ExtendsAssumption`.  Its lemma
`Steps` reduces every step to one of 17 kinds of step of one call, so that the
layers need not see the actions: `Separate` (an owner that is inherited from or
released, and the thread doing it, has one call), `Busy` (an entry is busy for the
one call that has claimed it), `Placed` (an entry that is not removed is the one
the index has for its key), `Recorded`, `Released` and `Inherited` (what a call
that is half-way owns already, or still), `Accounted` (why an owner does not list
what it owns) and `Kept` (an entry without an owner is some load's).  `Separate`
starts from the guards of `StartInherit`, `StartRetain` and `StartDrop`, which say
what the key lock, the borrowed `previous` or being the last reference says in the
code.

`SessionProofs` proves the four invariants of the `session` run, for any threads,
files, faults, calls and timers.  `SessionAssumption` keeps the names apart;
`OneApplier` says that one thread at most applies inferred options: the only
caller, tests aside, is the language server's runtime, with `&mut self`
(`tsr_lsp/src/runtime.rs`).
A thread is a list of steps, so the first layer, `Shape`, says which lists the
threads can have, by which step may follow which (`Follows`); the layers on locks
and on close then look only at a thread's place in its list (`Place`).  They are
`Names` (a timer and its task have a name of their own, never above the slot's
epoch), `Locks` (one thread is between taking and giving up the update lock, and
it has what was taken from `pending`), `Counted` (the background queue counts the
tasks that run) and `Closes` (what each step of a close has done stays done,
although timers may still fire and updates still fail).  `RefreshAgrees` and
`NothingLost` are inductive upon these.  `UpdateIsComing` needs `Late` (a task that
updates has ended its own timer); a cancellation of the timer keeps it because
whoever cancels has yet to take what is pending, and what is put back if the update
fails is excused from then on.  The options need `Options`: the
number of the last call, and where its value is while updates of others take it,
fail and put it back.

Only model-checked: termination and all other liveness (fairness and ENABLED are
beyond the prover); the walk of BuildGraph, which is recursive, and with it
`CyclesExcused` and that its graphs are topological; and the watch manager.  Its
threads insert and remove steps by position in lists that hold sorted sequences of
sets, and its counts are numbers of users of a glob: the arguments are inductions
over these lists.  For `NeededIsWatched` the argument is this: counts never fall
below zero, so a count is at least the number of users; for each identity the
watches issued exceed the unwatches issued by one exactly while the entry has it;
as long as no call is refused they reach the client alternating, so the last one
leaves it registered.  The same argument shows where it stops (see the limits
below).  In the violation runs a counterexample is the
result.

## Findings

* `owner_reentry`: loading a configuration whose base extends it back panics with
  "OwnerCache: initializer reentered its own entry" instead of reporting the
  circularity: ownership of a transitively extended configuration is added while
  it is still being parsed on the same thread (`extended_config.rs:108`).
* `session_open`: `process_changes` asserts "should see no changes after open"
  (`overlay.rs:163`).  The native watcher's thread may append an event for the
  file between the enqueueing of its didOpen and the flush.  The update panics,
  the batch is put back, and all later updates panic on it.

* `watch_retry`: "The next snapshot retries the same IDs" (`watch/manager.rs:127`).
  When a registration fails its counts are rolled back.  If the next snapshot
  computes the watch anew, with the same globs, its id is zero and differs from
  the old one: the globs are registered, and then released for the old watch,
  whose counts are gone already, so the new registration is undone.

Details, with the lines, are in `PROJECT.json`.

Limits met while modelling, excepted in the properties and visible in the models:

* Watch registrations.  An update that was overtaken may leave a registration
  behind that nothing counts (why `NeededIsWatched` speaks of what is needed
  only); overlapping updates with a failed call may leave a glob counted and not
  watched (why `CountedIsWatched` asks for updates one by one), also when only the
  two updates of one publication overlap.  A glob that moves from one key to a later
  one in one publication is released and unregistered before the later key acquires
  it (`manager.rs:87-94`): events in between are lost, and `NoGap` excepts it
  (`HandedOn`).  Two registrations can bear the same identity with number zero: of
  one watch in overlapping updates, or of two projects' typings watches, which have
  one name.  The native watcher refuses the second, and the late release of the one
  removes the other although it is needed, which is why `NeededIsWatched` asks that
  an identity has one meaning (`OneMeaning`).  The identities do collide in the run,
  which is too small for the rest of it; the attempt to prove it showed it.
* Session.  An update cancels the update timer first (`session.rs:778`).  When it
  fails, its changes are put back (`session.rs:1168-1192`) and no timer is set: they
  wait for the next call or event.  `UpdateIsComing` excuses them (`excused`), and
  everything once the timers are closed.
* Build watch (`missed` in the model).  A source saved during the first build,
  before the directories are watched, or between the moment a compilation or a
  pseudo build has read it and the moment it touches its outputs, is older than
  these outputs; it is built when it is touched again.
* A reference does not become an edge of the graph when its project is still
  being analysed and a reference marked circular is anywhere on the way there; so
  it depends on where the walk starts which of the references of a loop is left
  out, and it need not be the marked one.  A project that lacks an edge (`Loose`)
  is built without waiting for what it refers to, and is not marked when that
  changes.  It is `missed` until a compilation with all its edges.  That such a
  project is not the one with the marked reference is a result of the proof of
  `Settled`, which once excepted the latter.
* `Settled` is about builds without `noEmitOnError`, which is not modelled.
* `--stopBuildOnErrors` in a watch is excepted as well: a project with errors
  marks nothing downstream, so what it emitted reaches the projects downstream
  only with a later change of its declarations, and a downstream project with a
  cached out-of-date status is compiled although its upstream is in error.
* Type acquisition.  A job that has been received but not yet left the table
  still counts as running: inputs that come back in that moment get no job until
  the next publication.  An installation whose files equal the present ones is
  not recorded, so every publication installs again.  The first is why
  `InputsAreAttended` admits a job that ended after the publication.  When an
  installer has panicked, `Session::close` resumes the panic (`ata.rs:98-101`): it
  unwinds past the wait for the timers, the close of the watches and the `Closed`
  event (`session.rs:1125-1129`), at which the observer would have ended.

## Plan

1. **Context** and **AsyncConn**: cancellation trees, after-functions, deadlines,
   calls.  Context then replaces what DynamicQueue and CheckerScheduler assume of
   it.
2. Session: the remaining fields of `Pending`, `Drop for Session`; composition
   with WatchManager and AtaJobs, which now have the part of a publication they
   need each.
3. BuildOrchestrator: configurations saved during a build, solutions, `--force`.
4. Proofs: `NeededIsWatched` and `CountedIsWatched` of WatchManager.

## Not modelled

The scanner, parser, binder, checker, transformers, printer, incremental program
and language service queries are sequential and deterministic over whole source
texts or program graphs: their inputs are out of TLC's reach and their definitions
would be transliterations.  They are more than nine tenths of the code, much of
it generated, so the models cover a small share of the lines and nearly all of
the concurrent control.  I/O, wrappers and test tooling keep no state worth a model.
`PROJECT.json` has the reason for each component.
