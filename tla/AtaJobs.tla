-------------------------------- MODULE AtaJobs --------------------------------
(***************************************************************************)
(* Automatic type acquisition of a session: crates/tsr_project,            *)
(* session/ata.rs, with the parts of session.rs and session/build.rs that  *)
(* adopt its results and that close the session.                           *)
(*                                                                         *)
(* A publication of a snapshot starts a thread for every project whose     *)
(* inputs differ from the ones its typings were installed for.  The thread *)
(* installs, takes the session's update lock, and leaves its result for    *)
(* the next update if the project still has the inputs of the job.  The    *)
(* inputs of a project may change, and change back, while jobs for the     *)
(* earlier inputs run; acquisition may be disabled and enabled; the        *)
(* session may be closed at any point.                                     *)
(***************************************************************************)
EXTENDS Naturals, FiniteSets

CONSTANTS
  Project,      \* the projects of the session
  Info,         \* the inputs of an acquisition: TypingsInfo
  Off,          \* a member of Info with acquisition not enabled
  Files,        \* the lists of typings files an installation can yield
  Nil,
  MaxUpdates,   \* bound: updates caused by changes of the user
  MaxToggles,   \* bound: calls of set_disable_automatic_type_acquisition
  MaxFaults     \* bound: updates, installations and threads that fail

ASSUME Constants == Off \in Info
ASSUME NilIsNothing ==
  Nil \notin Info \cup Files \cup [info : Info, files : Files]
             \cup {"update", "close", "published", "trigger"}

VARIABLES
  info,         \* compute_typings_info of the published projects
  installed,    \* installed_typings_info
  files,        \* typings_files
  pend,         \* Pending.ata_changes: [info, files], or Nil
  flush,        \* Pending.ata_changed: a flush is under way or to come
  running,      \* Jobs.running: [id, project, info, step, files]
  next,         \* Jobs.next
  closed,       \* Jobs.closed
  panics,       \* the length of Jobs.panics
  disabled,     \* ata_disabled
  ctx,          \* the session's context is done
  lock,         \* who holds the update lock: Nil, "update" or "close"
  stage,        \* the update under it: Nil, "published" or "trigger"
  todo,         \* the projects that trigger has still to look at
  again,        \* projects with NewFiles in this snapshot
  closer,       \* Session::close: "no", "canceled", "shut", "locked",
                \* "waiting", "returned", or "unwound" by a panic
  over,         \* history: inputs whose job ended since the publication
  updates, toggles, faults

session == <<info, installed, files>>
control == <<closed, panics, disabled, ctx>>
counts  == <<updates, toggles, faults>>
vars == <<session, pend, flush, running, next, control, lock, stage, todo,
          again, closer, over, counts>>

Init ==
  /\ info = [p \in Project |-> Off]
  /\ installed = [p \in Project |-> Nil] /\ files = [p \in Project |-> Nil]
  /\ pend = [p \in Project |-> Nil] /\ flush = FALSE
  /\ running = {} /\ next = 0 /\ closed = FALSE /\ panics = 0
  /\ disabled \in BOOLEAN /\ ctx = FALSE
  /\ lock = Nil /\ stage = Nil /\ todo = {} /\ again = {}
  /\ closer = "no" /\ over = {}
  /\ updates = 0 /\ toggles = 0 /\ faults = 0

(* The session has a snapshot until close takes it.                        *)
Open == closer \in {"no", "canceled", "shut"}

-------------------------------------------------------------------------------
(* An update: the caller takes the lock and the pending changes.  The      *)
(* inputs may become other ones; a result is adopted if the project still  *)
(* had its inputs before this update.                                      *)
Adopts(p) == pend[p] # Nil /\ pend[p].info = info[p]

Wanted == updates < MaxUpdates \/ flush \/ \E p \in Project : pend[p] # Nil

Publish(new, nf) ==
  /\ lock = Nil /\ Open /\ Wanted
  /\ updates = MaxUpdates => new = info /\ nf = {}
  /\ updates' = IF updates < MaxUpdates THEN updates + 1 ELSE updates
  /\ info' = new
  /\ installed' = [p \in Project |-> IF Adopts(p) THEN pend[p].info ELSE installed[p]]
  /\ files' = [p \in Project |-> IF Adopts(p) THEN pend[p].files ELSE files[p]]
  /\ pend' = [p \in Project |-> Nil] /\ flush' = FALSE
  /\ lock' = "update" /\ stage' = "published" /\ again' = nf /\ over' = {}
  /\ UNCHANGED <<running, next, control, todo, closer, toggles, faults>>

(* An update that fails puts the pending changes back.                     *)
FailUpdate ==
  /\ lock = Nil /\ Open /\ Wanted /\ faults < MaxFaults
  /\ faults' = faults + 1
  /\ UNCHANGED <<session, pend, flush, running, next, control, lock, stage,
                 todo, again, closer, over, updates, toggles>>

Unlock == lock' = Nil /\ stage' = Nil

(* trigger_ata: nothing is started while acquisition is disabled.          *)
Glance ==
  /\ lock = "update" /\ stage = "published"
  /\ IF disabled THEN Unlock /\ UNCHANGED todo
     ELSE stage' = "trigger" /\ todo' = Project /\ UNCHANGED lock
  /\ UNCHANGED <<session, pend, flush, running, next, control, again, closer,
                 over, counts>>

(* A project that is to be acquired: enabled, and other inputs than the    *)
(* installed ones, or new files in this snapshot.                          *)
Due(p) == info[p] # Off /\ (installed[p] # info[p] \/ p \in again)

(* Mutant: any job of the project will do.                                 *)
SameProject(j, p) == j.project = p /\ ~ctx

(* A job for the same project and the same inputs, with a live context.    *)
Same(j, p) == j.project = p /\ j.info = info[p] /\ ~ctx

Begun(p) == [id |-> next, project |-> p, info |-> info[p], step |-> "install",
             files |-> Nil]

(* Under the lock of the jobs.  When they are closed trigger returns.      *)
MayStart == ~closed

Skip(p) == /\ todo' = todo \ {p}
           /\ IF todo = {p} THEN Unlock ELSE UNCHANGED <<lock, stage>>

Trigger(p) ==
  /\ stage = "trigger" /\ p \in todo
  /\ IF ~Due(p)
     THEN Skip(p) /\ UNCHANGED <<running, next, over, faults>>
     ELSE IF ~MayStart
     THEN todo' = {} /\ Unlock /\ UNCHANGED <<running, next, over, faults>>
     ELSE IF \E j \in running : Same(j, p)
     THEN Skip(p) /\ UNCHANGED <<running, next, over, faults>>
     ELSE /\ Skip(p) /\ next' = next + 1
          /\ \/ running' = running \cup {Begun(p)} /\ UNCHANGED <<over, faults>>
             \/ /\ faults < MaxFaults /\ faults' = faults + 1   \* spawn fails
                /\ over' = over \cup {<<p, info[p]>>} /\ UNCHANGED running
  /\ UNCHANGED <<session, pend, flush, control, again, closer, updates, toggles>>

-------------------------------------------------------------------------------
(* The thread of a job.                                                    *)

To(j, step, f) == running' = (running \ {j}) \cup {[j EXCEPT !.step = step, !.files = f]}

(* The installation ends: with a list of files, or without one, or in a    *)
(* panic.  It is handed on while the context lives; a session that is      *)
(* closing has canceled it.                                                *)
Installed(j) ==
  /\ j.step = "install"
  /\ \/ /\ IF ctx THEN To(j, "leave", Nil)
           ELSE \E f \in Files : To(j, "receive", f)
        /\ UNCHANGED faults
     \/ /\ faults < MaxFaults /\ faults' = faults + 1
        /\ To(j, "leave", Nil) \/ To(j, "panic", Nil)
  /\ UNCHANGED <<session, pend, flush, next, control, lock, stage, todo, again,
                 closer, over, updates, toggles>>

(* Mutant: the inputs are not compared again.                              *)
FitsAlways(j) == TRUE

(* receive_typings under the update lock: the result is dropped if the     *)
(* session is closed, acquisition disabled, the inputs are other ones by   *)
(* now, or it changes nothing.                                             *)
Fits(j) == info[j.project] = j.info

Receive(j) ==
  /\ j.step = "receive" /\ lock = Nil
  /\ To(j, "leave", j.files)
  /\ pend' = IF /\ ~ctx /\ ~disabled /\ Open /\ Fits(j)
                /\ files[j.project] # j.files
             THEN [pend EXCEPT ![j.project] = [info |-> j.info, files |-> j.files]]
             ELSE pend
  /\ UNCHANGED <<session, flush, next, control, lock, stage, todo, again,
                 closer, over, counts>>

(* The job leaves `running`, and a panic closes the jobs for good.         *)
Leave(j) ==
  /\ j.step \in {"leave", "panic"}
  /\ running' = running \ {j}
  /\ over' = over \cup {<<j.project, j.info>>}
  /\ panics' = IF j.step = "panic" THEN panics + 1 ELSE panics
  /\ closed' = (closed \/ j.step = "panic")
  /\ UNCHANGED <<session, pend, flush, next, disabled, ctx, lock, stage, todo,
                 again, closer, counts>>

-------------------------------------------------------------------------------
(* The rest of the session.                                                *)

(* set_disable_automatic_type_acquisition: the change is published by the  *)
(* flush of the same call.                                                 *)
Toggle ==
  /\ Open /\ toggles < MaxToggles /\ toggles' = toggles + 1
  /\ disabled' = ~disabled /\ flush' = TRUE
  /\ UNCHANGED <<session, pend, running, next, closed, panics, ctx, lock, stage,
                 todo, again, closer, over, updates, faults>>

CloseTo(from, to) == closer = from /\ closer' = to

(* Session::close: cancel the context; close and cancel the jobs; take the *)
(* lock and drop the snapshot and what is pending; unlock; wait.           *)
CloseCancel ==
  /\ CloseTo("no", "canceled") /\ ctx' = TRUE
  /\ UNCHANGED <<session, pend, flush, running, next, closed, panics, disabled,
                 lock, stage, todo, again, over, counts>>
CloseJobs ==
  /\ CloseTo("canceled", "shut") /\ closed' = TRUE
  /\ UNCHANGED <<session, pend, flush, running, next, panics, disabled, ctx,
                 lock, stage, todo, again, over, counts>>

(* Mutant: the snapshot is taken without the update lock.                  *)
CloseUnlocked ==
  /\ CloseTo("shut", "locked") /\ pend' = [p \in Project |-> Nil] /\ flush' = FALSE
  /\ UNCHANGED <<session, running, next, control, lock, stage, todo, again, over, counts>>

CloseSnapshot ==
  /\ CloseTo("shut", "locked") /\ lock = Nil /\ lock' = "close"
  /\ pend' = [p \in Project |-> Nil] /\ flush' = FALSE
  /\ UNCHANGED <<session, running, next, control, stage, todo, again, over, counts>>

(* Mutant: the lock is held to the end of close.                           *)
CloseKeepsLock ==
  /\ CloseTo("locked", "waiting")
  /\ UNCHANGED <<session, pend, flush, running, next, control, lock, stage,
                 todo, again, over, counts>>

(* drop(update), before the wait.                                          *)
CloseUnlock ==
  /\ CloseTo("locked", "waiting") /\ lock' = Nil
  /\ UNCHANGED <<session, pend, flush, running, next, control, stage, todo,
                 again, over, counts>>

(* BackgroundAta::wait: when no job is left the panic of one is taken and  *)
(* resumed in the thread that waited.                                      *)
Resumed == running = {} /\ panics' = IF panics > 0 THEN panics - 1 ELSE panics

(* In close the panic skips what is behind the wait: timers.wait,          *)
(* watches.close and the Closed event.                                     *)
CloseWait ==
  /\ CloseTo("waiting", IF panics > 0 THEN "unwound" ELSE "returned") /\ Resumed
  /\ UNCHANGED <<session, pend, flush, running, next, closed, disabled, ctx, lock,
                 stage, todo, again, over, counts>>

(* wait_for_background_tasks, by anybody: the panic is resumed there.      *)
WaitTasks ==
  /\ panics > 0 /\ Resumed
  /\ UNCHANGED <<session, pend, flush, running, next, closed, disabled, ctx, lock,
                 stage, todo, again, closer, over, counts>>

Update == \/ \E new \in [Project -> Info], nf \in SUBSET Project : Publish(new, nf)
          \/ FailUpdate
UnderLock == Glance \/ \E p \in Project : Trigger(p)
Work == \E j \in running : Installed(j) \/ Receive(j) \/ Leave(j)
Close == CloseCancel \/ CloseJobs \/ CloseSnapshot \/ CloseUnlock \/ CloseWait

Next == Update \/ UnderLock \/ Work \/ Toggle \/ Close \/ WaitTasks

Spec == Init /\ [][Next]_vars

(* Threads run on, and npm ends: every job, the update that holds the      *)
(* lock, and a close that was called.  The lock is not fair: a close that  *)
(* waits for it gets it in the end (SF), as does a job.  Nobody is obliged *)
(* to call close.                                                          *)
FairSpec ==
  /\ Spec /\ WF_vars(UnderLock)
  /\ WF_vars(CloseJobs) /\ SF_vars(CloseSnapshot) /\ WF_vars(CloseUnlock)
  /\ WF_vars(CloseWait)
  /\ SF_vars(\E j \in running : Receive(j))
  /\ WF_vars(\E j \in running : Installed(j) \/ Leave(j))

-------------------------------------------------------------------------------
(* Type correctness.                                                       *)
Job == [id : Nat, project : Project, info : Info, files : Files \cup {Nil},
        step : {"install", "receive", "leave", "panic"}]
Change == [info : Info, files : Files]

TypeOK ==
  /\ info \in [Project -> Info]
  /\ installed \in [Project -> Info \cup {Nil}]
  /\ files \in [Project -> Files \cup {Nil}]
  /\ pend \in [Project -> {Nil} \cup Change]
  /\ next \in Nat
  /\ running \subseteq Job
  /\ {flush, closed, disabled, ctx} \subseteq BOOLEAN /\ panics \in Nat
  /\ lock \in {Nil, "update", "close"} /\ stage \in {Nil, "published", "trigger"}
  /\ todo \subseteq Project /\ again \subseteq Project
  /\ closer \in {"no", "canceled", "shut", "locked", "waiting", "returned",
                "unwound"}

(* A result that was accepted belongs to the inputs its project has: jobs  *)
(* for earlier inputs finish late ("Let obsolete installs finish;          *)
(* receive_typings rejects their results against current inputs"), and     *)
(* updates fail in between.                                                *)
PendingIsCurrent == \A p \in Project : pend[p] # Nil => pend[p].info = info[p]

(* The inputs of a published project are attended to: they are the         *)
(* installed ones, or a job for just these inputs runs, has left a result, *)
(* or ended after the publication.  Acquisition that is disabled or closed *)
(* is excepted, and so is a flush that will look again.                    *)
InputsAreAttended ==
  (lock = Nil /\ Open /\ ~disabled /\ ~flush /\ ~closed /\ ~ctx) =>
    \A p \in Project :
      \/ info[p] = Off \/ installed[p] = info[p] \/ pend[p] # Nil
      \/ \E j \in running : j.project = p /\ j.info = info[p]
      \/ <<p, info[p]>> \in over

(* When close has returned, or was unwound by the panic of a job, nothing  *)
(* of the acquisition is left and nothing can start: no job, no accepted   *)
(* result, and no publication that is still looking for projects.          *)
NothingAfterClose ==
  closer \in {"returned", "unwound"} =>
    running = {} /\ pend = [p \in Project |-> Nil] /\ stage = Nil

(* A close that was called gets past its wait for the jobs, which wait for *)
(* the update lock it takes itself: it goes on if no panic was left to it, *)
(* and is unwound if one was.                                              *)
CloseEnds == closer = "canceled" ~> closer \in {"returned", "unwound"}
===============================================================================
