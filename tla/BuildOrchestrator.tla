--------------------------- MODULE BuildOrchestrator ---------------------------
(***************************************************************************)
(* tsc --build and its watch mode: crates/tsr_build.                       *)
(*                                                                         *)
(* A build walks the graph's order.  Several builders take the positions   *)
(* of the order from one counter; each waits for the upstream tasks of its *)
(* own, builds, announces that it is done, waits until the preceding       *)
(* position has reported, and reports.  In watch mode the orchestrator     *)
(* keeps the tasks between cycles: a cycle resets the tasks whose inputs   *)
(* changed, and a task that is compiled marks the tasks downstream of it.  *)
(*                                                                         *)
(* What a project is made of is abstracted to what decides its status:     *)
(*   src[t]     its sources: a version, whether they have errors, and the  *)
(*              version of the declarations they give rise to;             *)
(*   built[t]   its build info: the version that was compiled, whether it  *)
(*              had errors, the declarations it emitted and the ones of    *)
(*              the other projects it read;                                *)
(*   later      <<u, t>>: u was edited or compiled after the outputs of t  *)
(*              were written or touched;                                   *)
(*   newdts     <<u, t>>: u emitted other declarations after that.         *)
(* Modification times are compared only in these two ways.                 *)
(***************************************************************************)
EXTENDS Naturals, Sequences, FiniteSets, Functions

CONSTANTS
  Task,       \* the projects
  Builder,    \* the threads that run build_or_clean's closure
  Graphs,     \* the graphs generate_graph can produce, one for each set of
              \* references: [refs, order, upstream, errors]
  Nil,        \* no task
  Scenarios   \* what a behaviour starts from, and its bounds: the options of
              \* the command line, the graph, the number of edits (of sources
              \* and configurations), of faults (errors and panics of a task or
              \* a report, overflows) and whether the build may be canceled

(* The projects t refers to.  Not every reference becomes an edge: one to  *)
(* a project that is still being analyzed does not, see BuildGraph.        *)
Referred(g, t) == {r.to : r \in Range(g.refs[t])}

(* What the walk of generate_graph guarantees: a task has one position in  *)
(* the order, its upstream tasks come before it, and what it refers to is  *)
(* a task.                                                                 *)
Topological(g) ==
  /\ g.order \in Seq(Task)
  /\ g.upstream \in [Task -> Seq(Task)]
  /\ \A i, j \in DOMAIN g.order : g.order[i] = g.order[j] => i = j
  /\ \A i \in DOMAIN g.order : \A u \in Range(g.upstream[g.order[i]]) :
       \E j \in DOMAIN g.order : j < i /\ g.order[j] = u
  /\ \A t \in Task : Referred(g, t) \subseteq Task

ASSUME GraphsAreTopological == \A g \in Graphs : Topological(g)
ASSUME NilIsNoTask == Nil \notin Task \cup Nat
ASSUME SomeBuilder == Builder # {}   \* --builders is at least 1, and 4 by default
(* --clean and --watch cannot be combined (parse_build_command_line).      *)
ASSUME ScenariosStart ==
  \A s \in Scenarios : /\ s.graph \in Graphs /\ s.edits \in Nat /\ s.faults \in Nat
                        /\ ~(s.opts.watch /\ s.opts.clean)

VARIABLES
  scenario,   \* the scenario; its opts are [watch, clean, stop]
  graph,      \* order, order_indices, tasks[_].upstream, errors
  phase,      \* "start", "building", "idle" (between watch cycles), "ended"
  canceled,   \* the context is done
  current,    \* the counter the builders share: the next position
  at,         \* what each builder does: [step, pos, does, blame, read]
  done,       \* tasks whose `done` completion is set
  reported,   \* tasks whose `report_done` completion is set
  status,     \* TaskState.status: its kind, "none" for None
  blame,      \* Status.input of an UpstreamErrors status
  pending, initial,   \* BuildTask.pending, .initial_cycle
  failed,     \* failure or first_panic is set
  src, built, later, newdts,      \* the file system, see above
  events, overflow, watching,     \* WatchManager: what it has accumulated
  missed,     \* history: tasks edited where the watch cannot notice, or left
              \* by a build whose graph lacks an edge for one of their references
  printed,    \* history: the tasks in the order of their reports
  edits, faults                   \* counted against the scenario's bounds

disk  == <<src, built, later, newdts>>
task  == <<status, blame, pending, initial>>
watch == <<events, overflow, watching>>
vars  == <<scenario, graph, phase, canceled, current, at, done, reported, task,
           failed, disk, watch, missed, printed, edits, faults>>

opts == scenario.opts

Up(t)   == Range(graph.upstream[t])
Down(t) == {d \in Range(graph.order) : t \in Up(d)}

(* The projects that a build of g does not order after all they refer to.  *)
Loose(g) == {t \in Range(g.order) :
               ~g.errors /\ ~(Referred(g, t) \subseteq Range(g.upstream[t]))}

Away    == [step |-> "gone", pos |-> 0, does |-> "", blame |-> Nil, read |-> Nil]
Fetching == [Away EXCEPT !.step = "fetch"]

(* Mutant: a project that was skipped does not count as one with errors.   *)
IsErrorBuilt(st) == st = "error"

IsError(st) == st \in {"error", "upstream"}

(* No build info on disk.                                                  *)
Unbuilt == [ver |-> Nil, bad |-> FALSE, dts |-> 0, ups |-> [u \in Task |-> 0]]
First   == [ver |-> 0, bad |-> FALSE, dts |-> 0, ups |-> [u \in Task |-> 0]]

Init ==
  /\ scenario \in Scenarios /\ graph = scenario.graph
  /\ phase = "start" /\ canceled = FALSE /\ current = 1
  /\ at = [b \in Builder |-> Away]
  /\ done = {} /\ reported = {}
  /\ status = [t \in Task |-> "none"] /\ blame = [t \in Task |-> Nil]
  /\ pending = [t \in Task |-> TRUE] /\ initial = [t \in Task |-> TRUE]
  /\ failed = FALSE
  /\ src = [t \in Task |-> [ver |-> 0, bad |-> FALSE, dts |-> 0]]
  /\ built \in {[t \in Task |-> Unbuilt], [t \in Task |-> First]}
  /\ later = {} /\ newdts = {}
  /\ events = {} /\ overflow = FALSE /\ watching = FALSE
  /\ missed = Loose(graph) /\ printed = <<>> /\ edits = 0 /\ faults = 0

-------------------------------------------------------------------------------
(* The cycle of a build: build_or_clean from its first line to its last.   *)

(* A graph with errors is reported and nothing is built.  Otherwise every  *)
(* completion is reset and the builders start on a counter of their own.   *)
Begin(g) ==
  IF g.errors
  THEN /\ phase' = IF opts.watch THEN "idle" ELSE "ended"
       /\ UNCHANGED <<current, at, done, reported, failed, printed>>
  ELSE /\ phase' = "building"
       /\ current' = 1 /\ at' = [b \in Builder |-> Fetching]
       /\ done' = {} /\ reported' = {} /\ failed' = FALSE /\ printed' = <<>>

(* start: in watch mode the directories are watched only afterwards, so a  *)
(* graph with errors goes straight to watching.                            *)
Start ==
  /\ phase = "start"
  /\ Begin(graph)
  /\ watching' = (opts.watch /\ graph.errors)
  /\ UNCHANGED <<scenario, graph, canceled, task, disk, events, overflow, missed,
                 edits, faults>>

(* The next position of the order, or the end of the closure's loop.       *)
Fetch(b) ==
  /\ phase = "building" /\ at[b].step = "fetch"
  /\ current' = current + 1
  /\ at' = [at EXCEPT ![b] =
              IF current \in DOMAIN graph.order
              THEN [Fetching EXCEPT !.step = "wait", !.pos = current]
              ELSE Away]
  /\ UNCHANGED <<scenario, graph, phase, canceled, done, reported, task, failed,
                 disk, watch, missed, printed, edits, faults>>

(* Mutant: only the first reference is waited for.                         *)
ReleasedByFirst(t) == graph.upstream[t] # <<>> => graph.upstream[t][1] \in done

(* self.tasks[*upstream].task.done.wait(), for every upstream task.        *)
Released(t) == Up(t) \subseteq done

(* up_to_date_status: the status that is kept, or one from the disk.  The  *)
(* upstream errors come first, in the order of the references.             *)
FirstBad(t) ==
  LET s == graph.upstream[t]
      i == CHOOSE i \in DOMAIN s : /\ IsError(status[s[i]])
                                   /\ \A j \in 1..(i - 1) : ~IsError(status[s[j]])
  IN s[i]

Stopped(t) == opts.stop /\ \E u \in Up(t) : IsError(status[u])

Inspected(t) ==
  CASE Stopped(t)                                -> "upstream"
    [] ~Stopped(t) /\ (\/ built[t].ver = Nil \/ built[t].bad
                       \/ /\ <<t, t>> \in later
                          /\ built[t].ver # src[t].ver
                       \/ \E u \in Up(t) : <<u, t>> \in newdts) -> "newer"
    [] OTHER -> IF \E u \in Up(t) \cup {t} : <<u, t>> \in later
                THEN "types" ELSE "uptodate"

UpToDateStatus(t) == IF status[t] # "none" THEN status[t] ELSE Inspected(t)

(* What a builder does with its task once it is released.                  *)
Plan(t) ==
  CASE canceled /\ ~opts.watch                   -> "cancel"
    [] ~(canceled /\ ~opts.watch) /\ opts.clean  -> "clean"
    [] OTHER -> IF ~pending[t] THEN "replay" ELSE UpToDateStatus(t)

(* The builder is released and reads what it needs: its own state, the     *)
(* status of the upstream tasks, and the sources a compilation loads.      *)
Enter(b) ==
  /\ at[b].step = "wait"
  /\ LET t == graph.order[at[b].pos]
         does == Plan(t)
     IN /\ Released(t)
        /\ at' = [at EXCEPT ![b] =
             [step |-> "build", pos |-> @.pos, does |-> does,
              blame |-> IF does # "upstream" THEN Nil
                        ELSE IF status[t] # "none" THEN blame[t] ELSE FirstBad(t),
              read |-> [src |-> src[t], ups |-> [u \in Task |-> built[u].dts]]]]
  /\ UNCHANGED <<scenario, graph, phase, canceled, current, done, reported, task,
                 failed, disk, watch, missed, printed, edits, faults>>

(* The end of a task, whatever became of it: not pending, not in its       *)
(* initial cycle any more, done.                                           *)
Finish(b, t, st, bl, pend) ==
  /\ status' = st /\ blame' = bl
  /\ pending' = [pend EXCEPT ![t] = FALSE]
  /\ initial' = [initial EXCEPT ![t] = FALSE]
  /\ done' = done \cup {t}
  /\ at' = [at EXCEPT ![b] = [Fetching EXCEPT !.step = "report", !.pos = at[b].pos]]
  /\ UNCHANGED <<scenario, graph, phase, canceled, current, reported, watch,
                 printed, edits>>

Is(b, t, what) == /\ at[b].step = "build" /\ t = graph.order[at[b].pos]
                  /\ at[b].does \in what

(* The outputs of t are written, or only touched: newer than every input.  *)
Outdated(pairs, t) == {p \in pairs : p[2] # t}

(* The branches without a compilation: a canceled build, a task that is    *)
(* not pending and replays its diagnostics, a task that is up to date, and *)
(* a pseudo build, which updates the time stamps of the outputs.           *)
FinishUnbuilt(b, t) ==
  /\ Is(b, t, {"cancel", "clean", "replay", "uptodate", "upstream", "types"})
  /\ LET does == at[b].does
         keep == does \in {"clean", "replay"}
     IN /\ Finish(b, t,
             [status EXCEPT ![t] = CASE does = "cancel" -> "error"
                                     [] keep            -> @
                                     [] does = "types"  -> "uptodate"
                                     [] OTHER           -> does],
             [blame EXCEPT ![t] = IF keep THEN @ ELSE at[b].blame], pending)
        /\ built'  = IF does = "clean" THEN [built EXCEPT ![t] = Unbuilt] ELSE built
        /\ later'  = IF does = "types" THEN Outdated(later, t) ELSE later
        /\ newdts' = IF does = "types" THEN Outdated(newdts, t) ELSE newdts
        /\ missed' = IF does = "types" /\ built[t].ver # src[t].ver
                     THEN missed \cup {t} ELSE missed
        /\ UNCHANGED <<src, failed, faults>>

(* update_downstream, after the state of t is stored: what becomes of the  *)
(* status of the task d downstream.  A task in its initial cycle, or one   *)
(* whose errors stop the build, leaves the tasks downstream alone.         *)
Marks(t, kind) == ~initial[t] /\ ~(opts.stop /\ kind = "error")

(* Mutant: a task that only needs its time stamps updated stays so.        *)
MarkedOnce(t, d, changed) ==
  CASE status[d] = "uptodate" -> IF changed THEN "newer" ELSE "types"
    [] status[d] = "upstream" /\ blame[d] = t -> "none"
    [] OTHER -> status[d]

Marked(t, d, changed) ==
  CASE status[d] \in {"uptodate", "types"} /\ changed  -> "newer"
    [] status[d] = "uptodate" /\ ~changed              -> "types"
    [] status[d] = "upstream" /\ blame[d] = t          -> "none"
    [] OTHER                                           -> status[d]

Pends(t, kind) ==
  [d \in Task |-> pending[d] \/ (Marks(t, kind) /\ d \in Down(t))]

(* compile, and the rest of build after it: the sources that were read     *)
(* give the status and the declarations.  An edit that came in between is  *)
(* older than the outputs.                                                 *)
Compile(b, t) ==
  /\ Is(b, t, {"error", "newer"})
  /\ LET read == at[b].read
         kind == IF read.src.bad THEN "error" ELSE "uptodate"
         changed == built[t].ver = Nil \/ read.src.dts # built[t].dts
         mine == [status EXCEPT ![t] = kind]
     IN /\ Finish(b, t,
             [d \in Task |-> IF Marks(t, kind) /\ d \in Down(t)
                             THEN Marked(t, d, changed) ELSE mine[d]],
             [blame EXCEPT ![t] = Nil], Pends(t, kind))
        /\ built' = [built EXCEPT ![t] =
             [ver |-> read.src.ver, bad |-> read.src.bad, dts |-> read.src.dts,
              ups |-> [u \in Task |-> IF u \in Up(t) THEN read.ups[u] ELSE 0]]]
        /\ later' = Outdated(later, t) \cup {<<t, d>> : d \in Task \ {t}}
        /\ newdts' = Outdated(newdts, t)
                     \cup (IF changed THEN {<<t, d>> : d \in Task \ {t}} ELSE {})
        /\ missed' = IF read.src.ver # src[t].ver \/ t \in Loose(graph)
                     THEN missed \cup {t} ELSE missed \ {t}
        /\ UNCHANGED <<src, failed, faults>>

(* Mutant: a panic skips done.finish.                                      *)
FailSilently(b, t) ==
  /\ at[b].step = "build" /\ t = graph.order[at[b].pos]
  /\ at[b].does # "cancel" /\ faults < scenario.faults
  /\ status' = [status EXCEPT ![t] = "error"] /\ at' = [at EXCEPT ![b] = Fetching]
  /\ failed' = TRUE /\ faults' = faults + 1
  /\ UNCHANGED <<scenario, graph, phase, canceled, current, done, reported, blame,
                 pending, initial, disk, watch, missed, printed, edits>>

(* The task ends in an error or a panic: the first of them is kept, the    *)
(* task is in error, nothing downstream is marked; it is done like others. *)
Fail(b, t) ==
  /\ at[b].step = "build" /\ t = graph.order[at[b].pos]
  /\ at[b].does # "cancel" /\ faults < scenario.faults
  /\ Finish(b, t, [status EXCEPT ![t] = "error"], blame, pending)
  /\ failed' = TRUE /\ faults' = faults + 1
  /\ UNCHANGED <<disk, missed>>

(* Mutant: the preceding task need only be done, not reported.             *)
MayReportOnceDone(b) ==
  \A i \in DOMAIN graph.order : i + 1 = at[b].pos => graph.order[i] \in done

(* report_done of the preceding position.                                  *)
MayReport(b) ==
  \A i \in DOMAIN graph.order : i + 1 = at[b].pos => graph.order[i] \in reported

(* The report, which may panic as well, and the task's own report_done.    *)
Report(b) ==
  /\ at[b].step = "report" /\ MayReport(b)
  /\ LET t == graph.order[at[b].pos]
     IN /\ reported' = reported \cup {t}
        /\ \/ /\ printed' = Append(printed, t) /\ UNCHANGED <<failed, faults>>
           \/ /\ faults < scenario.faults /\ faults' = faults + 1
              /\ failed' = TRUE /\ UNCHANGED printed
  /\ at' = [at EXCEPT ![b] = Fetching]
  /\ UNCHANGED <<scenario, graph, phase, canceled, current, done, task, disk,
                 watch, missed, edits>>

(* run_and_wait returns.  A panic is resumed and an error returned, which  *)
(* ends the watch as well; otherwise a watched build registers its         *)
(* directories and waits for events.                                       *)
End ==
  /\ phase = "building" /\ \A b \in Builder : at[b].step = "gone"
  /\ phase' = IF opts.watch /\ ~failed THEN "idle" ELSE "ended"
  /\ watching' = (opts.watch /\ ~failed)
  /\ UNCHANGED <<scenario, graph, canceled, current, at, done, reported, task,
                 failed, disk, events, overflow, missed, printed, edits, faults>>

-------------------------------------------------------------------------------
(* The world outside, and the watch.                                       *)

(* The inputs of t are newer than every output; the watch has an event for *)
(* it, or it is not there yet.  The graph is then g.                       *)
Noticed(t, g) ==
  /\ edits < scenario.edits /\ edits' = edits + 1 /\ phase # "ended"
  /\ later' = later \cup {<<t, d>> : d \in Task}
  /\ missed' = Loose(g) \cup missed
                \cup (IF watching \/ phase = "start" THEN {} ELSE {t})

Touched(ts) == events' = IF watching /\ ~overflow THEN events \cup ts ELSE events

(* A source of t is saved: with other text, or with the same.              *)
Edit(t) ==
  /\ Noticed(t, graph) /\ Touched({t})
  /\ src' \in {[src EXCEPT ![t] = [ver |-> edits + 1, bad |-> bad, dts |-> dts]] :
                 bad \in BOOLEAN, dts \in {src[t].dts, edits + 1}} \cup {src}
  /\ UNCHANGED <<scenario, graph, phase, canceled, current, at, done, reported,
                 task, failed, built, newdts, overflow, watching, printed, faults>>

(* The context is canceled.                                                *)
Cancel ==
  /\ ~canceled /\ canceled' = TRUE
  /\ scenario.cancel /\ ~opts.watch /\ phase \in {"start", "building"}
  /\ UNCHANGED <<scenario, graph, phase, current, at, done, reported, task, failed,
                 disk, watch, missed, printed, edits, faults>>

(* Events are lost, and the watch says so.                                 *)
Overflow ==
  /\ watching /\ ~overflow /\ faults < scenario.faults /\ phase # "ended"
  /\ overflow' = TRUE /\ events' = {} /\ faults' = faults + 1
  /\ UNCHANGED <<scenario, graph, phase, canceled, current, at, done, reported,
                 task, failed, disk, watching, missed, printed, edits>>

(* The tasks of a cycle: reset_status for a task with an event, and a new  *)
(* task for one that is dirty or was not in the graph.                     *)
Reset(reset, new) ==
  /\ status'  = [t \in Task |-> IF t \in reset \cup new THEN "none" ELSE status[t]]
  /\ blame'   = [t \in Task |-> IF t \in reset \cup new THEN Nil ELSE blame[t]]
  /\ pending' = [t \in Task |-> pending[t] \/ t \in reset \cup new]
  /\ initial' = [t \in Task |-> initial[t] /\ t \notin new]

(* do_cycle: the events are drained, the tasks they touch are reset, and   *)
(* the graph is built.  After an overflow every task is dirty.             *)
DoCycle ==
  /\ phase = "idle" /\ (events # {} \/ overflow)
  /\ events' = {} /\ overflow' = FALSE
  /\ IF overflow THEN Reset({}, Task) ELSE Reset(events \cap Range(graph.order), {})
  /\ IF overflow \/ events \cap Range(graph.order) # {}
     THEN Begin(graph)
     ELSE UNCHANGED <<phase, current, at, done, reported, failed, printed>>
  /\ UNCHANGED <<scenario, graph, canceled, disk, watching, missed, edits, faults>>

(* A configuration is saved, with other references, and its cycle runs:    *)
(* generate_graph_reusing_old_tasks keeps every other task of the graph,   *)
(* and the configuration counts as an input that changed.                  *)
Reconfigure(t, g) ==
  /\ phase = "idle" /\ t \in Range(graph.order) /\ ~overflow
  /\ \A x \in Task \ {t} : g.refs[x] = graph.refs[x]
  /\ g.refs[t] # graph.refs[t]
  /\ Noticed(t, g)
  /\ src' = [src EXCEPT ![t].ver = edits + 1]
  /\ graph' = g /\ events' = {}
  /\ Reset(events \cap Range(graph.order),
           {t} \cup (Task \ Range(graph.order)))
  /\ Begin(g)
  /\ UNCHANGED <<scenario, canceled, built, newdts, overflow, watching, faults>>

Build(b) == \/ Fetch(b) \/ Enter(b) \/ Report(b)
            \/ \E t \in Task : FinishUnbuilt(b, t) \/ Compile(b, t) \/ Fail(b, t)

Next ==
  \/ Start \/ End \/ Cancel \/ Overflow \/ DoCycle
  \/ \E b \in Builder : Build(b)
  \/ \E t \in Task : Edit(t) \/ \E g \in Graphs : Reconfigure(t, g)

Spec == Init /\ [][Next]_vars

(* Every builder is a thread that runs on, and so does the thread that     *)
(* waits for them; nothing obliges an edit or an event to come.            *)
FairSpec == Spec /\ WF_vars(Start) /\ WF_vars(End)
                 /\ \A b \in Builder : WF_vars(Build(b))

-------------------------------------------------------------------------------
(* Type correctness of the build and of what it reads and writes.          *)
Status == {"none", "uptodate", "types", "newer", "upstream", "error"}
Source == [ver : Nat, bad : BOOLEAN, dts : Nat]
Info   == [ver : Nat \cup {Nil}, bad : BOOLEAN, dts : Nat, ups : [Task -> Nat]]
Inputs == [src : Source, ups : [Task -> Nat]]
Step   == {"gone", "fetch", "wait", "build", "report"}
Entry  == [step : Step, pos : Nat,
           does : Status \cup {"", "cancel", "clean", "replay"},
           blame : Task \cup {Nil}, read : {Nil} \cup Inputs]

TypeOK ==
  /\ graph \in Graphs
  /\ phase \in {"start", "building", "idle", "ended"}
  /\ current \in Nat \ {0} /\ edits \in Nat
  /\ at \in [Builder -> Entry]
  /\ done \subseteq Task /\ reported \subseteq Task
  /\ status \in [Task -> Status] /\ blame \in [Task -> Task \cup {Nil}]
  /\ pending \in [Task -> BOOLEAN] /\ initial \in [Task -> BOOLEAN]
  /\ src \in [Task -> Source] /\ built \in [Task -> Info]

(* No step of a cycle touches a task that is done in it: a task is built   *)
(* once, from upstream tasks that are final, and the marks an upstream     *)
(* task leaves (update_downstream) never come after the task was built.    *)
(* This is what the waits of the closure in build_or_clean are for.        *)
Final(t) ==
  /\ status'[t] = status[t] /\ pending'[t] = pending[t] /\ built'[t] = built[t]
  /\ t \in done'
DoneIsFinal == [][phase = "building" => \A t \in done : Final(t)]_vars

(* The reports follow the order of the graph without a gap, whichever      *)
(* builder finishes first and whatever fails ("A reporter cannot overtake  *)
(* the preceding graph entry, even when that entry failed").               *)
InOrder ==
  phase = "building" =>
    /\ \A i, j \in DOMAIN graph.order :
         i < j /\ graph.order[j] \in reported => graph.order[i] \in reported
    /\ \A i, j \in DOMAIN printed : \A k, l \in DOMAIN graph.order :
         /\ i < j /\ printed[i] = graph.order[k] /\ printed[j] = graph.order[l]
         => k < l
    /\ reported \subseteq done

(* Of the builders that have not left, one can always go on: the one with  *)
(* the lowest position is waited for by the others and waits for nobody.   *)
CanGoOn(b) ==
  \/ at[b].step \in {"fetch", "build"}
  \/ at[b].step = "wait" /\ Released(graph.order[at[b].pos])
  \/ at[b].step = "report" /\ MayReport(b)
NobodyIsStuck ==
  (\E b \in Builder : at[b].step # "gone") => \E b \in Builder : CanGoOn(b)

(* A build comes to its end, whatever the graph, the number of builders,   *)
(* the errors and the panics: nobody waits for a task or a report that     *)
(* does not come.                                                          *)
BuildEnds == phase = "building" ~> phase # "building"

(* What a watched build promises when it is quiet: the outputs of every    *)
(* project come from its present sources and from the present declarations *)
(* of the projects it refers to.  Edits that the watch cannot notice are   *)
(* excepted, and so are projects that were not compiled with an edge for   *)
(* each of their references since a graph left one out (see missed), and   *)
(* --stopBuildOnErrors.                                                    *)
UsesPresent(t) ==
  /\ built[t].ver = src[t].ver
  /\ \A u \in Referred(graph, t) : built[t].ups[u] = built[u].dts
Settled ==
  (phase = "idle" /\ events = {} /\ ~overflow /\ ~graph.errors /\ ~opts.stop)
    => \A t \in Range(graph.order) :
         t \in missed \/ UsesPresent(t)

(* --stopBuildOnErrors, in one build: a project is skipped exactly when a  *)
(* project upstream of it, along an edge of the graph, has errors or was   *)
(* skipped itself, the project it blames is one of these, and every other  *)
(* project is built.                                                       *)
Unfit(t) == status[t] \in {"error", "upstream"}
SkippedForAReason ==
  (phase = "ended" /\ ~opts.watch /\ ~opts.clean /\ opts.stop /\ ~failed
     /\ ~canceled /\ ~graph.errors)
    => \A t \in Range(graph.order) :
         /\ status[t] = "upstream" <=> \E u \in Up(t) : Unfit(u)
         /\ status[t] = "upstream" => Unfit(blame[t]) /\ blame[t] \in Up(t)
         /\ status[t] # "upstream" => built[t].ver # Nil
===============================================================================
