------------------------------ MODULE Session ------------------------------
(***************************************************************************)
(* A project session (crates/tsr_project/src/session.rs): notifications    *)
(* collect in pending, an update takes them all, builds the next snapshot  *)
(* and publishes it or puts them back; debounced timers                    *)
(* (session/timers.rs) start updates on background threads (background.rs),*)
(* and close ends all of it.                                               *)
(*                                                                         *)
(* A thread is the list of steps it has to do, each of them one section    *)
(* under one lock.  A timer that fires is a thread named by its kind and   *)
(* epoch.  What a build does is abstracted to its outcome, and a snapshot  *)
(* to the changes and the option it was built from.                        *)
(***************************************************************************)
EXTENDS Naturals, Sequences, FiniteSets

CONSTANTS Thread, File, Nil,
          Does,       \* the operations each thread calls
          Faults,     \* how a build may fail: "error", "panic"
          MaxCalls,   \* bound on the calls of all threads
          MaxFires    \* bound on the timers that fire

Kind == {"update", "idle", "refresh"}
Timer == Kind \X Nat      \* the kind and the epoch of a timer, and of its thread
Change == [n : Nat, kind : {"open", "change", "close", "watch"}, file : File, asks : BOOLEAN]
Pending == [changes : Seq(Change), inferred : Nat \cup {Nil}]
Snapshot == [changes : Seq(Nat), inferred : Nat]

ASSUME SessionAssumption ==
    /\ Nil \notin Thread \cup File \cup Nat \cup Timer \cup Pending \cup Snapshot
    /\ Thread \cap Timer = {}
    /\ Faults \subseteq {"error", "panic"}
    /\ MaxCalls \in Nat /\ MaxFires \in Nat
(* Runtime, which alone applies inferred options, does so with &mut self. *)
ASSUME OneApplier ==
    \A t, u \in Thread : "apply" \in Does[t] /\ "apply" \in Does[u] => t = u

VARIABLES
    snapshot,   \* Nil when closed, or the changes and the option published
    readers,    \* threads that hold the snapshot's lock for reading
    update,     \* who holds the update lock
    pending,    \* Pending: changes and the inferred options
    taken,      \* PendingTransaction.pending of the holder of the update lock
    slot,       \* Timers.slots
    token,      \* whether Timers.token is cancelled
    queue,      \* background Queue: closed, active and the number of panics kept
    armed,      \* timers the clock will fire
    todo,       \* the steps each thread has to do
    live,       \* refreshes delivered and not cancelled
    count,      \* calls made, timers fired, changes and options admitted
    excused,    \* history: pending changes that a failed update put back
    acked,      \* history: options whose call returned Ok
    ends        \* history: whether Closed was sent, and an event after it

work == <<pending, taken>>
timers == <<slot, token, armed, live>>
history == <<excused, acked, ends>>
vars == <<snapshot, readers, update, work, timers, queue, todo, count, history>>

Empty == [changes |-> <<>>, inferred |-> Nil]
Task(p) == p \notin Thread

Init ==
    /\ snapshot = [changes |-> <<>>, inferred |-> 0]
    /\ readers = {} /\ update = Nil
    /\ pending = Empty /\ taken = Nil
    /\ slot = [k \in Kind |-> [epoch |-> 0, timer |-> Nil, delivery |-> Nil]]
    /\ token = FALSE
    /\ queue = [closed |-> FALSE, active |-> 0, panics |-> 0]
    /\ armed = {} /\ live = {}
    /\ todo = [t \in Thread |-> <<>>]
    /\ count = [calls |-> 0, fires |-> 0, changes |-> 0, options |-> 0]
    /\ excused = {} /\ acked = {}
    /\ ends = [sent |-> FALSE, late |-> FALSE]

At(p, op) == todo[p] # <<>> /\ Head(todo[p])[1] = op
Arg(p, i) == Head(todo[p])[i]
Then(p, steps) == todo' = [todo EXCEPT ![p] = steps \o Tail(@)]
(* An update failed: its caller, if it applies options, takes them back. *)
Failing(p, steps) ==
    todo' = [todo EXCEPT ![p] =
        steps \o [i \in 1 .. Len(@) - 1 |->
                    IF @[i + 1][1] = "settle" THEN <<"rollback", @[i + 1][2], @[i + 1][3]>> ELSE @[i + 1]]]
Return(p) == todo' = [todo EXCEPT ![p] = <<>>]
Gone(p) == todo' = [q \in DOMAIN todo \ {p} |-> todo[q]]
----------------------------------------------------------------------------
(* Calls *)

Updating(timer) == << <<"look", timer>> >>

(* Session::close *)
Closing == << <<"lock">>, <<"shut">>, <<"clear">>, <<"stop">>, <<"cancel", "update">>,
              <<"cancel", "idle">>, <<"cancel", "refresh">>, <<"unlock">>, <<"wait">>, <<"closed">> >>

Program(op, f) ==
    CASE op = "open"   -> << <<"enqueue", "open", f>> >> \o Updating(Nil)
      [] op = "change" -> << <<"enqueue", "change", f>> >>
      [] op = "close"  -> << <<"enqueue", "close", f>> >>
      [] op = "watch"  -> << <<"watched", f>> >>
      [] op = "flush"  -> Updating(Nil)
      [] op = "apply"  -> << <<"apply">> >> \o Updating(Nil)
      [] op = "shut"   -> Closing

Call(p, op, f) ==
    /\ todo[p] = <<>> /\ op \in Does[p] /\ count.calls < MaxCalls
    /\ todo' = [todo EXCEPT ![p] = Program(op, f)]
    /\ count' = [count EXCEPT !.calls = @ + 1]
    /\ UNCHANGED <<snapshot, readers, update, work, timers, queue, history>>
----------------------------------------------------------------------------
(* Notifications *)

Refused(p) ==
    /\ snapshot = Nil
    /\ Return(p)
    /\ UNCHANGED <<snapshot, readers, update, work, timers, queue, count, history>>

(* Session::enqueue reads the snapshot, and holds on to it until the change is
   pending; an edit starts or cancels the refresh of the diagnostics first. *)
Enqueue(p, mapped) ==
    /\ At(p, "enqueue")
    /\ \/ Refused(p)
       \/ /\ snapshot # Nil
          /\ readers' = readers \cup {p}
          /\ Then(p, (IF Arg(p, 2) # "change" THEN <<>>
                      ELSE << <<IF mapped THEN "schedule" ELSE "cancel", "refresh">> >>)
                     \o << <<"push", Arg(p, 2), Arg(p, 3)>>, <<"schedule", "idle">> >>
                     \o (IF Arg(p, 2) = "close" THEN << <<"schedule", "update">> >> ELSE <<>>))
          /\ UNCHANGED <<snapshot, update, work, timers, queue, count, history>>

Admit(kind, f, asks) ==
    /\ pending' = [pending EXCEPT !.changes =
                      Append(@, [n |-> count.changes + 1, kind |-> kind, file |-> f, asks |-> asks])]
    /\ count' = [count EXCEPT !.changes = @ + 1]

Push(p) ==
    /\ At(p, "push")
    /\ Admit(Arg(p, 2), Arg(p, 3), Arg(p, 2) = "close")
    /\ readers' = readers \ {p}
    /\ Then(p, <<>>)
    /\ UNCHANGED <<snapshot, update, taken, timers, queue, history>>

(* Session::did_change_watched_files holds the snapshot to its end. *)
Watched(p, relevant, config) ==
    /\ At(p, "watched")
    /\ \/ Refused(p)
       \/ /\ snapshot # Nil
          /\ Admit("watch", Arg(p, 2), config)
          /\ readers' = readers \cup {p}
          /\ Then(p, (IF relevant THEN << <<"schedule", "refresh">> >> ELSE <<>>)
                     \o (IF config THEN << <<"schedule", "update">> >> ELSE <<>>)
                     \o << <<"schedule", "idle">>, <<"unread">> >>)
          /\ UNCHANGED <<snapshot, update, taken, timers, queue, history>>

Unread(p) ==
    /\ At(p, "unread")
    /\ readers' = readers \ {p}
    /\ Then(p, <<>>)
    /\ UNCHANGED <<snapshot, update, work, timers, queue, count, history>>

(* Session::apply_inferred_options, before and after its update *)
Apply(p) ==
    /\ At(p, "apply")
    /\ \/ Refused(p)
       \/ /\ snapshot # Nil
          /\ count' = [count EXCEPT !.options = @ + 1]
          /\ pending' = [pending EXCEPT !.inferred = count.options + 1]
          /\ todo' = [todo EXCEPT ![p] =
                         Tail(@) \o << <<"settle", count.options + 1, pending.inferred>> >>]
          /\ UNCHANGED <<snapshot, readers, update, taken, timers, queue, history>>

Settle(p) ==
    /\ At(p, "settle")
    /\ acked' = acked \cup {Arg(p, 2)}
    /\ Then(p, <<>>)
    /\ UNCHANGED <<snapshot, readers, update, work, timers, queue, count, excused, ends>>

Rollback(p) ==
    /\ At(p, "rollback")
    /\ pending' = IF pending.inferred = Arg(p, 2) THEN [pending EXCEPT !.inferred = Arg(p, 3)] ELSE pending
    /\ Then(p, <<>>)
    /\ UNCHANGED <<snapshot, readers, update, taken, timers, queue, count, history>>
----------------------------------------------------------------------------
(* Timers *)

Matches(t) == ~token /\ slot[t[1]].epoch = t[2]

(* Mutant: the refresh that was delivered goes on. *)
Undisturbed(k) == live
Called(k) == live \ {slot[k].delivery}

(* A new epoch; the timer and the delivery of the old one end. *)
Renew(k, delivery, timer) ==
    /\ slot' = [slot EXCEPT ![k] = [epoch |-> @.epoch + 1, timer |-> Nil, delivery |-> delivery]]
    /\ live' = Called(k)
    /\ armed' = (armed \ {<<k, slot[k].timer>>}) \cup timer

Cancel(p) ==
    /\ At(p, "cancel")
    /\ Renew(Arg(p, 2), Nil, {})
    /\ Then(p, <<>>)
    /\ UNCHANGED <<snapshot, readers, update, work, token, queue, count, history>>

Schedule(p) ==
    /\ At(p, "schedule")
    /\ Then(p, IF token THEN <<>> ELSE << <<"arm", Arg(p, 2)>> >>)
    /\ UNCHANGED <<snapshot, readers, update, work, timers, queue, count, history>>

(* The clock has the timer before its slot has. *)
Arm(p) ==
    LET k == Arg(p, 2)
        e == slot[k].epoch + 1
    IN  /\ At(p, "arm")
        /\ Renew(k, IF k = "refresh" THEN e ELSE Nil, {<<k, e>>})
        /\ Then(p, << <<"store", k, e>> >>)
        /\ UNCHANGED <<snapshot, readers, update, work, token, queue, count, history>>

Store(p) ==
    LET t == <<Arg(p, 2), Arg(p, 3)>>
    IN  /\ At(p, "store")
        /\ IF Matches(t)
             THEN slot' = [slot EXCEPT ![t[1]].timer = t[2]] /\ UNCHANGED armed
             ELSE armed' = armed \ {t} /\ UNCHANGED slot
        /\ Then(p, <<>>)
        /\ UNCHANGED <<snapshot, readers, update, work, token, live, queue, count, history>>

(* The clock calls the callback of a timer. *)
Fire(t) ==
    /\ t \in armed /\ count.fires < MaxFires
    /\ armed' = armed \ {t}
    /\ todo' = [p \in DOMAIN todo \cup {t} |-> IF p = t THEN << <<"match">> >> ELSE todo[p]]
    /\ count' = [count EXCEPT !.fires = @ + 1]
    /\ UNCHANGED <<snapshot, readers, update, work, slot, token, live, queue, history>>

Match(t) ==
    /\ At(t, "match")
    /\ IF Matches(t) THEN Then(t, << <<"spawn">> >>) ELSE Gone(t)
    /\ UNCHANGED <<snapshot, readers, update, work, timers, queue, count, history>>
----------------------------------------------------------------------------
(* Background tasks *)

(* Queue::enqueue *)
Spawn(t) ==
    /\ At(t, "spawn")
    /\ IF queue.closed \/ token
         THEN Gone(t) /\ UNCHANGED queue
         ELSE /\ queue' = [queue EXCEPT !.active = @ + 1]
              /\ Then(t, << <<"run">> >>)
    /\ UNCHANGED <<snapshot, readers, update, work, timers, count, history>>

Run(t) ==
    /\ At(t, "run")
    /\ Then(t, (IF token THEN <<>>
                ELSE IF t[1] = "refresh" THEN << <<"deliver">> >>
                ELSE Updating(t)) \o << <<"finish", FALSE>> >>)
    /\ UNCHANGED <<snapshot, readers, update, work, timers, queue, count, history>>

(* DiagnosticsRefresh is sent under the slots' lock. *)
Deliver(t) ==
    /\ At(t, "deliver")
    /\ live' = IF Matches(t) THEN live \cup {slot[t[1]].delivery} ELSE live
    /\ ends' = [ends EXCEPT !.late = @ \/ (ends.sent /\ Matches(t))]
    /\ Then(t, <<>>)
    /\ UNCHANGED <<snapshot, readers, update, work, slot, token, armed, queue, count, excused, acked>>

Finish(t) ==
    /\ At(t, "finish")
    /\ queue' = [active |-> queue.active - 1, closed |-> queue.closed \/ Arg(t, 2),
                 panics |-> queue.panics + IF Arg(t, 2) THEN 1 ELSE 0]
    /\ Gone(t)
    /\ UNCHANGED <<snapshot, readers, update, work, timers, count, history>>
----------------------------------------------------------------------------
(* Session::update_snapshot *)

(* Mutant: the timer is cancelled after the changes were taken. *)
TakeFirst(t) == << <<"take", t>>, <<"cancel", "update">> >>
Begin(t) == << <<"cancel", "update">>, <<"take", t>> >>

(* The lock is taken, and the snapshot and the timer are looked at. *)
Look(p) ==
    LET t == Arg(p, 2)
    IN  /\ At(p, "look") /\ update = Nil
        /\ \/ snapshot = Nil /\ Failing(p, <<>>) /\ UNCHANGED update
           \/ snapshot # Nil /\ t # Nil /\ ~Matches(t) /\ Then(p, <<>>) /\ UNCHANGED update
           \/ snapshot # Nil /\ (t # Nil => Matches(t)) /\ Then(p, Begin(t)) /\ update' = p
        /\ UNCHANGED <<snapshot, readers, work, timers, queue, count, history>>

(* need: a requested document has no project that is up to date. *)
Take(p, need) ==
    LET t == Arg(p, 2)
        clean == t # Nil /\ t[1] = "idle"
    IN  /\ At(p, "take")
        /\ need => t = Nil
        /\ IF pending = Empty /\ ~need /\ ~clean
             THEN update' = Nil /\ Then(p, <<>>) /\ UNCHANGED work
             ELSE /\ taken' = pending /\ pending' = Empty
                  /\ Then(p, << <<"build">> >>)
                  /\ UNCHANGED update
        /\ UNCHANGED <<snapshot, readers, timers, queue, count, history>>

(* OverlayFs::process_changes asserts that "should see no changes after open",
   "should see no changes after close" and "can only process one file open
   event at a time". *)
Orderly(changes) ==
    \A i, j \in 1 .. Len(changes) :
        i < j => IF changes[i].file = changes[j].file
                   THEN /\ changes[i].kind # "open"
                        /\ ~(changes[i].kind = "close" /\ changes[j].kind = "change")
                   ELSE ~(changes[i].kind = "open" /\ changes[j].kind = "open")

Outcomes == IF Orderly(taken.changes) THEN {"ok"} \cup Faults ELSE {"panic"}

Build(p, outcome) ==
    /\ At(p, "build") /\ outcome \in Outcomes
    /\ CASE outcome = "ok" -> Then(p, << <<"publish">> >>)
         [] outcome = "error" -> Failing(p, << <<"restore">> >>)
         [] outcome = "panic" ->
              todo' = [todo EXCEPT ![p] = << <<"restore">> >> \o
                          (IF Task(p) THEN << <<"finish", TRUE>> >> ELSE <<>>)]
    /\ UNCHANGED <<snapshot, readers, update, work, timers, queue, count, history>>

Serials(changes) == [i \in 1 .. Len(changes) |-> changes[i].n]
Numbers(changes) == {changes[i].n : i \in 1 .. Len(changes)}

Publish(p) ==
    /\ At(p, "publish") /\ readers = {}
    /\ snapshot' = [changes |-> snapshot.changes \o Serials(taken.changes),
                    inferred |-> IF taken.inferred = Nil THEN snapshot.inferred ELSE taken.inferred]
    /\ taken' = Nil
    /\ excused' = excused \ Numbers(taken.changes)
    /\ Then(p, << <<"announce">> >>)
    /\ UNCHANGED <<readers, update, pending, timers, queue, count, acked, ends>>

Announce(p) ==
    /\ At(p, "announce")
    /\ ends' = [ends EXCEPT !.late = @ \/ ends.sent]
    /\ update' = Nil
    /\ Then(p, <<>>)
    /\ UNCHANGED <<snapshot, readers, work, timers, queue, count, excused, acked>>

(* Mutant: what failed goes behind what came in meanwhile. *)
Behind(old, new) == [changes |-> new.changes \o old.changes,
                     inferred |-> IF new.inferred = Nil THEN old.inferred ELSE new.inferred]
Merged(old, new) == [changes |-> old.changes \o new.changes,
                     inferred |-> IF new.inferred = Nil THEN old.inferred ELSE new.inferred]

(* PendingTransaction::drop, and the end of the update *)
Restore(p) ==
    /\ At(p, "restore")
    /\ pending' = Merged(taken, pending)
    /\ taken' = Nil
    /\ excused' = excused \cup Numbers(taken.changes)
    /\ update' = Nil
    /\ Then(p, <<>>)
    /\ UNCHANGED <<snapshot, readers, timers, queue, count, acked, ends>>
----------------------------------------------------------------------------
(* Session::close *)

Lock(p) ==
    /\ At(p, "lock") /\ update = Nil
    /\ update' = p
    /\ Then(p, <<>>)
    /\ UNCHANGED <<snapshot, readers, work, timers, queue, count, history>>

Shut(p) ==
    /\ At(p, "shut") /\ readers = {}
    /\ snapshot' = Nil
    /\ Then(p, <<>>)
    /\ UNCHANGED <<readers, update, work, timers, queue, count, history>>

Clear(p) ==
    /\ At(p, "clear")
    /\ pending' = Empty /\ excused' = {}
    /\ Then(p, <<>>)
    /\ UNCHANGED <<snapshot, readers, update, taken, timers, queue, count, acked, ends>>

Stop(p) ==
    /\ At(p, "stop")
    /\ token' = TRUE
    /\ Then(p, <<>>)
    /\ UNCHANGED <<snapshot, readers, update, work, slot, armed, live, queue, count, history>>

Unlock(p) ==
    /\ At(p, "unlock")
    /\ queue' = [queue EXCEPT !.closed = TRUE]
    /\ update' = Nil
    /\ Then(p, <<>>)
    /\ UNCHANGED <<snapshot, readers, work, timers, count, history>>

(* Mutant: close does not wait for the tasks. *)
Hurried == TRUE
Joined == queue.active = 0

(* Queue::wait resumes the panic of a task. *)
Wait(p) ==
    /\ At(p, "wait") /\ Joined
    /\ IF queue.panics = 0
         THEN Then(p, <<>>) /\ UNCHANGED queue
         ELSE Return(p) /\ queue' = [queue EXCEPT !.panics = @ - 1]
    /\ UNCHANGED <<snapshot, readers, update, work, timers, count, history>>

Closed(p) ==
    /\ At(p, "closed")
    /\ ends' = [ends EXCEPT !.sent = TRUE]
    /\ Then(p, <<>>)
    /\ UNCHANGED <<snapshot, readers, update, work, timers, queue, count, excused, acked>>
----------------------------------------------------------------------------
Notifying(p) ==
    \/ (\E mapped \in BOOLEAN : Enqueue(p, mapped))
    \/ (\E relevant, config \in BOOLEAN : Watched(p, relevant, config))
    \/ Push(p) \/ Unread(p) \/ Apply(p) \/ Settle(p) \/ Rollback(p)
Timing(p) == Cancel(p) \/ Schedule(p) \/ Arm(p) \/ Store(p)
Tasking(p) == Match(p) \/ Spawn(p) \/ Run(p) \/ Deliver(p) \/ Finish(p)
UpdatingStep(p) ==
    \/ Look(p) \/ Publish(p) \/ Announce(p) \/ Restore(p)
    \/ (\E need \in BOOLEAN : Take(p, need))
    \/ (\E outcome \in {"ok", "error", "panic"} : Build(p, outcome))
ClosingStep(p) == Lock(p) \/ Shut(p) \/ Clear(p) \/ Stop(p) \/ Unlock(p) \/ Wait(p) \/ Closed(p)

Rest == (\A p \in DOMAIN todo : todo[p] = <<>>) /\ UNCHANGED vars

Next ==
    \/ \E p \in Thread, op \in {"open", "change", "close", "watch", "flush", "apply", "shut"}, f \in File :
          Call(p, op, f)
    \/ \E t \in armed : Fire(t)
    \/ \E p \in DOMAIN todo :
          Notifying(p) \/ Timing(p) \/ Tasking(p) \/ UpdatingStep(p) \/ ClosingStep(p)
    \/ Rest

Spec == Init /\ [][Next]_vars
----------------------------------------------------------------------------
(* Properties *)

(* Every change that was admitted is in the snapshot, in the update under way
   or pending, once and in the order of admission, whatever failed updates put
   back while others came in. *)
NothingLost ==
    snapshot # Nil =>
        snapshot.changes
          \o (IF taken = Nil THEN <<>> ELSE Serials(taken.changes))
          \o Serials(pending.changes) = [n \in 1 .. count.changes |-> n]

Has(p, steps) == \E i \in 1 .. Len(todo[p]) : todo[p][i][1] \in steps /\ todo[p][i][2] = "update"
WillTake(p) == \E i \in 1 .. Len(todo[p]) : todo[p][i][1] = "take"
Current(p) == Task(p) /\ p[1] = "update" /\ slot["update"].epoch = p[2]

(* While the session is open, a pending change that asked for an update and that
   no failed update has put back has one coming: the update timer is set or being
   set, its task is on its way to the update, or an update that is under way has
   yet to take what is pending.  Excused are the changes a failed update put back
   (update_snapshot has cancelled the timer by then, and PendingTransaction::drop
   sets none: they wait for the next call), and all once the timers are closed. *)
UpdateIsComing ==
    \A i \in 1 .. Len(pending.changes) :
        LET c == pending.changes[i]
        IN  snapshot # Nil /\ c.asks /\ c.n \notin excused =>
              \/ <<"update", slot["update"].epoch>> \in armed
              \/ queue.closed
              \/ \E p \in DOMAIN todo :
                    \/ Has(p, {"schedule", "arm"})
                    \/ Current(p) /\ ~At(p, "finish")
                    \/ WillTake(p)

(* When Closed is sent the session is over: no task runs, nothing is pending,
   no timer is kept, every refresh that was delivered is cancelled, and Closed
   was the last event. *)
QuietAfterClose ==
    ends.sent => /\ snapshot = Nil /\ pending = Empty /\ taken = Nil
                 /\ queue.active = 0 /\ live = {} /\ ~ends.late
                 /\ \A k \in Kind : slot[k].timer = Nil

(* At most the last refresh that was asked for is delivered and not cancelled:
   an edit, another refresh or close cancels it, also when it waits for its
   receiver. *)
RefreshAgrees == live \subseteq {slot["refresh"].delivery}

(* "inferred-options changes publish before acknowledgement": a call that
   returned Ok finds its options, or later ones, in the snapshot, also when
   another update took them and failed. *)
OptionsAcknowledged ==
    \A o \in acked : snapshot # Nil => snapshot.inferred >= o

(* What was admitted arrives: changes, and options before they are
   acknowledged. *)
NothingForgotten == NothingLost /\ OptionsAcknowledged

(* The assertions of process_changes hold of every batch that is taken. *)
BatchesAreOrderly == taken # Nil => Orderly(taken.changes)
=============================================================================
