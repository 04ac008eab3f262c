-------------------------- MODULE CheckerScheduler --------------------------
(***************************************************************************)
(* Scheduling of a program's checkers over requests                        *)
(* (crates/tsr_project/src/scheduler.rs), on top of the checker pool of    *)
(* crates/tsr_project/src/lib.rs.                                          *)
(*                                                                         *)
(* A step is one critical section of the scheduler's state lock, of the    *)
(* pool's lock, or the code between two of them.  A member of Call is one  *)
(* acquisition together with the handle (ScheduledChecker) it returns and  *)
(* the drop of that handle.  A call makes at most one lease and at most    *)
(* one checker, so leases and checkers are named by the call that made     *)
(* them.  A request and its cancellable context are one thing here; a call *)
(* whose context cannot be cancelled has the request Nil.                  *)
(*                                                                         *)
(* The API takes its checker from the pool without asking the scheduler    *)
(* (crates/tsr_api/src/session/handles.rs).  A member of Direct is one     *)
(* such checkout and the checker it makes, if it makes one.                *)
(*                                                                         *)
(* Checker results are left out: of an operation the scheduler sees        *)
(* whether it was cancelled or panicked.                                   *)
(***************************************************************************)
EXTENDS Naturals, FiniteSets, FiniteSetsExt

CONSTANTS Thread, Call, Request, File,
          Direct,        \* the checkouts of the API
          Nil,
          Cleaner,       \* the threads of timers, which run cleanup()
          QuerySlots,    \* CheckerPool.query_slots
          Asks,          \* <<lifetime, request, file>>: what callers acquire
          Nests,         \* <<a, b>>: b is acquired inside an operation with lifetime a (or "init")
          Faults,        \* which of "error", "panic", "discard" occur
          IdleTimeout,
          MaxTime        \* bound on the clock

Lifetime == {"diagnostics", "temporary", "api"}
ASSUME AsksAssumption == Asks \subseteq Lifetime \X (Request \cup {Nil}) \X (File \cup {Nil})
ASSUME SlotsAssumption == QuerySlots \in Nat \ {0}
ASSUME TimeAssumption == IdleTimeout \in Nat \ {0} /\ MaxTime \in Nat

Diagnostics == 0
Api == QuerySlots + 1
Query == 1..QuerySlots
Slots == 0..Api

(* What Option::None stands beside, and the cells without a checker *)
Association == [index : Slots, serial : Nat, stored : BOOLEAN]
Arguments == [thread : Thread, life : Lifetime, ctx : Request \cup {Nil},
              file : File \cup {Nil}, outer : Call \cup {Nil}]
Checker == Call \cup Direct
ASSUME NilAssumption ==
    /\ Nil \notin Thread \cup Checker \cup Request \cup File \cup Cleaner \cup Nat
    /\ Nil \notin Association \cup Arguments \cup (Slots \X BOOLEAN)
    /\ Call \cap Cleaner = {} /\ Call \cap Direct = {}
    /\ {"new", "empty", "failed", "done"} \cap Checker = {}

VARIABLES
    slots,        \* State.slots
    requests,     \* State.requests: request -> association or Nil
    files,        \* State.files: file -> slot or Nil
    next_association,
    timing,       \* State.{discarded, timer_epoch, timer_deadline, timer}
    cell,         \* pool: the checker of a slot, "empty" or "failed"
    checkouts,    \* pool: checkouts of a slot
    active,       \* pool: the generation is not retired
    canceled,     \* checkers whose owner was_canceled()
    pins,         \* the cell of an API checkout: its checker, "empty" or "failed";
                  \* "new" before the checkout and "done" after its end
    pc,           \* where a call, or a timer's thread, is
    call,         \* a call's arguments, and its thread
    at,           \* the slot a call claimed, and whether to record the file
    handle,       \* the lease a call's handle shares
    chk,          \* the checker of the lease a call made
    op,           \* the thread inside an operation on a handle
    done,         \* cancelled requests
    wake,         \* calls whose wake-up function is registered
    clean,        \* registered cleanup functions: <<request, serial>>
    fired,        \* cleanup functions taken by a cancellation, yet to run
    firedWakes,   \* wake-up functions taken by a cancellation, yet to run
    armed,        \* the clock's timers: <<epoch, due>>
    local,        \* <<serial, Nil>> in register_cleanup, <<epoch, deadline>> in schedule_cleanup
    now

data == <<call, at, handle, chk, local>>
poolVars == <<cell, checkouts, active, canceled, pins>>
pending == <<done, fired, firedWakes>>
contextVars == <<pending, wake, clean>>
timerVars == <<timing, armed, now>>
tables == <<requests, files, next_association>>
vars == <<slots, tables, poolVars, pc, data, op, contextVars, timerVars>>

Actor == Call \cup Cleaner

FreeSlot == [initialized |-> FALSE, held |-> FALSE, initializing |-> Nil,
             request |-> Nil, lease |-> Nil, identity |-> Nil, released |-> Nil]

Init ==
    /\ slots = [i \in Slots |-> FreeSlot]
    /\ requests = [r \in Request |-> Nil]
    /\ files = [f \in File |-> Nil]
    /\ next_association = 0
    /\ timing = [discarded |-> FALSE, epoch |-> 0, deadline |-> Nil, timer |-> Nil]
    /\ cell = [i \in Slots |-> "empty"]
    /\ checkouts = [i \in Slots |-> 0]
    /\ active = TRUE
    /\ canceled = {}
    /\ pins = [x \in Direct |-> "new"]
    /\ pc = [a \in Actor |-> IF a \in Cleaner THEN "idle" ELSE "new"]
    /\ call = [c \in Call |-> Nil]
    /\ at = [c \in Call |-> Nil]
    /\ handle = [c \in Call |-> Nil]
    /\ chk = [c \in Call |-> Nil]
    /\ op = [c \in Call |-> Nil]
    /\ done = {} /\ wake = {} /\ clean = {} /\ fired = {} /\ firedWakes = {}
    /\ armed = {} /\ local = [a \in Actor |-> Nil] /\ now = 0

AtRest == {"new", "held", "done"}
(* A thread can act while a checker it initialises calls back into the host. *)
Busy(t) == \E c \in Call : pc[c] \notin AtRest \cup {"init"} /\ call[c].thread = t
Nested(c) == {d \in Call : pc[d] \notin {"new", "done"} /\ call[d].outer = c}
Innermost(t) == {c \in Call : pc[c] = "init" /\ call[c].thread = t /\ Nested(c) = {}}
Request_(c) == IF call[c].life = "api" THEN Nil ELSE call[c].ctx

SlotsOf(life) == IF life = "diagnostics" THEN {Diagnostics}
                 ELSE IF life = "temporary" THEN Query ELSE {Api}

(* Arc<Lease>: the handles that share lease l; the weak reference upgrades
   while there is one. *)
Holding == {"register", "register2", "held"}
Handles(l) == {c \in Call : handle[c] = l /\ pc[c] \in Holding}

(* Mutant: nobody is notified. *)
NotifiedNobody(f) == f
(* available.notify_all() *)
Notified(f) == [a \in Actor |-> IF f[a] = "asleep" THEN "select" ELSE f[a]]
Goto(a, p) == [pc EXCEPT ![a] = p]

(* Association::drop stops the cleanup function it has stored. *)
Stored(R) == {<<r, requests[r].serial>> : r \in {q \in R : requests[q] # Nil /\ requests[q].stored}}
Drop(R) == /\ requests' = [r \in Request |-> IF r \in R THEN Nil ELSE requests[r]]
           /\ clean' = clean \ Stored(R)
----------------------------------------------------------------------------
(* acquire *)

(* Threads acquire with no handle in hand, again for the same request, or
   from inside an operation. *)
MayAcquire(t, life, r) ==
    /\ ~Busy(t)
    /\ \A d \in Call :
          call[d] # Nil /\ call[d].thread = t =>
              \/ pc[d] \notin {"held", "init"}
              \/ pc[d] = "init" /\ <<"init", life>> \in Nests
              \/ op[d] = t /\ <<call[d].life, life>> \in Nests
              \/ r # Nil /\ call[d].ctx = r /\ call[d].life = life /\ life # "api"

(* Registers the wake-up function; a done context runs it at once. *)
StartAcquire(c, t, life, r, f) ==
    /\ pc[c] = "new"
    /\ MayAcquire(t, life, r)
    /\ \E o \in IF Innermost(t) = {} THEN {Nil} ELSE Innermost(t) :
          call' = [call EXCEPT ![c] =
                     [thread |-> t, life |-> life, ctx |-> r, file |-> f, outer |-> o]]
    /\ wake' = IF r \in Request \ done THEN wake \cup {c} ELSE wake
    /\ pc' = LET p == Goto(c, "select") IN IF r \in done THEN Notified(p) ELSE p
    /\ UNCHANGED <<slots, tables, poolVars, at, handle, chk, local, op, pending, clean,
                   timerVars>>

(* A return from acquire drops the Stop guard of the wake-up function. *)
Return(c, p) == /\ pc' = Goto(c, p)
                /\ wake' = wake \ {c}

(* The slot the request's association offers, and what it makes of the call. *)
Associated(c) == LET r == Request_(c) IN IF r = Nil THEN Nil ELSE requests[r]
Matches(c) == /\ Associated(c) # Nil
              /\ (call[c].life = "diagnostics") = (Associated(c).index = Diagnostics)
(* Mutant: a slot the request was associated with earlier is taken for its own. *)
MineStale(c) == Matches(c) /\ slots[Associated(c).index].initialized
                           /\ slots[Associated(c).index].held
Mine(c) == LET s == slots[Associated(c).index]
           IN  Matches(c) /\ s.initialized /\ s.request = Request_(c) /\ s.held
Shares(c) == Mine(c) /\ Handles(slots[Associated(c).index].lease) # {}
Finishing(c) == Mine(c) /\ ~Shares(c)

Warm == {i \in Slots : slots[i].initialized /\ ~slots[i].held}

(* The slot to claim and whether to record the file with it, or Nil: the
   request's own slot, then the file's, then one with a checker, then any. *)
Candidate(c) ==
    LET life == call[c].life
        own == IF Matches(c) THEN {Associated(c).index} \cap Warm ELSE {}
        affine == IF life = "temporary" /\ call[c].file # Nil
                    THEN {files[call[c].file]} \cap Warm ELSE {}
        warm == SlotsOf(life) \cap Warm
        free == {i \in SlotsOf(life) : ~slots[i].held}
    IN  IF own # {} THEN <<Min(own), FALSE>>
        ELSE IF Finishing(c) THEN Nil
        ELSE IF affine # {} THEN <<Min(affine), FALSE>>
        ELSE IF warm # {} THEN <<Min(warm), life = "temporary">>
        ELSE IF free # {} THEN <<Min(free), life = "temporary">>
        ELSE Nil

(* The thread itself stands in the way of the call. *)
Reentrant(c) ==
    LET t == call[c].thread
        mine == {i \in Slots : \/ slots[i].initializing = t
                               \/ \E d \in Call : op[d] = t /\ chk[handle[d]] = slots[i].identity}
    IN  \/ Finishing(c) /\ slots[Associated(c).index].initializing = t
        \/ Candidate(c) = Nil /\ SlotsOf(call[c].life) \cap mine # {}

Refused(c) == ~active \/ call[c].ctx \in done

SelectRefused(c) ==
    /\ pc[c] = "select"
    /\ Refused(c)
    /\ Return(c, "done")
    /\ UNCHANGED <<slots, tables, poolVars, data, op, pending, clean, timerVars>>

SelectShared(c) ==
    /\ pc[c] = "select"
    /\ ~Refused(c) /\ Shares(c)
    /\ handle' = [handle EXCEPT ![c] = slots[Associated(c).index].lease]
    /\ Return(c, "held")
    /\ UNCHANGED <<slots, tables, poolVars, call, at, chk, local, op, pending, clean,
                   timerVars>>

(* Going on from here first forgets an association of the other kind. *)
Mismatched(c) == IF Associated(c) # Nil /\ ~Matches(c) THEN {Request_(c)} ELSE {}

SelectClaim(c) ==
    /\ pc[c] = "select"
    /\ ~Refused(c) /\ ~Shares(c) /\ ~Reentrant(c)
    /\ Candidate(c) # Nil
    /\ LET i == Candidate(c)[1]
       IN  /\ slots' = [slots EXCEPT ![i].held = TRUE,
                                     ![i].initializing = call[c].thread,
                                     ![i].request = Request_(c)]
           /\ at' = [at EXCEPT ![c] = Candidate(c)]
    /\ Drop(Mismatched(c))
    /\ pc' = Goto(c, "pool")
    /\ UNCHANGED <<files, next_association, poolVars, call, handle, chk, local, op,
                   pending, wake, timerVars>>

SelectReentry(c) ==
    /\ pc[c] = "select"
    /\ ~Refused(c) /\ ~Shares(c) /\ Reentrant(c)
    /\ Drop(Mismatched(c))
    /\ Return(c, "done")
    /\ UNCHANGED <<slots, files, next_association, poolVars, data, op, pending,
                   timerVars>>

SelectWait(c) ==
    /\ pc[c] = "select"
    /\ ~Refused(c) /\ ~Shares(c) /\ ~Reentrant(c)
    /\ Candidate(c) = Nil
    /\ Drop(Mismatched(c))
    /\ pc' = Goto(c, "asleep")
    /\ UNCHANGED <<slots, files, next_association, poolVars, data, op, pending, wake,
                   timerVars>>

(* Condvar::wait may return without a notification. *)
SpuriousWake(c) ==
    /\ pc[c] = "asleep"
    /\ pc' = Goto(c, "select")
    /\ UNCHANGED <<slots, tables, poolVars, data, op, contextVars, timerVars>>
----------------------------------------------------------------------------
(* CheckerPool::acquire, for the slot the call reserved *)

Slot(c) == at[c][1]

PoolEnter(c) ==
    /\ pc[c] = "pool"
    /\ IF active THEN /\ checkouts' = [checkouts EXCEPT ![Slot(c)] = @ + 1]
                      /\ pc' = Goto(c, "init")
                 ELSE /\ pc' = Goto(c, "unreserve")
                      /\ UNCHANGED checkouts
    /\ UNCHANGED <<slots, tables, cell, active, canceled, pins, data, op, contextVars,
                   timerVars>>

(* What a cell gets, everyone who waits for it gets. *)
Fill(i, v) == /\ cell' = [cell EXCEPT ![i] = v]
              /\ pins' = [x \in Direct |-> IF i = Api /\ pins[x] = "empty" THEN v ELSE pins[x]]

(* OnceLock::get_or_init, of an empty cell, by the maker of a checker.  A
   failure is stored; a panic stores nothing but retires the generation. *)
Make(i, maker, outcome) ==
    /\ cell[i] = "empty"
    /\ \/ (~active \/ outcome = "error") /\ Fill(i, "failed") /\ UNCHANGED active
       \/ active /\ outcome = "panic" /\ active' = FALSE /\ UNCHANGED <<cell, pins>>
       \/ active /\ outcome = "ok" /\ Fill(i, maker) /\ UNCHANGED active

Initialize(c, outcome) ==
    /\ pc[c] = "init" /\ Nested(c) = {}
    /\ \/ cell[Slot(c)] # "empty" /\ outcome = "ok" /\ UNCHANGED <<cell, active, pins>>
       \/ Make(Slot(c), c, outcome)
    /\ pc' = Goto(c, "validate")
    /\ UNCHANGED <<slots, tables, checkouts, canceled, data, op, contextVars,
                   timerVars>>

(* A complete checker of a live generation is issued; otherwise the pool's
   reservation is dropped. *)
Validate(c) ==
    /\ pc[c] = "validate"
    /\ IF active /\ cell[Slot(c)] \in Checker
         THEN /\ chk' = [chk EXCEPT ![c] = cell[Slot(c)]]
              /\ pc' = Goto(c, "publish")
              /\ UNCHANGED checkouts
         ELSE /\ checkouts' = [checkouts EXCEPT ![Slot(c)] = @ - 1]
              /\ pc' = Goto(c, "unreserve")
              /\ UNCHANGED chk
    /\ UNCHANGED <<slots, tables, cell, active, canceled, pins, call, at, handle, local,
                   op, contextVars, timerVars>>

(* Reservation::drop, still armed *)
Unreserve(c) ==
    /\ pc[c] = "unreserve"
    /\ slots' = [slots EXCEPT ![Slot(c)].held = FALSE, ![Slot(c)].initializing = Nil]
    /\ pc' = Notified(Goto(c, "done"))
    /\ wake' = wake \ {c}
    /\ UNCHANGED <<tables, poolVars, data, op, pending, clean, timerVars>>

(* The rest of acquire: the lease is visible to nested acquisitions, the file
   and the request are associated with the slot. *)
Publish(c) ==
    LET i == Slot(c)
        r == Request_(c)
        register == r # Nil /\ requests[r] = Nil
    IN  /\ pc[c] = "publish"
        /\ slots' = [slots EXCEPT ![i].initialized = TRUE, ![i].identity = chk[c],
                                  ![i].initializing = Nil, ![i].lease = c]
        /\ files' = IF call[c].file # Nil /\ at[c][2]
                      THEN [files EXCEPT ![call[c].file] = i] ELSE files
        /\ requests' = IF register
                         THEN [requests EXCEPT ![r] = [index |-> i, serial |-> next_association,
                                                       stored |-> FALSE]]
                         ELSE requests
        /\ next_association' = IF register THEN next_association + 1 ELSE next_association
        /\ local' = [local EXCEPT ![c] = <<next_association, Nil>>]
        /\ handle' = [handle EXCEPT ![c] = c]
        /\ pc' = Notified(Goto(c, IF register THEN "register" ELSE "held"))
        /\ wake' = IF register THEN wake ELSE wake \ {c}
        /\ UNCHANGED <<poolVars, call, at, chk, op, pending, clean, timerVars>>

(* register_cleanup: registers the function that forgets association s of r,
   and stores its stop handle with the association, if that is still there. *)

(* Mutant: whatever association the request has is taken for the current one. *)
CurrentAny(r, s) == requests[r] # Nil
Current(r, s) == requests[r] # Nil /\ requests[r].serial = s

Register(c) ==
    LET r == Request_(c)
    IN  /\ pc[c] = "register"
        /\ IF r \in done
             THEN /\ requests' = IF Current(r, local[c][1]) THEN [requests EXCEPT ![r] = Nil]
                                                         ELSE requests
                  /\ UNCHANGED clean
             ELSE /\ clean' = clean \cup {<<r, local[c][1]>>}
                  /\ UNCHANGED requests
        /\ pc' = Goto(c, "register2")
        /\ UNCHANGED <<slots, files, next_association, poolVars, data, op, pending,
                       wake, timerVars>>

RegisterStop(c) ==
    LET r == Request_(c)
    IN  /\ pc[c] = "register2"
        /\ IF Current(r, local[c][1])
             THEN /\ requests' = [requests EXCEPT ![r].stored = TRUE]
                  /\ UNCHANGED clean
             ELSE /\ clean' = clean \ {<<r, local[c][1]>>}
                  /\ UNCHANGED requests
        /\ Return(c, "held")
        /\ UNCHANGED <<slots, files, next_association, poolVars, data, op, pending,
                       timerVars>>

----------------------------------------------------------------------------
(* Cancellation of a request's context (crates/tsr_ipc/src/context.rs): the
   registered functions are taken first, and then run one by one. *)
Cancel(r) ==
    /\ r \notin done
    /\ done' = done \cup {r}
    /\ fired' = fired \cup {x \in clean : x[1] = r}
    /\ clean' = {x \in clean : x[1] # r}
    /\ firedWakes' = firedWakes \cup {c \in wake : call[c].ctx = r}
    /\ wake' = {c \in wake : call[c].ctx # r}
    /\ UNCHANGED <<slots, tables, poolVars, pc, data, op, timerVars>>

RunCleanup(r, s) ==
    /\ <<r, s>> \in fired
    /\ fired' = fired \ {<<r, s>>}
    /\ requests' = IF Current(r, s) THEN [requests EXCEPT ![r] = Nil] ELSE requests
    /\ UNCHANGED <<slots, files, next_association, poolVars, pc, data, op, done,
                   firedWakes, wake, clean, timerVars>>

RunWake(c) ==
    /\ c \in firedWakes
    /\ firedWakes' = firedWakes \ {c}
    /\ pc' = Notified(pc)
    /\ UNCHANGED <<slots, tables, poolVars, data, op, done, fired, wake, clean,
                   timerVars>>

----------------------------------------------------------------------------
(* The use of a handle: CheckerOwner::operation.  One operation at a time runs
   on a checker (its lease has a permit). *)
BeginOperation(c) ==
    /\ pc[c] = "held" /\ op[c] = Nil
    /\ ~Busy(call[c].thread)
    /\ active
    /\ \A d \in Call : op[d] # Nil => chk[handle[d]] # chk[handle[c]]
    /\ op' = [op EXCEPT ![c] = call[c].thread]
    /\ UNCHANGED <<slots, tables, poolVars, pc, data, contextVars, timerVars>>

(* The operation's lease is dropped.  A cancelled check marks its checker; a
   panic retires the generation. *)
EndOperation(c, outcome) ==
    /\ op[c] # Nil
    /\ ~Busy(call[c].thread)
    /\ op' = [op EXCEPT ![c] = Nil]
    /\ outcome = "cancel" => call[c].ctx \in done
    /\ canceled' = IF outcome = "cancel" THEN canceled \cup {chk[handle[c]]} ELSE canceled
    /\ active' = (active /\ outcome # "panic")
    /\ UNCHANGED <<slots, tables, cell, checkouts, pins, pc, data, contextVars, timerVars>>

Last(c) == Handles(handle[c]) = {c}

(* Dropping a handle; the last one of a lease releases the slot. *)
DropHandle(c) ==
    /\ pc[c] = "held" /\ op[c] = Nil
    /\ ~Busy(call[c].thread)
    /\ pc' = Goto(c, IF Last(c) THEN "dispose" ELSE "done")
    /\ UNCHANGED <<slots, tables, poolVars, data, op, contextVars, timerVars>>

(* Mutants: cancellation is not noticed, or the cancelled checker stays in
   the pool. *)
SpoiledNever(c) == FALSE
DisposedNot(c) == cell

(* PooledChecker::drop, in release(): a cancelled checker leaves the pool
   first, then the checkout is returned. *)
Spoiled(c) == chk[handle[c]] \in canceled
Disposed(c) == LET i == Slot(handle[c])
               IN  IF Spoiled(c) /\ cell[i] = chk[handle[c]]
                     THEN [cell EXCEPT ![i] = "empty"] ELSE cell
Returned(i) == [checkouts EXCEPT ![i] = @ - 1]

ReleaseDispose(c) ==
    /\ pc[c] = "dispose"
    /\ cell' = Disposed(c)
    /\ pc' = Goto(c, "return")
    /\ UNCHANGED <<slots, tables, checkouts, active, canceled, pins, data, op,
                   contextVars, timerVars>>

ReleaseReturn(c) ==
    /\ pc[c] = "return"
    /\ checkouts' = Returned(Slot(handle[c]))
    /\ pc' = Goto(c, "release")
    /\ UNCHANGED <<slots, tables, cell, active, canceled, pins, data, op, contextVars,
                   timerVars>>

FilesWithout(I) == [f \in File |-> IF files[f] \in I THEN Nil ELSE files[f]]

(* The slots I and every association with them are forgotten. *)
Reset(I) ==
    /\ slots' = [i \in Slots |-> IF i \in I THEN FreeSlot ELSE slots[i]]
    /\ files' = FilesWithout(I)
    /\ Drop({r \in Request : requests[r] # Nil /\ requests[r].index \in I})

ReleaseState(c) ==
    LET i == Slot(handle[c])
    IN  /\ pc[c] = "release"
        /\ IF Spoiled(c)
             THEN Reset({i})
             ELSE /\ slots' = [slots EXCEPT ![i].held = FALSE, ![i].request = Nil,
                                            ![i].released = now]
                  /\ UNCHANGED <<requests, files, clean>>
        /\ pc' = Notified(Goto(c, "schedule"))
        /\ UNCHANGED <<next_association, poolVars, data, op, pending, wake, timerVars>>

----------------------------------------------------------------------------
(* CheckerPool::acquire by the API, and the drop of its PooledChecker.  Many
   checkouts share the checker of the API's slot, with or without a lease. *)

Scheduled == <<slots, tables, pc, data, op, contextVars, timerVars>>

Pin(x) ==
    /\ pins[x] = "new"
    /\ IF active THEN /\ checkouts' = [checkouts EXCEPT ![Api] = @ + 1]
                      /\ pins' = [pins EXCEPT ![x] = cell[Api]]
                 ELSE /\ pins' = [pins EXCEPT ![x] = "done"]
                      /\ UNCHANGED checkouts
    /\ UNCHANGED <<Scheduled, cell, active, canceled>>

(* The OnceLock is free unless a call makes a checker and has called back. *)
PinInitialize(x, outcome) ==
    /\ pins[x] = "empty"
    /\ \A c \in Call : pc[c] = "init" /\ Slot(c) = Api => Nested(c) = {}
    /\ Make(Api, x, outcome)
    /\ UNCHANGED <<Scheduled, checkouts, canceled>>

(* The end of a checkout: its initialiser panicked or failed, or the generation
   is retired by the time it is validated. *)
PinFails(x) ==
    /\ pins[x] \in {"empty", "failed"} \cup Checker
    /\ ~active \/ pins[x] = "failed"
    /\ checkouts' = Returned(Api)
    /\ pins' = [pins EXCEPT ![x] = "done"]
    /\ UNCHANGED <<Scheduled, cell, active, canceled>>

(* An operation of the API panics and retires the generation. *)
PinPanics(x) ==
    /\ "panic" \in Faults
    /\ pins[x] \in Checker
    /\ active /\ active' = FALSE
    /\ UNCHANGED <<Scheduled, cell, checkouts, canceled, pins>>

(* PooledChecker::drop; nobody looks at the count between its two sections. *)
Unpin(x) ==
    /\ pins[x] \in Checker
    /\ cell' = IF pins[x] \in canceled /\ cell[Api] = pins[x]
                 THEN [cell EXCEPT ![Api] = "empty"] ELSE cell
    /\ checkouts' = Returned(Api)
    /\ pins' = [pins EXCEPT ![x] = "done"]
    /\ UNCHANGED <<Scheduled, active, canceled>>
----------------------------------------------------------------------------
(* schedule_cleanup, by a releasing call or by a timer's thread *)

Ended(a) == IF a \in Cleaner THEN "idle" ELSE "done"
Evictable == Slots \ {Api}
IdleFrom(I) == {i \in I : slots[i].initialized /\ ~slots[i].held /\ slots[i].released # Nil}
(* Mutant: the last query slot is left out. *)
DeadlinesShort == {slots[i].released + IdleTimeout : i \in IdleFrom(0..(QuerySlots - 1))}
Deadlines == {slots[i].released + IdleTimeout : i \in IdleFrom(Evictable)}
Disarm(e) == {x \in armed : x[1] # e}

Schedule(a) ==
    LET deadline == IF timing.discarded \/ ~active \/ Deadlines = {}
                      THEN Nil ELSE Min(Deadlines)
    IN  /\ pc[a] = "schedule"
        /\ IF timing.deadline = deadline
             THEN /\ pc' = Goto(a, Ended(a))
                  /\ UNCHANGED <<local, timing, armed>>
             ELSE /\ timing' = [timing EXCEPT !.deadline = deadline, !.epoch = @ + 1,
                                              !.timer = Nil]
                  /\ armed' = Disarm(timing.timer)
                  /\ local' = [local EXCEPT ![a] = <<timing.epoch + 1, deadline>>]
                  /\ pc' = Goto(a, IF deadline = Nil THEN Ended(a) ELSE "arm")
        /\ UNCHANGED <<slots, tables, poolVars, call, at, handle, chk, op, contextVars,
                       now>>

(* clock.after: at least one tick from now *)
Arm(a) ==
    /\ pc[a] = "arm"
    /\ armed' = armed \cup {<<local[a][1], Max({local[a][2], now + 1})>>}
    /\ pc' = Goto(a, "store")
    /\ UNCHANGED <<slots, tables, poolVars, data, op, contextVars, timing, now>>

Overtaken(a) == timing.epoch # local[a][1] \/ timing.discarded

StoreTimer(a) ==
    /\ pc[a] = "store"
    /\ IF Overtaken(a)
         THEN armed' = Disarm(local[a][1]) /\ UNCHANGED timing
         ELSE armed' = Disarm(timing.timer) /\ timing' = [timing EXCEPT !.timer = local[a][1]]
    /\ pc' = Goto(a, Ended(a))
    /\ UNCHANGED <<slots, tables, poolVars, data, op, contextVars, now>>

(* A timer that is due runs its callback on a thread of its own. *)
Fire(e, w) ==
    /\ pc[w] = "idle"
    /\ \E x \in armed : x[1] = e /\ x[2] <= now
    /\ armed' = Disarm(e)
    /\ local' = [local EXCEPT ![w] = <<e, Nil>>]
    /\ pc' = Goto(w, "cleanup")
    /\ UNCHANGED <<slots, tables, poolVars, call, at, handle, chk, op, contextVars,
                   timing, now>>

Idle == {i \in IdleFrom(Evictable) : now >= slots[i].released + IdleTimeout}

Evicted(I) == [i \in Slots |-> IF i \in I THEN "empty" ELSE cell[i]]

(* cleanup: removal from the pool (take_idle) and from the scheduler are one
   section of the state lock. *)
Cleanup(w) ==
    LET taken == IF active THEN {i \in Idle : checkouts[i] = 0} ELSE {}
    IN  /\ pc[w] = "cleanup"
        /\ IF timing.discarded \/ timing.epoch # local[w][1]
             THEN /\ pc' = Goto(w, "idle")
                  /\ UNCHANGED <<slots, requests, files, cell, clean, timing, armed>>
             ELSE /\ timing' = [timing EXCEPT !.deadline = Nil, !.timer = Nil]
                  /\ armed' = Disarm(timing.timer)
                  /\ cell' = Evicted(taken)
                  /\ Reset(taken)
                  /\ pc' = Goto(w, "schedule")
        /\ UNCHANGED <<next_association, checkouts, active, canceled, pins, data, op,
                       pending, wake, now>>

Discard ==
    /\ "discard" \in Faults
    /\ ~timing.discarded
    /\ timing' = [discarded |-> TRUE, epoch |-> timing.epoch + 1, deadline |-> Nil, timer |-> Nil]
    /\ armed' = Disarm(timing.timer)
    /\ UNCHANGED <<slots, tables, poolVars, pc, data, op, contextVars, now>>

Tick ==
    /\ now < MaxTime
    /\ now' = now + 1
    /\ UNCHANGED <<slots, tables, poolVars, pc, data, op, contextVars, timing, armed>>

----------------------------------------------------------------------------
Select(c) == \/ SelectRefused(c) \/ SelectShared(c) \/ SelectClaim(c)
             \/ SelectReentry(c) \/ SelectWait(c)

(* What the thread of a call does next without a choice of its caller. *)
Internal(c) ==
    \/ Select(c) \/ PoolEnter(c) \/ Validate(c) \/ Unreserve(c) \/ Publish(c)
    \/ Register(c) \/ RegisterStop(c)
    \/ ReleaseDispose(c) \/ ReleaseReturn(c) \/ ReleaseState(c)

Outcomes == {"ok"} \cup (Faults \cap {"error", "panic"})
Initializer(c) == \E outcome \in Outcomes : Initialize(c, outcome)
Ends(c) == \E outcome \in {"ok", "cancel"} \cup (Faults \cap {"panic"}) : EndOperation(c, outcome)
Scheduling(a) == Schedule(a) \/ Arm(a) \/ StoreTimer(a)
Callbacks == \/ \E x \in fired : RunCleanup(x[1], x[2])
             \/ \E c \in firedWakes : RunWake(c)
Timers == \E w \in Cleaner : Cleanup(w) \/ \E x \in armed : Fire(x[1], w)

Pinning(x) == \/ Pin(x) \/ PinFails(x) \/ PinPanics(x) \/ Unpin(x)
              \/ \E outcome \in Outcomes : PinInitialize(x, outcome)

Finished == (\A c \in Call : pc[c] = "done") /\ UNCHANGED vars

Next ==
    \/ \E c \in Call, t \in Thread, ask \in Asks : StartAcquire(c, t, ask[1], ask[2], ask[3])
    \/ \E c \in Call : \/ Internal(c) \/ Initializer(c) \/ SpuriousWake(c)
                       \/ BeginOperation(c) \/ Ends(c) \/ DropHandle(c)
    \/ \E a \in Actor : Scheduling(a)
    \/ \E r \in Request : Cancel(r)
    \/ \E x \in Direct : Pinning(x)
    \/ Callbacks \/ Timers \/ Discard \/ Tick \/ Finished

Spec == Init /\ [][Next]_vars
----------------------------------------------------------------------------
(* Properties *)

Returning == {"dispose", "return", "release"}
Live(l) == \E c \in Call : handle[c] = l /\ pc[c] \in Holding \cup Returning
Reserving == {"pool", "init", "validate", "publish", "unreserve"}
Holders(i) == {c \in Call : pc[c] \in Reserving /\ Slot(c) = i}
              \cup {l \in Call : Live(l) /\ Slot(l) = i}

(* A checker slot is held by exactly one reservation or lease, from its claim
   to the end of its release, and marked held exactly as long: two requests
   never use one checker at a time. *)
SlotHasOneHolder ==
    \A i \in Slots : Cardinality(Holders(i)) = (IF slots[i].held THEN 1 ELSE 0)

(* Handles share a lease only inside one cancellable request. *)
SharedWithinRequest ==
    \A c, d \in Call :
        /\ c # d /\ handle[c] = handle[d]
        /\ pc[c] \in Holding /\ pc[d] \in Holding
        => Request_(c) = Request_(d) /\ Request_(c) # Nil

(* Checkers are exclusive: to one lease, and a lease to one request. *)
LeasesExclude == SlotHasOneHolder /\ SharedWithinRequest

(* The pool and the scheduler, which are changed under different locks, agree.
   A lease uses the checker its slot has in the pool, and a slot idle in the
   scheduler has the checker the scheduler knows, if it knows one.  A slot that
   only the scheduler checks out has one checkout while it is leased, and none
   and no other checker while it is idle.  The API shares its slot's checker: it
   may outlive a lease, and when a cancelled one of a lease leaves the pool
   early this is the API's doing. *)
PoolAgrees ==
    /\ \A c \in Call : pc[c] \in Holding =>
          LET i == Slot(handle[c])
          IN  /\ cell[i] = chk[handle[c]] \/ (i = Api /\ chk[handle[c]] \in canceled)
              /\ i # Api => checkouts[i] = 1
    /\ \A i \in Slots :
          ~slots[i].held /\ active =>
             /\ slots[i].initialized => cell[i] = slots[i].identity
             /\ i # Api => /\ checkouts[i] = 0
                           /\ ~slots[i].initialized => cell[i] \notin Checker

(* "a canceled checker is disposed when its checkout is released": the next
   claim of its slot never gets it. *)
CanceledNeverReissued ==
    /\ \A c \in Call : pc[c] = "publish" => chk[c] \notin canceled
    /\ \A i \in Slots : ~slots[i].held => cell[i] \notin canceled

(* Eviction and cancellation leave no request and no file associated with a
   slot that lost its checker. *)
NoDanglingAffinity ==
    /\ \A r \in Request : requests[r] # Nil => slots[requests[r].index].initialized
    /\ \A f \in File : files[f] # Nil => slots[files[f]].initialized

(* A cancelled request leaves no association, and a context keeps no cleanup
   function of an association that is gone, although the association is
   published before its cleanup function is registered and stored. *)
AssociationsEnd ==
    /\ \A r \in done :
          \/ requests[r] = Nil
          \/ \E x \in fired : x[1] = r
          \/ \E c \in Call : pc[c] = "register" /\ Request_(c) = r
    /\ \A x \in clean :
          \/ requests[x[1]] # Nil /\ requests[x[1]].serial = x[2]
          \/ \E c \in Call : pc[c] = "register2" /\ Request_(c) = x[1] /\ local[c][1] = x[2]

(* Associations of requests and of files end with what they are about. *)
NothingDangles == NoDanglingAffinity /\ AssociationsEnd

(* A call sleeps only while some slot it can use is held, whose holder will
   notify, and a cancelled sleeper has its wake-up on the way. *)
SleeperHasWaker ==
    \A c \in Call :
        pc[c] = "asleep" =>
            /\ \E i \in SlotsOf(call[c].life) : slots[i].held
            /\ call[c].ctx \in done => c \in firedWakes

(* While nobody is about to schedule, an idle checker is covered by an armed
   timer of the current epoch that is due no later than its timeout: no idle
   checker stays for good because two releases, a cleanup and a claim raced. *)
IdleIsTimed ==
    LET settled == \A a \in Actor : pc[a] \notin {"schedule", "arm", "store", "cleanup"}
    IN  settled /\ active /\ ~timing.discarded =>
            \A i \in IdleFrom(Slots \ {Api}) :
                \E x \in armed : /\ x[1] = timing.epoch
                                 /\ x[2] <= Max({slots[i].released + IdleTimeout, now + 1})

(* After discard() no timer of the scheduler stays armed. *)
DiscardDisarms ==
    timing.discarded =>
        \A x \in armed : \E a \in Actor : pc[a] = "store" /\ local[a][1] = x[1]

(* Every idle checker of a scheduler that is in use has a timer, and one that
   was discarded has none. *)
TimersAgree == IdleIsTimed /\ DiscardDisarms
=============================================================================
