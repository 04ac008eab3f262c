----------------------- MODULE CheckerSchedulerProofs -----------------------
(***************************************************************************)
(* The safety of the checker scheduler, for any number of threads, calls,  *)
(* requests, files and query slots.  The invariants come in layers, each   *)
(* proved with the help of the ones before it: the shape of the state      *)
(* (Shape), who holds a slot (Exclusive), what the pool has in it (Pool),  *)
(* who is woken (Woken), which associations end (Ending), and which timers *)
(* run (Timed).                                                            *)
(***************************************************************************)
EXTENDS CheckerScheduler, Integers, FiniteSetTheorems, WellFoundedInduction, TLAPS

PC == {"new", "select", "asleep", "pool", "init", "validate", "publish", "unreserve",
       "register", "register2", "held", "dispose", "return", "release",
       "schedule", "arm", "store", "done", "idle", "cleanup"}

(* A lease is in use, or has been. *)
Leasing == Holding \cup Returning
Past == Leasing \cup {"schedule", "arm", "store", "done"}
(* A call made its checker, if it made one. *)
Built == Past \cup {"validate", "publish", "unreserve"}

SlotType == [initialized : BOOLEAN, held : BOOLEAN, initializing : Thread \cup {Nil},
             request : Request \cup {Nil}, lease : Call \cup {Nil},
             identity : Checker \cup {Nil}, released : Nat \cup {Nil}]

TimingType == [discarded : BOOLEAN, epoch : Nat, deadline : Nat \cup {Nil},
               timer : Nat \cup {Nil}]

TypeOK ==
    /\ slots \in [Slots -> SlotType]
    /\ requests \in [Request -> Association \cup {Nil}]
    /\ files \in [File -> Query \cup {Nil}]
    /\ next_association \in Nat
    /\ timing \in TimingType
    /\ cell \in [Slots -> Checker \cup {"empty", "failed"}]
    /\ checkouts \in [Slots -> Int]
    /\ active \in BOOLEAN
    /\ canceled \in SUBSET Checker
    /\ pins \in [Direct -> Checker \cup {"new", "empty", "failed", "done"}]
    /\ pc \in [Actor -> PC]
    /\ call \in [Call -> Arguments \cup {Nil}]
    /\ at \in [Call -> (Slots \X BOOLEAN) \cup {Nil}]
    /\ handle \in [Call -> Call \cup {Nil}]
    /\ chk \in [Call -> Checker \cup {Nil}]
    /\ op \in [Call -> Thread \cup {Nil}]
    /\ done \in SUBSET Request
    /\ wake \in SUBSET Call
    /\ firedWakes \in SUBSET Call
    /\ clean \in SUBSET (Request \X Nat)
    /\ fired \in SUBSET (Request \X Nat)
    /\ armed \in SUBSET (Nat \X Nat)
    /\ local \in [Actor -> (Nat \X (Nat \cup {Nil})) \cup {Nil}]
    /\ now \in Nat

(* A call that was made has arguments, and one that reserves has a slot of its
   class. *)
Placed ==
    \A c \in Call :
        /\ pc[c] \notin {"idle", "cleanup"}
        /\ pc[c] # "new" => call[c] \in Arguments
        /\ pc[c] \in Reserving =>
              /\ at[c] \in Slots \X BOOLEAN
              /\ Slot(c) \in SlotsOf(call[c].life)
              /\ at[c][2] => call[c].life = "temporary"
        /\ pc[c] = "publish" => chk[c] \in Checker
        /\ op[c] # Nil => pc[c] = "held"

(* A handle belongs to a lease that was published. *)
Leased ==
    \A c \in Call :
        pc[c] \in Leasing =>
            /\ handle[c] \in Call /\ pc[handle[c]] \in Past
            /\ at[handle[c]] \in Slots \X BOOLEAN
            /\ chk[handle[c]] \in Checker

(* The lease of a slot is one that was made for it. *)
Named ==
    \A i \in Slots :
        slots[i].lease # Nil =>
            /\ pc[slots[i].lease] \in Past
            /\ at[slots[i].lease] \in Slots \X BOOLEAN
            /\ Slot(slots[i].lease) = i

(* Requests are not associated with the API's slot. *)
Indexed == \A r \in Request : requests[r] # Nil => requests[r].index # Api

(* register_cleanup runs for a request, with a serial. *)
Serial ==
    \A c \in Call :
        pc[c] \in {"register", "register2"} => Request_(c) \in Request /\ local[c] \in Nat \X {Nil}
Epoch ==
    /\ \A a \in Actor : pc[a] \in {"arm", "store"} => local[a] \in Nat \X Nat
    /\ \A w \in Cleaner : /\ pc[w] \in {"idle", "schedule", "arm", "store", "cleanup"}
                          /\ pc[w] = "cleanup" => local[w] \in Nat \X {Nil}

Shape == TypeOK /\ Placed /\ Leased /\ Named /\ Indexed /\ Serial /\ Epoch

----------------------------------------------------------------------------
SlotOf(c) == Slot(handle[c])

(* A slot is held by what reserves it and by what leases it, and nobody else. *)
Reserves ==
    \A c \in Call : pc[c] \in Reserving =>
        slots[Slot(c)].held /\ slots[Slot(c)].request = Request_(c)
Leases ==
    \A c \in Call : pc[c] \in Leasing =>
        LET s == slots[SlotOf(c)]
        IN  /\ s.held /\ s.initialized /\ s.lease = handle[c]
            /\ s.identity = chk[handle[c]] /\ s.request = Request_(c)
OneHolder ==
    /\ \A c, d \in Call : pc[c] \in Reserving /\ pc[d] \in Reserving /\ Slot(c) = Slot(d) => c = d
    /\ \A c, d \in Call : pc[c] \in Reserving /\ pc[d] \in Leasing => Slot(c) # SlotOf(d)
    /\ \A c, d \in Call : pc[c] \in Returning /\ pc[d] \in Leasing /\ handle[c] = handle[d] => c = d
HeldBySome ==
    \A i \in Slots : slots[i].held =>
        \/ \E c \in Call : pc[c] \in Reserving /\ Slot(c) = i
        \/ \E c \in Call : pc[c] \in Leasing /\ SlotOf(c) = i
Exclusive == Reserves /\ Leases /\ OneHolder /\ HeldBySome /\ SharedWithinRequest

----------------------------------------------------------------------------
(* A checker stays with the slot it was made for. *)
Made(x) == IF x \in Direct THEN pins[x] \notin {"new", "empty"} ELSE pc[x] \in Built
Home(x) == IF x \in Direct THEN Api ELSE Slot(x)
Homed ==
    /\ \A i \in Slots : cell[i] \in Checker => Made(cell[i]) /\ Home(cell[i]) = i
    /\ \A c \in Call : pc[c] = "publish" => Made(chk[c]) /\ Home(chk[c]) = Slot(c)
    /\ \A c \in Call : pc[c] \in Leasing => Made(chk[handle[c]]) /\ Home(chk[handle[c]]) = SlotOf(c)
    /\ \A x \in canceled : Made(x)

(* What the pool has in the slot i of a scheduler that knows s of it. *)
Agrees(i) ==
    IF slots[i].initialized THEN cell[i] = slots[i].identity /\ cell[i] \in Checker
    ELSE active /\ i # Api => cell[i] \notin Checker

(* The API's checkouts, of its slot, are not the scheduler's. *)
Counted(i, n) == i # Api => checkouts[i] = n
(* A cancelled checker that is no longer in the pool *)
Gone(i) == IF i = Api THEN cell[i] \notin canceled ELSE cell[i] = "empty"

IdleAt(i) == Counted(i, 0) /\ Agrees(i) /\ cell[i] \notin canceled
ReservedAt(c, i) ==
    /\ cell[i] \notin canceled
    /\ Counted(i, IF pc[c] \in {"pool", "unreserve"} THEN 0 ELSE 1)
    /\ pc[c] \in {"pool", "init", "unreserve"} \/ slots[i].initialized => Agrees(i)
    /\ pc[c] = "publish" => cell[i] = chk[c]
LeasedAt(c, i) ==
    /\ Counted(i, IF pc[c] = "release" THEN 0 ELSE 1)
    /\ pc[c] \in Holding \cup {"dispose"} =>
          cell[i] = chk[handle[c]] \/ (i = Api /\ chk[handle[c]] \in canceled /\ Gone(i))
    /\ pc[c] \in {"return", "release"} =>
          IF chk[handle[c]] \in canceled THEN Gone(i) ELSE cell[i] = chk[handle[c]]

(* All of this for the slots I *)
Stocked(I) ==
    /\ \A i \in I : ~slots[i].held => IdleAt(i)
    /\ \A c \in Call : pc[c] \in Reserving /\ Slot(c) \in I => ReservedAt(c, Slot(c))
    /\ \A c \in Call : pc[c] \in Leasing /\ SlotOf(c) \in I => LeasedAt(c, SlotOf(c))
Pool == Homed /\ Stocked(Slots)

----------------------------------------------------------------------------
(* Whoever waits for its turn has its wake-up function registered. *)
Woken ==
    /\ SleeperHasWaker
    /\ \A c \in Call : pc[c] \in {"select", "asleep"} /\ call[c].ctx \in Request \ done => c \in wake

----------------------------------------------------------------------------
(* An association has its cleanup function registered, or taken, or about to
   be registered (Backed); a function registered for one that has not stored it
   has its call on the way to store or to stop it (Stopped). *)
Registering(r, s, p) == \E c \in Call : pc[c] = p /\ Request_(c) = r /\ local[c][1] = s
Split == (\A x \in clean : x[1] \notin done) /\ (\A x \in fired : x[1] \in done)
BackedAt(r, s) ==
    /\ Registering(r, s, "register") \/ <<r, s>> \in clean \/ <<r, s>> \in fired
    /\ <<r, s>> \in clean /\ ~requests[r].stored => Registering(r, s, "register2")
Backed == \A r \in Request : requests[r] # Nil => BackedAt(r, requests[r].serial)
Stopped ==
    \A x \in clean :
        \/ requests[x[1]] # Nil /\ requests[x[1]].serial = x[2]
        \/ Registering(x[1], x[2], "register2")
(* Serials are not used twice. *)
Fresh ==
    /\ \A x \in clean : x[2] < next_association
    /\ \A c \in Call : pc[c] \in {"register", "register2"} => local[c][1] < next_association
Ending == NoDanglingAffinity /\ Split /\ Backed /\ Stopped /\ Fresh

----------------------------------------------------------------------------
Setter(a) == pc[a] \in {"arm", "store"}
Setting(a) == Setter(a) /\ local[a][1] = timing.epoch
Cleaning == \E w \in Cleaner : pc[w] = "cleanup" /\ local[w][1] = timing.epoch

(* Every epoch is set by one actor, and the last one has no timer before. *)
Epochs ==
    /\ timing.discarded => timing.deadline = Nil /\ timing.timer = Nil
    /\ \A a \in Actor : Setter(a) => local[a][1] <= timing.epoch
    /\ \A a, b \in Actor : Setter(a) /\ Setter(b) /\ local[a][1] = local[b][1] => a = b
    /\ \A a \in Actor : Setting(a) => timing.timer = Nil
    /\ timing.timer # Nil => timing.timer = timing.epoch
(* A timer is the scheduler's, or its setter is about to store it. *)
Owned ==
    \A x \in armed : \/ x[1] = timing.timer
                     \/ \E a \in Actor : pc[a] = "store" /\ local[a][1] = x[1]
(* The deadline is no later than any idle checker's, unless somebody is about
   to look at it. *)
Covered ==
    active /\ ~timing.discarded /\ ~Cleaning /\ (\A a \in Actor : pc[a] # "schedule") =>
        \A i \in IdleFrom(Evictable) :
            timing.deadline # Nil /\ timing.deadline <= slots[i].released + IdleTimeout
(* The deadline has a timer, or is about to have one. *)
Running ==
    timing.deadline # Nil =>
        \/ Cleaning
        \/ \E a \in Actor : pc[a] = "arm" /\ local[a] = <<timing.epoch, timing.deadline>>
        \/ \E x \in armed : x[1] = timing.epoch /\ (x[2] <= timing.deadline \/ x[2] <= now + 1)
Timed == Epochs /\ Owned /\ Covered /\ Running

(* A reservation fails only in a retired pool, or for want of a checker. *)
Reverts == \A c \in Call : pc[c] = "unreserve" => ~active \/ ~slots[Slot(c)].initialized

----------------------------------------------------------------------------
(* Lemmas on the operators *)

Below == {p \in Nat \X Nat : p[1] < p[2]}

(* A set of numbers that is not empty has a least element. *)
LEMMA MinIsLeast ==
    ASSUME NEW S, S \subseteq Nat, S # {}
    PROVE  Min(S) \in S /\ \A x \in S : Min(S) <= x
<1>1. IsWellFoundedOn(Below, Nat)
  <2>1. IsWellFoundedOn(OpToRel(<, Nat), Nat)
    BY NatLessThanWellFounded, Zenon
  <2> QED
    BY <2>1, Zenon DEF OpToRel, Below
<1>2. PICK m \in S : \A x \in S : ~(<<x, m>> \in Below)
    BY <1>1, WFMin, Zenon
<1>3. \A x \in S : ~(x < m)
    BY <1>2 DEF Below
<1>4. \A x \in S : m <= x
    BY <1>3
<1> QED
    BY <1>4 DEF Min

(* The three classes of slots: one for diagnostics, the query slots, one for
   the API. *)
LEMMA SlotFacts ==
    /\ Slots \subseteq Nat /\ Diagnostics \in Slots /\ Api \in Slots
    /\ Query \subseteq Slots /\ Diagnostics \notin Query /\ Api \notin Query
    /\ Api # Diagnostics /\ Query # {}
    /\ \A life \in Lifetime : SlotsOf(life) \subseteq Slots /\ SlotsOf(life) # {}
BY SlotsAssumption DEF Slots, Diagnostics, Api, Query, Lifetime, SlotsOf

(* The records of a slot, of the timer and of an association keep their types
   when fields of them are assigned. *)
LEMMA SlotWrites ==
    ASSUME NEW f \in [Slots -> SlotType], NEW i \in Slots
    PROVE  /\ \A t \in Thread, r \in Request \cup {Nil} :
                 [f EXCEPT ![i].held = TRUE, ![i].initializing = t, ![i].request = r]
                     \in [Slots -> SlotType]
           /\ [f EXCEPT ![i].held = FALSE, ![i].initializing = Nil] \in [Slots -> SlotType]
           /\ \A k \in Checker, c \in Call :
                 [f EXCEPT ![i].initialized = TRUE, ![i].identity = k,
                           ![i].initializing = Nil, ![i].lease = c] \in [Slots -> SlotType]
           /\ \A n \in Nat :
                 [f EXCEPT ![i].held = FALSE, ![i].request = Nil, ![i].released = n]
                     \in [Slots -> SlotType]
<1>1. ASSUME NEW t \in Thread, NEW r \in Request \cup {Nil}
      PROVE  [f EXCEPT ![i].held = TRUE, ![i].initializing = t, ![i].request = r]
                 \in [Slots -> SlotType]
    BY ZenonT(90) DEF SlotType
<1>2. [f EXCEPT ![i].held = FALSE, ![i].initializing = Nil] \in [Slots -> SlotType]
    BY DEF SlotType
<1>3. ASSUME NEW k \in Checker, NEW c \in Call
      PROVE  [f EXCEPT ![i].initialized = TRUE, ![i].identity = k,
                       ![i].initializing = Nil, ![i].lease = c] \in [Slots -> SlotType]
  <2> DEFINE g == [f EXCEPT ![i].initialized = TRUE, ![i].identity = k]
  <2>1. g \in [Slots -> SlotType]
    BY ZenonT(90) DEF SlotType
  <2> HIDE DEF g
  <2>2. [g EXCEPT ![i].initializing = Nil, ![i].lease = c] \in [Slots -> SlotType]
    BY <2>1, ZenonT(90) DEF SlotType
  <2> QED
    BY <2>2, Zenon DEF g
<1>4. ASSUME NEW n \in Nat
      PROVE  [f EXCEPT ![i].held = FALSE, ![i].request = Nil, ![i].released = n]
                 \in [Slots -> SlotType]
    BY ZenonT(90) DEF SlotType
<1> QED
    BY <1>1, <1>2, <1>3, <1>4

(* What schedule_cleanup() and cleanup() write to the timer fields has their
   type. *)
LEMMA TimingWrites ==
    ASSUME NEW f \in TimingType
    PROVE  /\ \A d \in Nat \cup {Nil} :
                 [f EXCEPT !.deadline = d, !.epoch = @ + 1, !.timer = Nil] \in TimingType
           /\ \A e \in Nat : [f EXCEPT !.timer = e] \in TimingType
           /\ [f EXCEPT !.deadline = Nil, !.timer = Nil] \in TimingType
<1>1. ASSUME NEW d \in Nat \cup {Nil}
      PROVE  [f EXCEPT !.deadline = d, !.epoch = @ + 1, !.timer = Nil] \in TimingType
  <2>1. f.epoch + 1 \in Nat
    BY DEF TimingType
  <2>2. [f EXCEPT !.deadline = d, !.epoch = f.epoch + 1, !.timer = Nil] \in TimingType
    BY <2>1 DEF TimingType
  <2> QED
    BY <2>2
<1>2. ASSUME NEW e \in Nat PROVE [f EXCEPT !.timer = e] \in TimingType
    BY DEF TimingType
<1>3. [f EXCEPT !.deadline = Nil, !.timer = Nil] \in TimingType
    BY DEF TimingType
<1> QED
    BY <1>1, <1>2, <1>3

(* Storing a stop handle leaves the associations well formed. *)
LEMMA StoredWrite ==
    ASSUME NEW f \in [Request -> Association \cup {Nil}], NEW r \in Request, f[r] # Nil
    PROVE  [f EXCEPT ![r].stored = TRUE] \in [Request -> Association \cup {Nil}]
BY DEF Association

(* A slot that was forgotten is well formed. *)
LEMMA FreeSlotType == FreeSlot \in SlotType
BY DEF FreeSlot, SlotType

(* The association of a call's request, if there is one. *)
LEMMA Known ==
    ASSUME Shape, NEW c \in Call, pc[c] # "new", Associated(c) # Nil
    PROVE  /\ Request_(c) \in Request /\ Associated(c) = requests[Request_(c)]
           /\ Associated(c) \in Association /\ Associated(c).index \in Slots
           /\ Matches(c) => Associated(c).index \in SlotsOf(call[c].life)
<1>1. call[c] \in Arguments
    BY DEF Shape, Placed
<1>2. Request_(c) # Nil /\ Request_(c) = call[c].ctx /\ call[c].life # "api"
    BY DEF Associated, Request_
<1>3. Request_(c) \in Request
    BY <1>1, <1>2 DEF Arguments
<1>4. Associated(c) = requests[Request_(c)]
    BY <1>2 DEF Associated
<1>5. Associated(c) \in Association /\ Associated(c).index \in Slots \ {Api}
    BY <1>3, <1>4 DEF Shape, TypeOK, Indexed, Association
<1>6. ASSUME Matches(c) PROVE Associated(c).index \in SlotsOf(call[c].life)
  <2>1. (call[c].life = "diagnostics") = (Associated(c).index = Diagnostics)
    BY <1>6 DEF Matches
  <2> QED
    BY <1>1, <1>2, <1>5, <2>1, SlotsAssumption
       DEF Arguments, SlotsOf, Lifetime, Slots, Query, Diagnostics, Api
<1> QED
    BY <1>3, <1>4, <1>5, <1>6

(* What a call is offered: a slot of its class that nobody holds, to be
   recorded with the file for temporary checkers only. *)
LEMMA Offered ==
    ASSUME Shape, NEW c \in Call, pc[c] = "select", Candidate(c) # Nil
    PROVE  /\ Candidate(c) \in Slots \X BOOLEAN
           /\ Candidate(c)[1] \in SlotsOf(call[c].life)
           /\ ~slots[Candidate(c)[1]].held
           /\ Candidate(c)[2] => call[c].life = "temporary"
<1> DEFINE life == call[c].life
           own == IF Matches(c) THEN {Associated(c).index} \cap Warm ELSE {}
           affine == IF life = "temporary" /\ call[c].file # Nil
                       THEN {files[call[c].file]} \cap Warm ELSE {}
           warm == SlotsOf(life) \cap Warm
           free == {i \in SlotsOf(life) : ~slots[i].held}
<1>1. call[c] \in Arguments /\ life \in Lifetime
    BY DEF Shape, Placed, Arguments
<1>2. own \subseteq SlotsOf(life)
    BY Known DEF Matches
<1>3. affine \subseteq SlotsOf(life)
  <2> SUFFICES ASSUME life = "temporary", call[c].file # Nil, files[call[c].file] \in Warm
               PROVE  files[call[c].file] \in Query
    BY DEF SlotsOf
  <2>1. call[c].file \in File
    BY <1>1 DEF Arguments
  <2>2. files[call[c].file] \in Query \cup {Nil} /\ Nil \notin Slots
    BY <2>1, SlotFacts, NilAssumption DEF Shape, TypeOK
  <2> QED
    BY <2>2 DEF Warm
<1>4. own \subseteq Warm /\ affine \subseteq Warm /\ warm \subseteq Warm
    OBVIOUS
<1>5. \A i \in Warm : i \in Slots /\ ~slots[i].held
    BY DEF Warm
<1>6. SlotsOf(life) \subseteq Slots /\ Slots \subseteq Nat
    BY <1>1, SlotFacts
<1>7. \/ own # {} /\ Candidate(c) = <<Min(own), FALSE>>
      \/ affine # {} /\ Candidate(c) = <<Min(affine), FALSE>>
      \/ warm # {} /\ Candidate(c) = <<Min(warm), life = "temporary">>
      \/ free # {} /\ Candidate(c) = <<Min(free), life = "temporary">>
    BY DEF Candidate
<1> HIDE DEF own, affine, warm, free
<1>8. \E S \in SUBSET SlotsOf(life), b \in BOOLEAN :
         /\ S # {} /\ \A i \in S : ~slots[i].held
         /\ Candidate(c) = <<Min(S), b>> /\ (b => life = "temporary")
  <2>1. CASE own # {} /\ Candidate(c) = <<Min(own), FALSE>>
    BY <1>2, <1>4, <1>5, <2>1
  <2>2. CASE affine # {} /\ Candidate(c) = <<Min(affine), FALSE>>
    BY <1>3, <1>4, <1>5, <2>2
  <2>3. CASE warm # {} /\ Candidate(c) = <<Min(warm), life = "temporary">>
    BY <1>4, <1>5, <2>3, Zenon DEF warm
  <2>4. CASE free # {} /\ Candidate(c) = <<Min(free), life = "temporary">>
    BY <2>4, Zenon DEF free
  <2> QED
    BY <1>7, <2>1, <2>2, <2>3, <2>4
<1>9. PICK S \in SUBSET SlotsOf(life), b \in BOOLEAN :
         /\ S # {} /\ \A i \in S : ~slots[i].held
         /\ Candidate(c) = <<Min(S), b>> /\ (b => life = "temporary")
    BY <1>8
<1>10. Min(S) \in S
    BY <1>6, <1>9, MinIsLeast
<1>11. Candidate(c)[1] = Min(S) /\ Candidate(c)[2] = b
    BY <1>9
<1> QED
    BY <1>6, <1>9, <1>10, <1>11

(* The later of two times. *)
LEMMA MaxOfTwo ==
    ASSUME NEW x \in Nat, NEW y \in Nat
    PROVE  Max({x, y}) \in {x, y} /\ x <= Max({x, y}) /\ y <= Max({x, y})
<1>1. \E m \in {x, y} : \A z \in {x, y} : m >= z
    OBVIOUS
<1> QED
    BY <1>1 DEF Max

(* The earliest deadline of the idle slots. *)
LEMMA NextDeadline ==
    ASSUME Shape
    PROVE  /\ Deadlines \subseteq Nat
           /\ Deadlines # {} => /\ Min(Deadlines) \in Nat
                                /\ \A i \in IdleFrom(Evictable) :
                                      Min(Deadlines) <= slots[i].released + IdleTimeout
<1>1. \A i \in IdleFrom(Evictable) : slots[i].released \in Nat
    BY DEF Shape, TypeOK, IdleFrom, Evictable, SlotType
<1>2. Deadlines \subseteq Nat
    BY <1>1, TimeAssumption DEF Deadlines
<1>3. ASSUME Deadlines # {}
      PROVE  Min(Deadlines) \in Deadlines /\ \A x \in Deadlines : Min(Deadlines) <= x
    BY <1>2, <1>3, MinIsLeast
<1> QED
    BY <1>2, <1>3 DEF Deadlines

----------------------------------------------------------------------------
(* Shape *)

(* A new scheduler has the shape. *)
LEMMA InitShape == Init => Shape
BY SlotsAssumption, NilAssumption
   DEF Init, Shape, TypeOK, TimingType, Placed, Leased, Named, Indexed, Serial, Epoch, SlotType, PC, FreeSlot,
       Actor, Reserving, Leasing, Holding, Returning

Unscheduled == UNCHANGED <<slots, tables, pc, call, at, handle, chk, local, op, done, fired,
                          firedWakes, wake, clean, timing, armed, now, canceled>>
ApiCell(x) ==
    \/ cell'[Api] = cell[Api]
    \/ cell[Api] = "empty" /\ cell'[Api] = "failed"
    \/ cell[Api] = "empty" /\ cell'[Api] = x /\ pins[x] = "empty" /\ pins'[x] = x
    \/ cell[Api] \in canceled /\ cell'[Api] = "empty"

(* A step of the API leaves the scheduler alone, and of the pool it changes the
   API's slot only. *)
LEMMA PinEffect ==
    ASSUME Shape, NEW x \in Direct, Pinning(x)
    PROVE  /\ Unscheduled
           /\ active' \in BOOLEAN /\ (active' => active)
           /\ cell' \in [Slots -> Checker \cup {"empty", "failed"}] /\ checkouts' \in [Slots -> Int]
           /\ pins' \in [Direct -> Checker \cup {"new", "empty", "failed", "done"}]
           /\ \A j \in Slots \ {Api} : cell'[j] = cell[j] /\ checkouts'[j] = checkouts[j]
           /\ \A y \in Direct : pins[y] \notin {"new", "empty"} => pins'[y] \notin {"new", "empty"}
           /\ ApiCell(x)
<1> DEFINE Effect ==
           /\ active' \in BOOLEAN /\ (active' => active)
           /\ cell' \in [Slots -> Checker \cup {"empty", "failed"}] /\ checkouts' \in [Slots -> Int]
           /\ pins' \in [Direct -> Checker \cup {"new", "empty", "failed", "done"}]
           /\ \A j \in Slots \ {Api} : cell'[j] = cell[j] /\ checkouts'[j] = checkouts[j]
           /\ \A y \in Direct : pins[y] \notin {"new", "empty"} => pins'[y] \notin {"new", "empty"}
           /\ ApiCell(x)
<1>1. /\ cell \in [Slots -> Checker \cup {"empty", "failed"}] /\ checkouts \in [Slots -> Int]
      /\ pins \in [Direct -> Checker \cup {"new", "empty", "failed", "done"}]
      /\ active \in BOOLEAN /\ Api \in Slots /\ x \in Checker
    BY SlotFacts DEF Shape, TypeOK, Checker
<1>2. "new" \notin Checker /\ "empty" \notin Checker
    BY NilAssumption
<1>3. ASSUME Pin(x) PROVE Effect
  <2>1. checkouts' = checkouts \/ checkouts' = [checkouts EXCEPT ![Api] = @ + 1]
    BY <1>3 DEF Pin
  <2>2. pins' = [pins EXCEPT ![x] = cell[Api]] \/ pins' = [pins EXCEPT ![x] = "done"]
    BY <1>3 DEF Pin
  <2>3. pins[x] = "new" /\ UNCHANGED <<cell, active>>
    BY <1>3 DEF Pin
  <2>4. checkouts' \in [Slots -> Int] /\ \A j \in Slots \ {Api} : checkouts'[j] = checkouts[j]
    BY <1>1, <2>1
  <2>5. /\ pins' \in [Direct -> Checker \cup {"new", "empty", "failed", "done"}]
        /\ \A y \in Direct \ {x} : pins'[y] = pins[y]
    BY <1>1, <2>2
  <2> QED
    BY <1>1, <2>3, <2>4, <2>5 DEF ApiCell
<1>4. ASSUME NEW outcome, PinInitialize(x, outcome) PROVE Effect
  <2>1. checkouts' = checkouts /\ cell[Api] = "empty" /\ pins[x] = "empty"
    BY <1>4 DEF PinInitialize, Make
  <2>2. ASSUME NEW v \in {"failed", x}, Fill(Api, v), active' = active PROVE Effect
    <3>1. cell' = [cell EXCEPT ![Api] = v]
      BY <2>2 DEF Fill
    <3>2. pins' = [y \in Direct |-> IF pins[y] = "empty" THEN v ELSE pins[y]]
      BY <2>2 DEF Fill
    <3>3. /\ pins' \in [Direct -> Checker \cup {"new", "empty", "failed", "done"}] /\ pins'[x] = v
          /\ \A y \in Direct : pins[y] \notin {"new", "empty"} => pins'[y] \notin {"new", "empty"}
      BY <1>1, <1>2, <2>1, <2>2, <3>2
    <3>4. /\ cell' \in [Slots -> Checker \cup {"empty", "failed"}] /\ cell'[Api] = v
          /\ \A j \in Slots \ {Api} : cell'[j] = cell[j]
      BY <1>1, <2>2, <3>1
    <3> QED
      BY <1>1, <2>1, <2>2, <3>3, <3>4 DEF ApiCell
  <2>3. CASE active' = FALSE /\ UNCHANGED <<cell, pins>>
    BY <1>1, <2>1, <2>3 DEF ApiCell
  <2> QED
    BY <1>4, <2>2, <2>3 DEF PinInitialize, Make
<1>5. ASSUME PinFails(x) \/ Unpin(x) PROVE Effect
  <2>1. checkouts' = [checkouts EXCEPT ![Api] = @ - 1] /\ active' = active
    BY <1>5 DEF PinFails, Unpin, Returned
  <2>2. pins' = [pins EXCEPT ![x] = "done"]
    BY <1>5 DEF PinFails, Unpin
  <2>3. cell' = cell \/ (cell[Api] \in canceled /\ cell' = [cell EXCEPT ![Api] = "empty"])
    BY <1>5 DEF PinFails, Unpin
  <2>4. checkouts' \in [Slots -> Int] /\ \A j \in Slots \ {Api} : checkouts'[j] = checkouts[j]
    BY <1>1, <2>1
  <2>5. /\ pins' \in [Direct -> Checker \cup {"new", "empty", "failed", "done"}]
        /\ \A y \in Direct : pins[y] \notin {"new", "empty"} => pins'[y] \notin {"new", "empty"}
    BY <1>1, <2>2
  <2>6. /\ cell' \in [Slots -> Checker \cup {"empty", "failed"}]
        /\ \A j \in Slots \ {Api} : cell'[j] = cell[j]
        /\ ApiCell(x)
    BY <1>1, <2>3 DEF ApiCell
  <2> QED
    BY <1>1, <2>1, <2>4, <2>5, <2>6
<1>6. ASSUME PinPanics(x) PROVE Effect
    BY <1>1, <1>6 DEF PinPanics, ApiCell
<1>7. Effect
    BY <1>3, <1>4, <1>5, <1>6 DEF Pinning
<1>8. Unscheduled
    BY DEF Pinning, Pin, PinInitialize, PinFails, PinPanics, Unpin, Unscheduled, Scheduled,
           tables, data, contextVars, pending, timerVars
<1> QED
    BY <1>7, <1>8

(* The initialiser of a call fills an empty cell, or finds it filled, or
   panics. *)
LEMMA InitializeEffect ==
    ASSUME Shape, NEW c \in Call, NEW outcome, Initialize(c, outcome)
    PROVE  /\ pc[c] = "init" /\ Slot(c) \in Slots
           /\ \/ cell' = cell /\ (active' => cell[Slot(c)] # "empty")
              \/ \E v \in {"failed", c} :
                    cell[Slot(c)] = "empty" /\ cell' = [cell EXCEPT ![Slot(c)] = v]
           /\ active' \in BOOLEAN /\ (active' => active)
           /\ pins' \in [Direct -> Checker \cup {"new", "empty", "failed", "done"}]
           /\ \A y \in Direct : pins[y] \notin {"new", "empty"} => pins'[y] \notin {"new", "empty"}
<1>1. /\ pins \in [Direct -> Checker \cup {"new", "empty", "failed", "done"}]
      /\ active \in BOOLEAN /\ c \in Checker
    BY DEF Shape, TypeOK, Checker
<1>2. pc[c] = "init" /\ Slot(c) \in Slots
    BY DEF Initialize, Shape, Placed, Reserving, Slot
<1> DEFINE Effect ==
           /\ \/ cell' = cell /\ (active' => cell[Slot(c)] # "empty")
              \/ \E v \in {"failed", c} :
                    cell[Slot(c)] = "empty" /\ cell' = [cell EXCEPT ![Slot(c)] = v]
           /\ active' \in BOOLEAN /\ (active' => active)
           /\ pins' \in [Direct -> Checker \cup {"new", "empty", "failed", "done"}]
           /\ \A y \in Direct : pins[y] \notin {"new", "empty"} => pins'[y] \notin {"new", "empty"}
<1>3. ASSUME cell[Slot(c)] # "empty", UNCHANGED <<cell, active, pins>> PROVE Effect
    BY <1>1, <1>3
<1>4. ASSUME active' = FALSE, UNCHANGED <<cell, pins>> PROVE Effect
    BY <1>1, <1>4
<1>5. ASSUME NEW v \in {"failed", c}, cell[Slot(c)] = "empty", Fill(Slot(c), v), active' = active
      PROVE  Effect
  <2>1. v \in Checker \cup {"failed"} /\ v \notin {"new", "empty"}
    BY <1>1, NilAssumption
  <2>2. /\ pins' \in [Direct -> Checker \cup {"new", "empty", "failed", "done"}]
        /\ \A y \in Direct : pins[y] \notin {"new", "empty"} => pins'[y] \notin {"new", "empty"}
    BY <1>1, <1>5, <2>1 DEF Fill
  <2>3. cell' = [cell EXCEPT ![Slot(c)] = v]
    BY <1>5 DEF Fill
  <2> QED
    BY <1>1, <1>5, <2>2, <2>3
<1>6. \/ cell[Slot(c)] # "empty" /\ UNCHANGED <<cell, active, pins>>
      \/ active' = FALSE /\ UNCHANGED <<cell, pins>>
      \/ \E v \in {"failed", c} : cell[Slot(c)] = "empty" /\ Fill(Slot(c), v) /\ active' = active
    BY DEF Initialize, Make
<1>7. Effect
    BY <1>3, <1>4, <1>5, <1>6
<1> QED
    BY <1>2, <1>7

(* Every step preserves the types. *)
LEMMA TypeStep == Shape /\ [Next]_vars => TypeOK'
<1> SUFFICES ASSUME Shape, [Next]_vars PROVE TypeOK'
    OBVIOUS
<1> USE NilAssumption, SlotFacts
    DEF PC, Actor, data, poolVars, pending, contextVars, timerVars, tables
<1> TypeOK /\ Placed /\ Leased /\ Indexed /\ Serial /\ Epoch
    BY DEF Shape
<1>a. slots \in [Slots -> SlotType] /\ now \in Nat
    BY DEF TypeOK
<1>b. requests \in [Request -> Association \cup {Nil}] /\ files \in [File -> Query \cup {Nil}]
    BY DEF TypeOK
<1>c. timing \in TimingType /\ armed \in SUBSET (Nat \X Nat)
    BY DEF TypeOK
<1>1. ASSUME NEW c \in Call, NEW t \in Thread, NEW ask \in Asks,
             StartAcquire(c, t, ask[1], ask[2], ask[3])
      PROVE  TypeOK'
  <2>1. ask[1] \in Lifetime /\ ask[2] \in Request \cup {Nil} /\ ask[3] \in File \cup {Nil}
    BY AsksAssumption
  <2>2. PICK o \in Call \cup {Nil} :
           call' = [call EXCEPT ![c] = [thread |-> t, life |-> ask[1], ctx |-> ask[2],
                                        file |-> ask[3], outer |-> o]]
    BY <1>1 DEF StartAcquire, Innermost
  <2>3. call' \in [Call -> Arguments \cup {Nil}]
    BY <2>1, <2>2 DEF TypeOK, Arguments
  <2> QED
    BY <1>1, <2>3 DEF TypeOK, StartAcquire, Notified, Goto
<1>2. ASSUME NEW c \in Call, SelectRefused(c)
      PROVE  TypeOK'
    BY <1>2 DEF TypeOK, SelectRefused, Return, Goto
<1>3. ASSUME NEW c \in Call, SelectShared(c)
      PROVE  TypeOK'
  <2>1. Associated(c).index \in Slots
    BY <1>3, Known DEF SelectShared, Shares, Mine, Matches
  <2>2. slots[Associated(c).index].lease \in Call \cup {Nil}
    BY <1>a, <2>1 DEF SlotType
  <2> QED
    BY <1>3, <2>2 DEF TypeOK, SelectShared, Return, Goto
<1>4. ASSUME NEW c \in Call, SelectClaim(c)
      PROVE  TypeOK'
  <2>1. Candidate(c) \in Slots \X BOOLEAN /\ Candidate(c)[1] \in Slots
    BY <1>4, Offered DEF SelectClaim
  <2>2. call[c] \in Arguments
    BY <1>4 DEF SelectClaim, Placed
  <2>3. call[c].thread \in Thread /\ Request_(c) \in Request \cup {Nil}
    BY <2>2 DEF Arguments, Request_
  <2>4. slots' \in [Slots -> SlotType]
    BY <1>a, <1>4, <2>1, <2>3, SlotWrites, ZenonT(90) DEF SelectClaim
  <2> QED
    BY <1>4, <2>1, <2>4 DEF TypeOK, SelectClaim, Drop, Goto
<1>5. ASSUME NEW c \in Call, SelectReentry(c)
      PROVE  TypeOK'
    BY <1>5 DEF TypeOK, SelectReentry, Return, Drop, Goto
<1>6. ASSUME NEW c \in Call, SelectWait(c)
      PROVE  TypeOK'
    BY <1>6 DEF TypeOK, SelectWait, Drop, Goto
<1>7. ASSUME NEW c \in Call, PoolEnter(c)
      PROVE  TypeOK'
  <2>1. Slot(c) \in Slots
    BY <1>7 DEF PoolEnter, Placed, Reserving, Slot
  <2> QED
    BY <1>7, <2>1 DEF TypeOK, PoolEnter, Goto
<1>8. ASSUME NEW c \in Call, Validate(c)
      PROVE  TypeOK'
  <2>1. Slot(c) \in Slots
    BY <1>8 DEF Validate, Placed, Reserving, Slot
  <2> QED
    BY <1>8, <2>1, SMTT(60) DEF TypeOK, Validate, Goto
<1>9. ASSUME NEW c \in Call, Unreserve(c)
      PROVE  TypeOK'
  <2>1. Slot(c) \in Slots
    BY <1>9 DEF Unreserve, Placed, Reserving, Slot
  <2>2. slots' \in [Slots -> SlotType]
    BY <1>a, <1>9, <2>1, SlotWrites DEF Unreserve
  <2> QED
    BY <1>9, <2>2 DEF TypeOK, Unreserve, Notified, Goto
<1>10. ASSUME NEW c \in Call, Publish(c)
      PROVE  TypeOK'
  <2>1. Slot(c) \in Slots /\ call[c] \in Arguments /\ chk[c] \in Checker
    BY <1>10 DEF Publish, Placed, Reserving, Slot
  <2>2. slots' \in [Slots -> SlotType]
    BY <1>a, <1>10, <2>1, SlotWrites, ZenonT(60) DEF Publish
  <2>3. files' \in [File -> Query \cup {Nil}]
    <3>1. at[c][2] => Slot(c) \in Query
      BY <1>10 DEF Publish, Placed, Reserving, SlotsOf
    <3>2. call[c].file \in File \cup {Nil}
      BY <2>1 DEF Arguments
    <3> QED
      BY <1>b, <1>10, <3>1, <3>2 DEF Publish
  <2>4. requests' \in [Request -> Association \cup {Nil}]
    <3>1. Request_(c) \in Request \cup {Nil}
      BY <2>1 DEF Arguments, Request_
    <3>2. [index |-> Slot(c), serial |-> next_association, stored |-> FALSE] \in Association
      BY <2>1 DEF TypeOK, Association
    <3> QED
      BY <1>b, <1>10, <3>1, <3>2 DEF Publish
  <2> QED
    BY <1>10, <2>2, <2>3, <2>4 DEF TypeOK, Publish, Notified, Goto
<1>11. ASSUME NEW c \in Call, Register(c)
      PROVE  TypeOK'
  <2>1. Request_(c) \in Request /\ local[c][1] \in Nat
    BY <1>11 DEF Register, Serial
  <2> QED
    BY <1>11, <2>1 DEF TypeOK, Register, Goto
<1>12. ASSUME NEW c \in Call, RegisterStop(c)
      PROVE  TypeOK'
  <2>1. Request_(c) \in Request /\ local[c][1] \in Nat
    BY <1>12 DEF RegisterStop, Serial
  <2>2. requests' \in [Request -> Association \cup {Nil}]
    <3>1. CASE Current(Request_(c), local[c][1])
      <4>1. requests' = [requests EXCEPT ![Request_(c)].stored = TRUE] /\ requests[Request_(c)] # Nil
        BY <1>12, <3>1 DEF RegisterStop, Current
      <4> QED
        BY <1>b, <2>1, <4>1, StoredWrite
    <3>2. CASE ~Current(Request_(c), local[c][1])
      BY <1>b, <1>12, <3>2 DEF RegisterStop
    <3> QED
      BY <3>1, <3>2
  <2> QED
    BY <1>12, <2>1, <2>2 DEF TypeOK, RegisterStop, Return, Goto
<1>13. ASSUME NEW c \in Call, ReleaseDispose(c)
      PROVE  TypeOK'
  <2>1. Slot(handle[c]) \in Slots
    BY <1>13 DEF ReleaseDispose, Leased, Leasing, Returning, Slot
  <2> QED
    BY <1>13, <2>1 DEF TypeOK, ReleaseDispose, Disposed, Goto
<1>14. ASSUME NEW c \in Call, ReleaseReturn(c)
      PROVE  TypeOK'
  <2>1. Slot(handle[c]) \in Slots
    BY <1>14 DEF ReleaseReturn, Leased, Leasing, Returning, Slot
  <2>2. checkouts' = [checkouts EXCEPT ![Slot(handle[c])] = @ - 1]
    BY <1>14 DEF ReleaseReturn, Returned
  <2>3. checkouts' \in [Slots -> Int]
    <3>1. checkouts \in [Slots -> Int]
      BY DEF TypeOK
    <3>2. checkouts[Slot(handle[c])] \in Int
      BY <2>1, <3>1
    <3> QED
      BY <2>1, <2>2, <3>1, <3>2
  <2> QED
    BY <1>14, <2>3 DEF TypeOK, ReleaseReturn, Goto
<1>15. ASSUME NEW c \in Call, ReleaseState(c)
      PROVE  TypeOK'
  <2>1. Slot(handle[c]) \in Slots
    BY <1>15 DEF ReleaseState, Leased, Leasing, Returning, Slot
  <2>2. slots' \in [Slots -> SlotType]
    <3>1. CASE Spoiled(c)
      BY <1>a, <1>15, <3>1, FreeSlotType DEF ReleaseState, Reset
    <3>2. CASE ~Spoiled(c)
      <4>1. slots' = [slots EXCEPT ![Slot(handle[c])].held = FALSE,
                                   ![Slot(handle[c])].request = Nil,
                                   ![Slot(handle[c])].released = now]
        BY <1>15, <3>2 DEF ReleaseState
      <4> QED
        BY <1>a, <2>1, <4>1, SlotWrites
    <3> QED
      BY <3>1, <3>2
  <2>3. /\ requests' \in [Request -> Association \cup {Nil}]
        /\ files' \in [File -> Query \cup {Nil}] /\ clean' \subseteq clean
    <3>1. CASE Spoiled(c)
      BY <1>b, <1>15, <3>1 DEF ReleaseState, Reset, Drop, FilesWithout
    <3>2. CASE ~Spoiled(c)
      BY <1>b, <1>15, <3>2 DEF ReleaseState
    <3> QED
      BY <3>1, <3>2
  <2> QED
    BY <1>15, <2>2, <2>3 DEF TypeOK, ReleaseState, Notified, Goto
<1>16. ASSUME NEW c \in Call, NEW outcome, Initialize(c, outcome)
      PROVE  TypeOK'
  <2>1. /\ active' \in BOOLEAN
        /\ pins' \in [Direct -> Checker \cup {"new", "empty", "failed", "done"}]
    BY <1>16, InitializeEffect
  <2>2. cell' \in [Slots -> Checker \cup {"empty", "failed"}]
    <3>1. cell \in [Slots -> Checker \cup {"empty", "failed"}] /\ c \in Checker
      BY DEF TypeOK, Checker
    <3>2. \/ cell' = cell
          \/ \E v \in {"failed", c} : cell' = [cell EXCEPT ![Slot(c)] = v]
      BY <1>16, InitializeEffect
    <3> QED
      BY <3>1, <3>2
  <2> QED
    BY <1>16, <2>1, <2>2 DEF TypeOK, Initialize, Goto
<1>17. ASSUME NEW c \in Call, SpuriousWake(c)
      PROVE  TypeOK'
    BY <1>17 DEF TypeOK, SpuriousWake, Goto
<1>18. ASSUME NEW c \in Call, BeginOperation(c)
      PROVE  TypeOK'
  <2>1. call[c].thread \in Thread
    BY <1>18 DEF TypeOK, BeginOperation, Placed, Arguments
  <2> QED
    BY <1>18, <2>1 DEF TypeOK, BeginOperation
<1>19. ASSUME NEW c \in Call, NEW outcome, EndOperation(c, outcome)
      PROVE  TypeOK'
  <2>1. chk[handle[c]] \in Checker
    BY <1>19 DEF EndOperation, Placed, Leased, Leasing, Holding
  <2>2. canceled' \in SUBSET Checker /\ active' \in BOOLEAN
    BY <1>19, <2>1 DEF TypeOK, EndOperation
  <2> QED
    BY <1>19, <2>2 DEF TypeOK, EndOperation
<1>20. ASSUME NEW c \in Call, DropHandle(c)
      PROVE  TypeOK'
    BY <1>20 DEF TypeOK, DropHandle, Goto
<1>21. ASSUME NEW a \in Actor, Schedule(a)
      PROVE  TypeOK'
  <2> DEFINE d == IF timing.discarded \/ ~active \/ Deadlines = {} THEN Nil ELSE Min(Deadlines)
  <2>3. d \in Nat \cup {Nil}
    BY NextDeadline
  <2>4. pc' \in [Actor -> PC]
    BY <1>21 DEF TypeOK, Schedule, Disarm, Ended, Goto
  <2> HIDE DEF d
  <2>5. \/ UNCHANGED <<timing, armed, local>>
        \/ /\ timing' = [timing EXCEPT !.deadline = d, !.epoch = @ + 1, !.timer = Nil]
           /\ armed' \subseteq armed
           /\ local' = [local EXCEPT ![a] = <<timing.epoch + 1, d>>]
    BY <1>21 DEF Schedule, Disarm, d
  <2>6. /\ timing' \in TimingType
        /\ armed' \in SUBSET (Nat \X Nat)
        /\ local' \in [Actor -> (Nat \X (Nat \cup {Nil})) \cup {Nil}]
    <3>1. timing' \in TimingType /\ armed' \in SUBSET (Nat \X Nat)
      <4>1. CASE UNCHANGED <<timing, armed, local>>
        BY <1>c, <4>1
      <4>2. CASE /\ timing' = [timing EXCEPT !.deadline = d, !.epoch = @ + 1, !.timer = Nil]
                 /\ armed' \subseteq armed
        BY <1>c, <2>3, <4>2, TimingWrites
      <4> QED
        BY <2>5, <4>1, <4>2
    <3>2. timing.epoch + 1 \in Nat
      BY <1>c DEF TimingType
    <3>3. local' \in [Actor -> (Nat \X (Nat \cup {Nil})) \cup {Nil}]
      BY <2>3, <2>5, <3>2 DEF TypeOK
    <3> QED
      BY <3>1, <3>3
  <2> QED
    BY <1>21, <2>4, <2>6 DEF TypeOK, Schedule
<1>22. ASSUME NEW a \in Actor, Arm(a)
      PROVE  TypeOK'
  <2>1. local[a] \in Nat \X Nat
    BY <1>22 DEF Arm, Epoch
  <2>2. Max({local[a][2], now + 1}) \in Nat
    <3>1. local[a][2] \in Nat /\ now + 1 \in Nat
      BY <1>a, <2>1
    <3> QED
      BY <3>1, MaxOfTwo
  <2> QED
    BY <1>22, <2>1, <2>2 DEF TypeOK, Arm, Goto
<1>23. ASSUME NEW a \in Actor, StoreTimer(a)
      PROVE  TypeOK'
  <2>1. local[a][1] \in Nat
    BY <1>23 DEF StoreTimer, Epoch
  <2>2. timing' \in TimingType
    <3>1. timing' = timing \/ timing' = [timing EXCEPT !.timer = local[a][1]]
      BY <1>23 DEF StoreTimer
    <3>2. CASE timing' = [timing EXCEPT !.timer = local[a][1]]
      BY <1>c, <2>1, <3>2, TimingWrites
    <3> QED
      BY <1>c, <3>1, <3>2
  <2> QED
    BY <1>23, <2>2 DEF TypeOK, StoreTimer, Disarm, Ended, Goto
<1>24. ASSUME NEW r \in Request, Cancel(r)
      PROVE  TypeOK'
    BY <1>24 DEF TypeOK, Cancel
<1>25. ASSUME NEW x \in fired, RunCleanup(x[1], x[2])
      PROVE  TypeOK'
    BY <1>25 DEF TypeOK, RunCleanup
<1>26. ASSUME NEW c \in firedWakes, RunWake(c)
      PROVE  TypeOK'
    BY <1>26 DEF TypeOK, RunWake, Notified
<1>27. ASSUME NEW w \in Cleaner, NEW x \in armed, Fire(x[1], w)
      PROVE  TypeOK'
    BY <1>27 DEF TypeOK, Fire, Disarm, Goto
<1>28. ASSUME NEW w \in Cleaner, Cleanup(w)
      PROVE  TypeOK'
  <2>1. /\ slots' \in [Slots -> SlotType]
        /\ requests' \in [Request -> Association \cup {Nil}]
        /\ files' \in [File -> Query \cup {Nil}] /\ clean' \subseteq clean
    <3>1. CASE UNCHANGED <<slots, requests, files, clean>>
      BY <1>a, <1>b, <3>1
    <3>2. CASE \E I : Reset(I)
      BY <1>a, <1>b, <3>2, FreeSlotType DEF Reset, Drop, FilesWithout
    <3> QED
      BY <1>28, <3>1, <3>2 DEF Cleanup
  <2>2. cell' \in [Slots -> Checker \cup {"empty", "failed"}]
    BY <1>28 DEF TypeOK, Cleanup, Evicted
  <2>3. timing' \in TimingType
    BY <1>c, <1>28, TimingWrites DEF Cleanup
  <2> QED
    BY <1>28, <2>1, <2>2, <2>3 DEF TypeOK, Cleanup, Disarm, Goto
<1>29. ASSUME Discard
      PROVE  TypeOK'
  <2>1. timing' \in TimingType
    BY <1>c, <1>29 DEF TimingType, Discard
  <2> QED
    BY <1>29, <2>1 DEF TypeOK, Discard, Disarm
<1>30. ASSUME Tick
      PROVE  TypeOK'
    BY <1>30 DEF TypeOK, Tick
<1>31. ASSUME Finished \/ UNCHANGED vars
      PROVE  TypeOK'
    BY <1>31 DEF TypeOK, Finished, vars
<1>32. ASSUME NEW x \in Direct, Pinning(x)
      PROVE  TypeOK'
    BY <1>32, PinEffect DEF TypeOK, Unscheduled
<1> QED
    BY <1>1, <1>2, <1>3, <1>4, <1>5, <1>6, <1>7, <1>8, <1>9, <1>10, <1>11, <1>12, <1>13,
       <1>14, <1>15, <1>16, <1>17, <1>18, <1>19, <1>20, <1>21, <1>22, <1>23, <1>24, <1>25,
       <1>26, <1>27, <1>28, <1>29, <1>30, <1>31, <1>32
       DEF Next, Internal, Select, Initializer, Ends, Scheduling, Callbacks, Timers

(* Every step keeps the calls in place. *)
LEMMA PlacedStep == Shape /\ [Next]_vars => (Placed /\ Serial /\ Epoch)'
<1> SUFFICES ASSUME Shape, [Next]_vars PROVE (Placed /\ Serial /\ Epoch)'
    OBVIOUS
<1> USE NilAssumption
    DEF Placed, Serial, Epoch, PC, Actor, Reserving, data, poolVars, pending, contextVars,
        timerVars, tables, Slot, Request_
<1> Placed /\ Leased /\ Serial /\ Epoch
    BY DEF Shape
<1>a. /\ pc \in [Actor -> PC] /\ call \in [Call -> Arguments \cup {Nil}]
      /\ at \in [Call -> (Slots \X BOOLEAN) \cup {Nil}] /\ chk \in [Call -> Checker \cup {Nil}]
      /\ op \in [Call -> Thread \cup {Nil}]
      /\ local \in [Actor -> (Nat \X (Nat \cup {Nil})) \cup {Nil}]
      /\ next_association \in Nat
    BY DEF Shape, TypeOK
<1>b. local' \in [Actor -> (Nat \X (Nat \cup {Nil})) \cup {Nil}]
    BY TypeStep DEF TypeOK
<1>c. timing \in TimingType /\ armed \in SUBSET (Nat \X Nat)
    BY DEF Shape, TypeOK
<1>1. ASSUME NEW c \in Call, NEW t \in Thread, NEW ask \in Asks,
             StartAcquire(c, t, ask[1], ask[2], ask[3])
      PROVE  (Placed /\ Serial /\ Epoch)'
  <2>1. ask[1] \in Lifetime /\ ask[2] \in Request \cup {Nil} /\ ask[3] \in File \cup {Nil}
    BY AsksAssumption
  <2>2. PICK o \in Call \cup {Nil} :
           call' = [call EXCEPT ![c] = [thread |-> t, life |-> ask[1], ctx |-> ask[2],
                                        file |-> ask[3], outer |-> o]]
    BY <1>a, <1>1 DEF StartAcquire, Innermost
  <2>3. \A d \in Call : d # c => call'[d] = call[d]
    BY <1>a, <2>2
  <2>4. call'[c] \in Arguments
    BY <1>a, <2>1, <2>2 DEF Arguments
  <2>5. /\ pc[c] = "new" /\ pc'[c] = "select" /\ UNCHANGED <<at, chk, op, local>>
        /\ \A a \in Actor \ {c} : pc'[a] = pc[a] \/ (pc[a] = "asleep" /\ pc'[a] = "select")
    BY <1>a, <1>1 DEF StartAcquire, Notified, Goto
  <2> QED
    BY <1>a, <2>3, <2>4, <2>5
<1>2. ASSUME NEW c \in Call, SelectRefused(c)
      PROVE  (Placed /\ Serial /\ Epoch)'
    BY <1>a, <1>2 DEF SelectRefused, Return, Goto
<1>3. ASSUME NEW c \in Call, SelectShared(c)
      PROVE  (Placed /\ Serial /\ Epoch)'
    BY <1>a, <1>3 DEF SelectShared, Return, Goto
<1>4. ASSUME NEW c \in Call, SelectClaim(c)
      PROVE  (Placed /\ Serial /\ Epoch)'
  <2>1. /\ Candidate(c) \in Slots \X BOOLEAN
        /\ Candidate(c)[1] \in SlotsOf(call[c].life)
        /\ Candidate(c)[2] => call[c].life = "temporary"
    BY <1>a, <1>4, Offered DEF SelectClaim
  <2>2. /\ at' = [at EXCEPT ![c] = Candidate(c)] /\ UNCHANGED <<call, chk, op, local>>
        /\ pc[c] = "select" /\ pc' = [pc EXCEPT ![c] = "pool"]
    BY <1>a, <1>4 DEF SelectClaim, Goto
  <2> QED
    BY <1>a, <2>1, <2>2
<1>5. ASSUME NEW c \in Call, SelectReentry(c)
      PROVE  (Placed /\ Serial /\ Epoch)'
    BY <1>a, <1>5 DEF SelectReentry, Return, Drop, Goto
<1>6. ASSUME NEW c \in Call, SelectWait(c)
      PROVE  (Placed /\ Serial /\ Epoch)'
    BY <1>a, <1>6 DEF SelectWait, Drop, Goto
<1>7. ASSUME NEW c \in Call, PoolEnter(c)
      PROVE  (Placed /\ Serial /\ Epoch)'
    BY <1>a, <1>7 DEF PoolEnter, Goto
<1>8. ASSUME NEW c \in Call, Validate(c)
      PROVE  (Placed /\ Serial /\ Epoch)'
    BY <1>a, <1>8 DEF Validate, Goto
<1>9. ASSUME NEW c \in Call, Unreserve(c)
      PROVE  (Placed /\ Serial /\ Epoch)'
    BY <1>a, <1>9 DEF Unreserve, Notified, Goto
<1>10. ASSUME NEW c \in Call, Publish(c)
      PROVE  (Placed /\ Serial /\ Epoch)'
  <2>1. /\ pc[c] = "publish" /\ pc'[c] \in {"register", "held"}
        /\ pc'[c] = "register" => Request_(c) # Nil
        /\ local' = [local EXCEPT ![c] = <<next_association, Nil>>]
        /\ UNCHANGED <<call, at, chk, op>>
        /\ \A a \in Actor \ {c} : pc'[a] = pc[a] \/ (pc[a] = "asleep" /\ pc'[a] = "select")
    BY <1>a, <1>10 DEF Publish, Notified, Goto
  <2>2. pc'[c] = "register" => Request_(c) \in Request
    BY <2>1 DEF Arguments
  <2> QED
    BY <1>a, <2>1, <2>2
<1>11. ASSUME NEW c \in Call, Register(c)
      PROVE  (Placed /\ Serial /\ Epoch)'
    BY <1>a, <1>11 DEF Register, Goto
<1>12. ASSUME NEW c \in Call, RegisterStop(c)
      PROVE  (Placed /\ Serial /\ Epoch)'
    BY <1>a, <1>12 DEF RegisterStop, Return, Goto
<1>13. ASSUME NEW c \in Call, ReleaseDispose(c)
      PROVE  (Placed /\ Serial /\ Epoch)'
    BY <1>a, <1>13 DEF ReleaseDispose, Disposed, Goto
<1>14. ASSUME NEW c \in Call, ReleaseReturn(c)
      PROVE  (Placed /\ Serial /\ Epoch)'
    BY <1>a, <1>14 DEF ReleaseReturn, Returned, Goto
<1>15. ASSUME NEW c \in Call, ReleaseState(c)
      PROVE  (Placed /\ Serial /\ Epoch)'
    BY <1>a, <1>15 DEF ReleaseState, Reset, Drop, FilesWithout, Notified, Goto
<1>16. ASSUME NEW c \in Call, NEW outcome, Initialize(c, outcome)
      PROVE  (Placed /\ Serial /\ Epoch)'
    BY <1>a, <1>16 DEF Initialize, Goto
<1>17. ASSUME NEW c \in Call, SpuriousWake(c)
      PROVE  (Placed /\ Serial /\ Epoch)'
    BY <1>a, <1>17 DEF SpuriousWake, Goto
<1>18. ASSUME NEW c \in Call, BeginOperation(c)
      PROVE  (Placed /\ Serial /\ Epoch)'
    BY <1>a, <1>18 DEF BeginOperation
<1>19. ASSUME NEW c \in Call, NEW outcome, EndOperation(c, outcome)
      PROVE  (Placed /\ Serial /\ Epoch)'
    BY <1>a, <1>19 DEF EndOperation
<1>20. ASSUME NEW c \in Call, DropHandle(c)
      PROVE  (Placed /\ Serial /\ Epoch)'
    BY <1>a, <1>20 DEF DropHandle, Goto
<1>21. ASSUME NEW a \in Actor, Schedule(a)
      PROVE  (Placed /\ Serial /\ Epoch)'
  <2>1. /\ pc[a] = "schedule" /\ UNCHANGED <<call, at, chk, op>>
        /\ \/ pc' = [pc EXCEPT ![a] = Ended(a)] /\ local' = local
           \/ \E e \in Nat \cup {Nil} :
                    /\ local' = [local EXCEPT ![a] = <<timing.epoch + 1, e>>]
                    /\ pc' = [pc EXCEPT ![a] = IF e = Nil THEN Ended(a) ELSE "arm"]
    BY <1>a, <1>21, NextDeadline DEF Schedule, Goto
  <2>2. Ended(a) = (IF a \in Cleaner THEN "idle" ELSE "done")
    BY DEF Ended
  <2>3. ASSUME NEW e \in Nat \cup {Nil}, local' = [local EXCEPT ![a] = <<timing.epoch + 1, e>>],
               pc' = [pc EXCEPT ![a] = IF e = Nil THEN Ended(a) ELSE "arm"]
        PROVE  (Placed /\ Serial /\ Epoch)'
    <3>1. timing.epoch + 1 \in Nat
      BY <1>a, <1>c DEF TimingType
    <3>2. e # Nil => <<timing.epoch + 1, e>> \in Nat \X Nat
      BY <3>1
    <3> QED
      BY <1>a, <2>1, <2>2, <2>3, <3>2
  <2> QED
    <3>1. CASE pc' = [pc EXCEPT ![a] = Ended(a)] /\ local' = local
      BY <1>a, <2>1, <2>2, <3>1
    <3> QED
      BY <2>1, <2>3, <3>1
<1>22. ASSUME NEW a \in Actor, Arm(a)
      PROVE  (Placed /\ Serial /\ Epoch)'
    BY <1>a, <1>22 DEF Arm, Goto
<1>23. ASSUME NEW a \in Actor, StoreTimer(a)
      PROVE  (Placed /\ Serial /\ Epoch)'
    BY <1>a, <1>23 DEF StoreTimer, Disarm, Ended, Goto
<1>24. ASSUME NEW r \in Request, Cancel(r)
      PROVE  (Placed /\ Serial /\ Epoch)'
    BY <1>a, <1>24 DEF Cancel
<1>25. ASSUME NEW x \in fired, RunCleanup(x[1], x[2])
      PROVE  (Placed /\ Serial /\ Epoch)'
    BY <1>a, <1>25 DEF RunCleanup
<1>26. ASSUME NEW c \in firedWakes, RunWake(c)
      PROVE  (Placed /\ Serial /\ Epoch)'
    BY <1>a, <1>26 DEF RunWake, Notified
<1>27. ASSUME NEW w \in Cleaner, NEW x \in armed, Fire(x[1], w)
      PROVE  (Placed /\ Serial /\ Epoch)'
  <2>1. x[1] \in Nat
    BY <1>a, <1>c
  <2> QED
    BY <1>a, <1>27, <2>1 DEF Fire, Disarm, Goto
<1>28. ASSUME NEW w \in Cleaner, Cleanup(w)
      PROVE  (Placed /\ Serial /\ Epoch)'
    BY <1>a, <1>28 DEF Cleanup, Disarm, Reset, Drop, FilesWithout, Evicted, Goto
<1>29. ASSUME Discard
      PROVE  (Placed /\ Serial /\ Epoch)'
    BY <1>a, <1>29 DEF Discard, Disarm
<1>30. ASSUME Tick
      PROVE  (Placed /\ Serial /\ Epoch)'
    BY <1>a, <1>30 DEF Tick
<1>31. ASSUME Finished \/ UNCHANGED vars
      PROVE  (Placed /\ Serial /\ Epoch)'
    BY <1>a, <1>31 DEF Finished, vars
<1>32. ASSUME NEW x \in Direct, Pinning(x)
      PROVE  (Placed /\ Serial /\ Epoch)'
  <2>1. UNCHANGED <<pc, call, at, chk, op, local>>
    BY <1>32, PinEffect DEF Unscheduled
  <2> QED
    BY <2>1
<1> QED
    BY <1>1, <1>2, <1>3, <1>4, <1>5, <1>6, <1>7, <1>8, <1>9, <1>10, <1>11, <1>12, <1>13,
       <1>14, <1>15, <1>16, <1>17, <1>18, <1>19, <1>20, <1>21, <1>22, <1>23, <1>24, <1>25,
       <1>26, <1>27, <1>28, <1>29, <1>30, <1>31, <1>32
       DEF Next, Internal, Select, Initializer, Ends, Scheduling, Callbacks, Timers

----------------------------------------------------------------------------
(* What the steps do to the slots *)

(* A claim takes a slot of the call's class that nobody holds, and only marks
   it. *)
LEMMA ClaimEffect ==
    ASSUME Shape, NEW c \in Call, SelectClaim(c)
    PROVE  LET i == Candidate(c)[1]
           IN  /\ i \in Slots /\ i \in SlotsOf(call[c].life) /\ ~slots[i].held
               /\ \A j \in Slots \ {i} : slots'[j] = slots[j]
               /\ slots'[i].held /\ slots'[i].request = Request_(c)
               /\ slots'[i].initialized = slots[i].initialized
               /\ slots'[i].lease = slots[i].lease /\ slots'[i].identity = slots[i].identity
               /\ slots'[i].released = slots[i].released
               /\ at' = [at EXCEPT ![c] = Candidate(c)] /\ at'[c] = Candidate(c)
<1>1. /\ Candidate(c)[1] \in Slots /\ Candidate(c)[1] \in SlotsOf(call[c].life)
      /\ ~slots[Candidate(c)[1]].held
    BY Offered DEF SelectClaim
<1>2. slots \in [Slots -> SlotType] /\ at \in [Call -> (Slots \X BOOLEAN) \cup {Nil}]
    BY DEF Shape, TypeOK
<1>3. slots' = [slots EXCEPT ![Candidate(c)[1]].held = TRUE,
                             ![Candidate(c)[1]].initializing = call[c].thread,
                             ![Candidate(c)[1]].request = Request_(c)]
    BY DEF SelectClaim
<1>4. at' = [at EXCEPT ![c] = Candidate(c)]
    BY DEF SelectClaim
<1>5. at'[c] = Candidate(c)
    BY <1>2, <1>4
<1> QED
    BY <1>1, <1>2, <1>3, <1>4, <1>5 DEF SlotType

(* A reservation given up leaves what the scheduler knows of the slot's
   checker. *)
LEMMA UnreserveEffect ==
    ASSUME Shape, NEW c \in Call, Unreserve(c)
    PROVE  LET i == Slot(c)
           IN  /\ i \in Slots /\ i \in SlotsOf(call[c].life)
               /\ \A j \in Slots \ {i} : slots'[j] = slots[j]
               /\ ~slots'[i].held /\ slots'[i].request = slots[i].request
               /\ slots'[i].initialized = slots[i].initialized
               /\ slots'[i].lease = slots[i].lease /\ slots'[i].identity = slots[i].identity
               /\ slots'[i].released = slots[i].released
<1>1. Slot(c) \in Slots /\ Slot(c) \in SlotsOf(call[c].life)
    BY DEF Shape, Placed, Unreserve, Reserving, Slot
<1>2. slots \in [Slots -> SlotType]
    BY DEF Shape, TypeOK
<1>3. slots' = [slots EXCEPT ![Slot(c)].held = FALSE, ![Slot(c)].initializing = Nil]
    BY DEF Unreserve
<1> QED
    BY <1>1, <1>2, <1>3 DEF SlotType

(* A publication records the checker and the lease in the slot that was
   reserved. *)
LEMMA PublishEffect ==
    ASSUME Shape, NEW c \in Call, Publish(c)
    PROVE  LET i == Slot(c)
           IN  /\ i \in Slots /\ i \in SlotsOf(call[c].life)
               /\ \A j \in Slots \ {i} : slots'[j] = slots[j]
               /\ slots'[i].held = slots[i].held /\ slots'[i].request = slots[i].request
               /\ slots'[i].initialized
               /\ slots'[i].lease = c /\ slots'[i].identity = chk[c]
               /\ slots'[i].released = slots[i].released
<1>1. Slot(c) \in Slots /\ Slot(c) \in SlotsOf(call[c].life)
    BY DEF Shape, Placed, Publish, Reserving, Slot
<1>2. slots \in [Slots -> SlotType]
    BY DEF Shape, TypeOK
<1>3. slots' = [slots EXCEPT ![Slot(c)].initialized = TRUE, ![Slot(c)].identity = chk[c],
                             ![Slot(c)].initializing = Nil, ![Slot(c)].lease = c]
    BY DEF Publish
<1> QED
    BY <1>1, <1>2, <1>3 DEF SlotType

(* A release frees the slot, and forgets it when its checker was cancelled. *)
LEMMA ReleaseEffect ==
    ASSUME Shape, NEW c \in Call, ReleaseState(c)
    PROVE  LET i == Slot(handle[c])
           IN  /\ i \in Slots
               /\ \A j \in Slots \ {i} : slots'[j] = slots[j]
               /\ ~slots'[i].held
               /\ slots'[i].lease \in {Nil, slots[i].lease}
               /\ Spoiled(c) => slots'[i] = FreeSlot /\ Reset({i})
               /\ ~Spoiled(c) => /\ slots'[i].initialized = slots[i].initialized
                                 /\ slots'[i].lease = slots[i].lease
                                 /\ slots'[i].identity = slots[i].identity
                                 /\ slots'[i].released = now
                                 /\ UNCHANGED <<requests, files, clean>>
<1>1. Slot(handle[c]) \in Slots
    BY DEF Shape, Leased, ReleaseState, Leasing, Returning, Slot
<1>2. slots \in [Slots -> SlotType]
    BY DEF Shape, TypeOK
<1>3. CASE Spoiled(c)
  <2>1. Reset({Slot(handle[c])})
    BY <1>3 DEF ReleaseState
  <2>2. slots' = [i \in Slots |-> IF i \in {Slot(handle[c])} THEN FreeSlot ELSE slots[i]]
    BY <2>1 DEF Reset
  <2>3. FreeSlot.held = FALSE /\ FreeSlot.lease = Nil
    BY DEF FreeSlot
  <2> QED
    BY <1>1, <1>3, <2>1, <2>2, <2>3
<1>4. CASE ~Spoiled(c)
  <2>1. slots' = [slots EXCEPT ![Slot(handle[c])].held = FALSE, ![Slot(handle[c])].request = Nil,
                               ![Slot(handle[c])].released = now]
    BY <1>4 DEF ReleaseState
  <2>2. UNCHANGED <<requests, files, clean>>
    BY <1>4 DEF ReleaseState
  <2> QED
    BY <1>1, <1>2, <1>4, <2>1, <2>2 DEF SlotType
<1> QED
    BY <1>3, <1>4

(* What cleanup() evicts was idle, with no checkout. *)
LEMMA CleanupEffect ==
    ASSUME Shape, NEW w \in Cleaner, Cleanup(w)
    PROVE  \E I \in SUBSET Slots :
               /\ \A i \in I : /\ slots[i].initialized /\ ~slots[i].held
                              /\ checkouts[i] = 0 /\ active /\ i # Api
               /\ Reset(I) /\ cell' = Evicted(I)
               /\ \/ /\ timing.discarded \/ timing.epoch # local[w][1]
                     /\ UNCHANGED <<slots, requests, files, cell, clean, timing, armed>>
                     /\ pc' = [pc EXCEPT ![w] = "idle"]
                  \/ /\ ~timing.discarded /\ timing.epoch = local[w][1]
                     /\ timing' = [timing EXCEPT !.deadline = Nil, !.timer = Nil]
                     /\ armed' = Disarm(timing.timer)
                     /\ pc' = [pc EXCEPT ![w] = "schedule"]
<1>1. slots \in [Slots -> SlotType] /\ cell \in [Slots -> Checker \cup {"empty", "failed"}]
    BY DEF Shape, TypeOK
<1>2. /\ requests \in [Request -> Association \cup {Nil}] /\ files \in [File -> Query \cup {Nil}]
      /\ clean \in SUBSET (Request \X Nat)
    BY DEF Shape, TypeOK
<1>3. CASE timing.discarded \/ timing.epoch # local[w][1]
  <2>1. /\ UNCHANGED <<slots, requests, files, cell, clean, timing, armed>>
        /\ pc' = [pc EXCEPT ![w] = "idle"]
    BY <1>3 DEF Cleanup, Goto
  <2>2. slots' = [i \in Slots |-> IF i \in {} THEN FreeSlot ELSE slots[i]]
    BY <1>1, <2>1
  <2>3. files' = FilesWithout({})
    BY <1>2, <2>1 DEF FilesWithout
  <2>4. Drop({r \in Request : requests[r] # Nil /\ requests[r].index \in {}})
    BY <1>2, <2>1 DEF Drop, Stored
  <2>5. cell' = Evicted({})
    BY <1>1, <2>1 DEF Evicted
  <2>6. Reset({})
    BY <2>2, <2>3, <2>4, Zenon DEF Reset
  <2> QED
    BY <1>3, <2>1, <2>5, <2>6
<1>4. CASE ~(timing.discarded \/ timing.epoch # local[w][1])
  <2> DEFINE I == IF active THEN {i \in Idle : checkouts[i] = 0} ELSE {}
  <2>1. /\ timing' = [timing EXCEPT !.deadline = Nil, !.timer = Nil]
        /\ armed' = Disarm(timing.timer) /\ cell' = Evicted(I) /\ Reset(I)
        /\ pc' = [pc EXCEPT ![w] = "schedule"]
    BY <1>4, Zenon DEF Cleanup, Goto
  <2>2. \A i \in I : /\ i \in Slots /\ slots[i].initialized /\ ~slots[i].held
                     /\ checkouts[i] = 0 /\ active /\ i # Api
    BY DEF Idle, IdleFrom, Evictable
  <2> HIDE DEF I
  <2> QED
    BY <1>4, <2>1, <2>2
<1> QED
    BY <1>3, <1>4

(* What forgetting slots leaves of the associations. *)
LEMMA ResetEffect ==
    ASSUME Shape, NEW I \in SUBSET Slots, Reset(I)
    PROVE  /\ \A i \in Slots : slots'[i] = IF i \in I THEN FreeSlot ELSE slots[i]
           /\ \A r \in Request : requests'[r] = IF requests[r] # Nil /\ requests[r].index \in I
                                                 THEN Nil ELSE requests[r]
           /\ \A f \in File : files'[f] = IF files[f] \in I THEN Nil ELSE files[f]
BY DEF Reset, Drop, FilesWithout

(* Every step keeps the leases in place. *)
LEMMA LeasedStep == Shape /\ [Next]_vars => (Leased /\ Named /\ Indexed)'
<1> SUFFICES ASSUME Shape, [Next]_vars PROVE (Leased /\ Named /\ Indexed)'
    OBVIOUS
<1> USE NilAssumption
    DEF Leased, Named, Indexed, PC, Actor, Reserving, Leasing, Holding, Returning, Past,
        data, poolVars, pending, contextVars, timerVars, tables, Slot
<1> Placed /\ Leased /\ Named /\ Indexed
    BY DEF Shape
<1>a. /\ pc \in [Actor -> PC] /\ at \in [Call -> (Slots \X BOOLEAN) \cup {Nil}]
      /\ chk \in [Call -> Checker \cup {Nil}] /\ handle \in [Call -> Call \cup {Nil}]
      /\ slots \in [Slots -> SlotType] /\ requests \in [Request -> Association \cup {Nil}]
    BY DEF Shape, TypeOK
<1>b. \A i \in Slots : slots[i].lease \in Call \cup {Nil}
    BY <1>a DEF SlotType
<1>1. ASSUME NEW c \in Call, NEW t \in Thread, NEW ask \in Asks,
             StartAcquire(c, t, ask[1], ask[2], ask[3])
      PROVE  (Leased /\ Named /\ Indexed)'
  <2>1. /\ pc[c] = "new" /\ pc'[c] = "select" /\ UNCHANGED <<slots, requests, at, handle, chk>>
        /\ \A d \in Call \ {c} : pc'[d] = pc[d] \/ (pc[d] = "asleep" /\ pc'[d] = "select")
    BY <1>a, <1>b, <1>1 DEF StartAcquire, Notified, Goto
  <2> QED
    BY <1>a, <1>b, <2>1
<1>2. ASSUME NEW c \in Call, SelectRefused(c)
      PROVE  (Leased /\ Named /\ Indexed)'
    BY <1>a, <1>b, <1>2 DEF SelectRefused, Return, Goto
<1>3. ASSUME NEW c \in Call, SelectShared(c)
      PROVE  (Leased /\ Named /\ Indexed)'
  <2>1. Associated(c).index \in Slots
    BY <1>a, <1>b, <1>3, Known DEF SelectShared, Shares, Mine, Matches
  <2> DEFINE l == slots[Associated(c).index].lease
  <2>2. PICK d \in Call : handle[d] = l /\ pc[d] \in Holding
    BY <1>a, <1>b, <1>3 DEF SelectShared, Shares, Handles
  <2>3. /\ handle' = [handle EXCEPT ![c] = l] /\ pc' = [pc EXCEPT ![c] = "held"]
        /\ UNCHANGED <<slots, requests, at, chk>>
    BY <1>a, <1>b, <1>3 DEF SelectShared, Return, Goto
  <2> HIDE DEF l
  <2> QED
    BY <1>a, <1>b, <2>2, <2>3
<1>4. ASSUME NEW c \in Call, SelectClaim(c)
      PROVE  (Leased /\ Named /\ Indexed)'
  <2>1. Candidate(c) \in Slots \X BOOLEAN /\ Candidate(c)[1] \in Slots
    BY <1>4, Offered DEF SelectClaim
  <2>2. \A i \in Slots : slots'[i].lease = slots[i].lease
    BY <1>a, <1>4, <2>1 DEF SelectClaim, SlotType
  <2>3. /\ pc[c] = "select" /\ pc' = [pc EXCEPT ![c] = "pool"]
        /\ at' = [at EXCEPT ![c] = Candidate(c)] /\ UNCHANGED <<handle, chk>>
    BY <1>4 DEF SelectClaim, Goto
  <2>4. \A r \in Request : requests'[r] \in {Nil, requests[r]}
    BY <1>4 DEF SelectClaim, Drop
  <2>5. Leased'
    BY <1>a, <2>3
  <2>6. Named'
    BY <1>a, <1>b, <2>2, <2>3
  <2> QED
    BY <2>4, <2>5, <2>6
<1>5. ASSUME NEW c \in Call, SelectReentry(c)
      PROVE  (Leased /\ Named /\ Indexed)'
    BY <1>a, <1>b, <1>5 DEF SelectReentry, Return, Drop, Goto
<1>6. ASSUME NEW c \in Call, SelectWait(c)
      PROVE  (Leased /\ Named /\ Indexed)'
    BY <1>a, <1>b, <1>6 DEF SelectWait, Drop, Goto
<1>7. ASSUME NEW c \in Call, PoolEnter(c)
      PROVE  (Leased /\ Named /\ Indexed)'
    BY <1>a, <1>b, <1>7 DEF PoolEnter, Goto
<1>8. ASSUME NEW c \in Call, Validate(c)
      PROVE  (Leased /\ Named /\ Indexed)'
    BY <1>a, <1>b, <1>8 DEF Validate, Goto
<1>9. ASSUME NEW c \in Call, Unreserve(c)
      PROVE  (Leased /\ Named /\ Indexed)'
  <2>1. \A i \in Slots : slots'[i].lease = slots[i].lease
    BY <1>a, <1>b, <1>9, UnreserveEffect
  <2>2. /\ UNCHANGED <<requests, at, handle, chk>> /\ pc[c] = "unreserve" /\ pc'[c] = "done"
        /\ \A d \in Call \ {c} : pc'[d] = pc[d] \/ (pc[d] = "asleep" /\ pc'[d] = "select")
    BY <1>a, <1>b, <1>9 DEF Unreserve, Notified, Goto
  <2> QED
    BY <1>a, <1>b, <1>b, <2>1, <2>2
<1>10. ASSUME NEW c \in Call, Publish(c)
      PROVE  (Leased /\ Named /\ Indexed)'
  <2>1. Slot(c) \in Slots /\ at[c] \in Slots \X BOOLEAN /\ chk[c] \in Checker
    BY <1>a, <1>b, <1>10 DEF Publish, Placed
  <2>2. /\ pc[c] = "publish" /\ pc'[c] \in {"register", "held"}
        /\ UNCHANGED <<at, chk>> /\ handle' = [handle EXCEPT ![c] = c]
        /\ \A d \in Call \ {c} : pc'[d] = pc[d] \/ (pc[d] = "asleep" /\ pc'[d] = "select")
    BY <1>a, <1>b, <1>10 DEF Publish, Notified, Goto
  <2>3. \A i \in Slots : slots'[i].lease = (IF i = Slot(c) THEN c ELSE slots[i].lease)
    BY <1>a, <1>b, <1>10, <2>1 DEF Publish, SlotType
  <2>4. \A r \in Request : \/ requests'[r] = requests[r]
                           \/ /\ r = Request_(c)
                              /\ requests'[r] = [index |-> Slot(c), serial |-> next_association,
                                                 stored |-> FALSE]
    BY <1>a, <1>b, <1>10 DEF Publish
  <2>5. Request_(c) # Nil => Slot(c) # Api
    <3>1. call[c].life \in Lifetime /\ Slot(c) \in SlotsOf(call[c].life)
      BY <1>10 DEF Publish, Placed, Arguments
    <3>2. Request_(c) # Nil => call[c].life # "api"
      BY DEF Request_
    <3>3. \A l \in Lifetime : l # "api" => Api \notin SlotsOf(l)
      BY SlotFacts DEF SlotsOf, Lifetime
    <3> QED
      BY <3>1, <3>2, <3>3
  <2>6. (Leased /\ Named)'
    BY <1>a, <1>b, <2>1, <2>2, <2>3
  <2> QED
    BY <2>4, <2>5, <2>6
<1>11. ASSUME NEW c \in Call, Register(c)
      PROVE  (Leased /\ Named /\ Indexed)'
    BY <1>a, <1>b, <1>11 DEF Register, Goto
<1>12. ASSUME NEW c \in Call, RegisterStop(c)
      PROVE  (Leased /\ Named /\ Indexed)'
  <2>1. \A r \in Request : requests'[r] # Nil =>
             requests[r] # Nil /\ requests'[r].index = requests[r].index
    BY <1>a, <1>b, <1>12 DEF RegisterStop, Current, Association
  <2>2. UNCHANGED <<slots, at, handle, chk>> /\ pc[c] = "register2" /\ pc' = [pc EXCEPT ![c] = "held"]
    BY <1>a, <1>b, <1>12 DEF RegisterStop, Return, Goto
  <2> QED
    BY <1>a, <1>b, <1>b, <2>1, <2>2
<1>13. ASSUME NEW c \in Call, ReleaseDispose(c)
      PROVE  (Leased /\ Named /\ Indexed)'
    BY <1>a, <1>b, <1>13 DEF ReleaseDispose, Disposed, Goto
<1>14. ASSUME NEW c \in Call, ReleaseReturn(c)
      PROVE  (Leased /\ Named /\ Indexed)'
    BY <1>a, <1>b, <1>14 DEF ReleaseReturn, Returned, Goto
<1>15. ASSUME NEW c \in Call, ReleaseState(c)
      PROVE  (Leased /\ Named /\ Indexed)'
  <2>1. \A i \in Slots : slots'[i].lease \in {Nil, slots[i].lease}
    BY <1>a, <1>b, <1>15, ReleaseEffect
  <2>2. \A r \in Request : requests'[r] \in {Nil, requests[r]}
    <3>1. CASE Spoiled(c)
      <4>1. {Slot(handle[c])} \in SUBSET Slots /\ Reset({Slot(handle[c])})
        BY <1>a, <1>b, <1>15, <3>1, ReleaseEffect
      <4> QED
        BY <4>1, ResetEffect
    <3>2. CASE ~Spoiled(c)
      BY <1>a, <1>b, <1>15, <3>2, ReleaseEffect
    <3> QED
      BY <3>1, <3>2
  <2>3. /\ UNCHANGED <<at, handle, chk>> /\ pc[c] = "release" /\ pc'[c] = "schedule"
        /\ \A d \in Call \ {c} : pc'[d] = pc[d] \/ (pc[d] = "asleep" /\ pc'[d] = "select")
    BY <1>a, <1>b, <1>15 DEF ReleaseState, Reset, Drop, FilesWithout, Notified, Goto
  <2> QED
    BY <1>a, <1>b, <1>b, <2>1, <2>2, <2>3
<1>16. ASSUME NEW c \in Call, NEW outcome, Initialize(c, outcome)
      PROVE  (Leased /\ Named /\ Indexed)'
    BY <1>a, <1>b, <1>16 DEF Initialize, Goto
<1>17. ASSUME NEW c \in Call, SpuriousWake(c)
      PROVE  (Leased /\ Named /\ Indexed)'
    BY <1>a, <1>b, <1>17 DEF SpuriousWake, Goto
<1>18. ASSUME NEW c \in Call, BeginOperation(c)
      PROVE  (Leased /\ Named /\ Indexed)'
    BY <1>a, <1>b, <1>18 DEF BeginOperation
<1>19. ASSUME NEW c \in Call, NEW outcome, EndOperation(c, outcome)
      PROVE  (Leased /\ Named /\ Indexed)'
    BY <1>a, <1>b, <1>19 DEF EndOperation
<1>20. ASSUME NEW c \in Call, DropHandle(c)
      PROVE  (Leased /\ Named /\ Indexed)'
    BY <1>a, <1>b, <1>20 DEF DropHandle, Goto
<1>21. ASSUME NEW a \in Actor, Schedule(a)
      PROVE  (Leased /\ Named /\ Indexed)'
    BY <1>a, <1>b, <1>21 DEF Schedule, Disarm, Ended, Goto
<1>22. ASSUME NEW a \in Actor, Arm(a)
      PROVE  (Leased /\ Named /\ Indexed)'
    BY <1>a, <1>b, <1>22 DEF Arm, Goto
<1>23. ASSUME NEW a \in Actor, StoreTimer(a)
      PROVE  (Leased /\ Named /\ Indexed)'
    BY <1>a, <1>b, <1>23 DEF StoreTimer, Disarm, Ended, Goto
<1>24. ASSUME NEW r \in Request, Cancel(r)
      PROVE  (Leased /\ Named /\ Indexed)'
    BY <1>a, <1>b, <1>24 DEF Cancel
<1>25. ASSUME NEW x \in fired, RunCleanup(x[1], x[2])
      PROVE  (Leased /\ Named /\ Indexed)'
    BY <1>a, <1>b, <1>25 DEF RunCleanup
<1>26. ASSUME NEW c \in firedWakes, RunWake(c)
      PROVE  (Leased /\ Named /\ Indexed)'
    BY <1>a, <1>b, <1>26 DEF RunWake, Notified
<1>27. ASSUME NEW w \in Cleaner, NEW x \in armed, Fire(x[1], w)
      PROVE  (Leased /\ Named /\ Indexed)'
    BY <1>a, <1>b, <1>27 DEF Fire, Disarm, Goto
<1>28. ASSUME NEW w \in Cleaner, Cleanup(w)
      PROVE  (Leased /\ Named /\ Indexed)'
  <2>1. \A i \in Slots : slots'[i].lease \in {Nil, slots[i].lease}
    BY <1>a, <1>b, <1>28, CleanupEffect, ResetEffect DEF FreeSlot
  <2>2. \A r \in Request : requests'[r] \in {Nil, requests[r]}
    BY <1>a, <1>b, <1>28, CleanupEffect, ResetEffect
  <2>3. UNCHANGED <<at, handle, chk>> /\ \A d \in Call : pc'[d] = pc[d]
    BY <1>a, <1>b, <1>28 DEF Cleanup, Disarm, Reset, Drop, FilesWithout, Evicted, Goto
  <2> QED
    BY <1>a, <1>b, <1>b, <2>1, <2>2, <2>3
<1>29. ASSUME Discard
      PROVE  (Leased /\ Named /\ Indexed)'
    BY <1>a, <1>b, <1>29 DEF Discard, Disarm
<1>30. ASSUME Tick
      PROVE  (Leased /\ Named /\ Indexed)'
    BY <1>a, <1>b, <1>30 DEF Tick
<1>31. ASSUME Finished \/ UNCHANGED vars
      PROVE  (Leased /\ Named /\ Indexed)'
    BY <1>a, <1>b, <1>31 DEF Finished, vars
<1>32. ASSUME NEW x \in Direct, Pinning(x)
      PROVE  (Leased /\ Named /\ Indexed)'
  <2>1. UNCHANGED <<slots, requests, pc, call, at, handle, chk>>
    BY <1>32, PinEffect DEF Unscheduled
  <2> QED
    BY <2>1
<1> QED
    BY <1>1, <1>2, <1>3, <1>4, <1>5, <1>6, <1>7, <1>8, <1>9, <1>10, <1>11, <1>12, <1>13,
       <1>14, <1>15, <1>16, <1>17, <1>18, <1>19, <1>20, <1>21, <1>22, <1>23, <1>24, <1>25,
       <1>26, <1>27, <1>28, <1>29, <1>30, <1>31, <1>32
       DEF Next, Internal, Select, Initializer, Ends, Scheduling, Callbacks, Timers

(* Every step keeps the shape. *)
LEMMA ShapeStep == Shape /\ [Next]_vars => Shape'
BY TypeStep, PlacedStep, LeasedStep DEF Shape

(* The scheduler's, the pool's and the contexts' state is well formed, and a
   slot index, a lease or a checker that is used is one. *)
THEOREM ShapeHolds == Spec => []Shape
BY InitShape, ShapeStep, PTL DEF Spec

----------------------------------------------------------------------------
(* Exclusive *)

(* A step that neither claims nor gives up a slot. *)
Quiet ==
    /\ UNCHANGED <<slots, at, handle>>
    /\ \A c \in Call :
          /\ pc[c] \in Past => chk'[c] = chk[c]
          /\ pc[c] # "new" => call'[c] = call[c]
          /\ pc'[c] \in Reserving <=> pc[c] \in Reserving
          /\ pc'[c] \in Holding <=> pc[c] \in Holding
          /\ pc'[c] \in Returning <=> pc[c] \in Returning

(* A quiet step changes nothing about who holds what. *)
LEMMA QuietKeeps == Shape /\ Exclusive /\ Quiet => Exclusive'
<1> SUFFICES ASSUME Shape, Exclusive, Quiet PROVE Exclusive'
    OBVIOUS
<1>1. \A c \in Call :
         /\ pc[c] \in Reserving \cup Leasing => Request_(c)' = Request_(c)
         /\ pc[c] \in Leasing => /\ handle[c] \in Call /\ chk'[handle[c]] = chk[handle[c]]
                               /\ SlotOf(c)' = SlotOf(c)
         /\ Slot(c)' = Slot(c)
    BY DEF Shape, Leased, Quiet, Request_, Slot, SlotOf, Reserving, Leasing, Holding, Returning
<1>2. \A c \in Call : pc'[c] \in Leasing <=> pc[c] \in Leasing
    BY DEF Quiet, Leasing
<1>3. Reserves' /\ Leases'
    BY <1>1, <1>2 DEF Exclusive, Reserves, Leases, Quiet
<1>4. OneHolder' /\ HeldBySome'
    BY <1>1, <1>2 DEF Exclusive, OneHolder, HeldBySome, Quiet
<1>5. SharedWithinRequest'
    BY <1>1, <1>2 DEF Exclusive, SharedWithinRequest, Quiet, Leasing
<1> QED
    BY <1>3, <1>4, <1>5 DEF Exclusive

(* Every step keeps the slots and their holders matched. *)
LEMMA ExclusiveStep == Shape /\ Exclusive /\ [Next]_vars => Exclusive'
<1> SUFFICES ASSUME Shape, Exclusive, [Next]_vars PROVE Exclusive'
    OBVIOUS
<1> USE NilAssumption
    DEF PC, Actor, Reserving, Leasing, Holding, Returning, Past,
        data, poolVars, pending, contextVars, timerVars, tables, Slot, Request_
<1>a. /\ pc \in [Actor -> PC] /\ at \in [Call -> (Slots \X BOOLEAN) \cup {Nil}]
      /\ chk \in [Call -> Checker \cup {Nil}] /\ handle \in [Call -> Call \cup {Nil}]
      /\ call \in [Call -> Arguments \cup {Nil}]
    BY DEF Shape, TypeOK
<1>b. Shape /\ Exclusive
    OBVIOUS
<1>c. \A e \in Call :
         /\ pc[e] \in Reserving => Slot(e) \in Slots
         /\ pc[e] \in Leasing => SlotOf(e) \in Slots /\ handle[e] \in Call /\ pc[handle[e]] \in Past
    BY DEF Shape, Placed, Leased, SlotOf
<1>e. /\ Leasing = Holding \cup Returning /\ Holding \cap Returning = {}
      /\ Reserving \cap Leasing = {}
    OBVIOUS
<1>d. \A e \in Call : pc[e] \in Leasing => handle[e] \in Call
    BY <1>c
<1>1. ASSUME NEW c \in Call, NEW t \in Thread, NEW ask \in Asks,
             StartAcquire(c, t, ask[1], ask[2], ask[3])
      PROVE  Exclusive'
  <2>1. Quiet
    BY <1>a, <1>1 DEF Quiet, StartAcquire, Notified, Goto
  <2> QED
    BY <1>b, <2>1, QuietKeeps
<1>2. ASSUME NEW c \in Call, SelectRefused(c)
      PROVE  Exclusive'
  <2>1. Quiet
    BY <1>a, <1>2 DEF Quiet, SelectRefused, Return, Goto
  <2> QED
    BY <1>b, <2>1, QuietKeeps
<1>3. ASSUME NEW c \in Call, SelectShared(c)
      PROVE  Exclusive'
  <2> DEFINE i == Associated(c).index
             l == slots[i].lease
  <2>1. /\ i \in Slots /\ slots[i].held /\ slots[i].initialized
        /\ slots[i].request = Request_(c) /\ Request_(c) # Nil
    <3>1. Associated(c) # Nil /\ slots[i].held /\ slots[i].initialized
          /\ slots[i].request = Request_(c)
      BY <1>3 DEF SelectShared, Shares, Mine, Matches
    <3>2. i \in Slots
      BY <1>3, <3>1, Known DEF SelectShared
    <3>3. Request_(c) # Nil
      BY <3>1 DEF Associated
    <3> QED
      BY <3>1, <3>2, <3>3
  <2>2. PICK d \in Call : handle[d] = l /\ pc[d] \in Holding
    BY <1>3 DEF SelectShared, Shares, Handles
  <2>3. l \in Call /\ Slot(l) = i /\ chk[l] = slots[i].identity
    <3>1. l \in Call
      BY <2>2 DEF Shape, Leased
    <3>2. Slot(l) = i
      <4>1. Named /\ l # Nil
        BY <3>1 DEF Shape, Checker
      <4> QED
        BY <2>1, <4>1 DEF Named
    <3> QED
      BY <2>2, <3>1, <3>2 DEF Exclusive, Leases, SlotOf
  <2>4. /\ handle' = [handle EXCEPT ![c] = l] /\ pc' = [pc EXCEPT ![c] = "held"] /\ pc[c] = "select"
        /\ UNCHANGED <<slots, call, at, chk>>
    BY <1>3 DEF SelectShared, Return, Goto
  <2> HIDE DEF i, l
  <2>5. \A e \in Call \ {c} : /\ pc'[e] = pc[e] /\ handle'[e] = handle[e] /\ Slot(e)' = Slot(e)
                              /\ SlotOf(e)' = SlotOf(e) /\ Request_(e)' = Request_(e)
    BY <1>a, <2>4 DEF SlotOf
  <2>6. pc'[c] = "held" /\ handle'[c] = l /\ SlotOf(c)' = i /\ Request_(c)' = Request_(c)
    BY <1>a, <2>3, <2>4 DEF SlotOf
  <2>7. /\ pc[c] = "select"
        /\ \A e \in Call : pc[e] \in Leasing /\ handle[e] = l => pc[e] \in Holding /\ SlotOf(e) = i
    BY <2>2, <2>3, <2>4 DEF Exclusive, OneHolder, SlotOf
  <2>8. UNCHANGED <<slots, chk>> /\ l = slots[i].lease
    BY <2>4 DEF l
  <2> QED
    <3>1. Reserves'
      BY <2>5, <2>6, <2>8 DEF Exclusive, Reserves
    <3>2. Leases'
      BY <2>1, <2>3, <2>5, <2>6, <2>8 DEF Exclusive, Leases
    <3>3. OneHolder'
      BY <2>1, <2>2, <2>3, <2>5, <2>6, <2>7, <2>8 DEF Exclusive, OneHolder
    <3>4. HeldBySome'
      BY <2>5, <2>6, <2>7, <2>8 DEF Exclusive, HeldBySome
    <3>5. SharedWithinRequest'
      BY <2>1, <2>2, <2>5, <2>6, <2>7, <2>8 DEF Exclusive, Leases, SharedWithinRequest
    <3> QED
      BY <3>1, <3>2, <3>3, <3>4, <3>5 DEF Exclusive
<1>4. ASSUME NEW c \in Call, SelectClaim(c)
      PROVE  Exclusive'
  <2> DEFINE i == Candidate(c)[1]
  <2>1. i \in Slots /\ ~slots[i].held /\ slots'[i].held /\ slots'[i].request = Request_(c)
        /\ (\A j \in Slots \ {i} : slots'[j] = slots[j]) /\ at'[c] = Candidate(c)
        /\ at' = [at EXCEPT ![c] = Candidate(c)]
    BY <1>4, ClaimEffect
  <2>2. /\ pc[c] = "select" /\ pc' = [pc EXCEPT ![c] = "pool"] /\ UNCHANGED <<call, chk, handle>>
    BY <1>4 DEF SelectClaim, Goto
  <2>3. \A e \in Call \ {c} : /\ pc'[e] \in Reserving <=> pc[e] \in Reserving
                              /\ pc'[e] \in Holding <=> pc[e] \in Holding
                              /\ pc'[e] \in Returning <=> pc[e] \in Returning
                              /\ handle'[e] = handle[e] /\ Slot(e)' = Slot(e)
                              /\ Request_(e)' = Request_(e)
                              /\ pc[e] \in Leasing => /\ SlotOf(e)' = SlotOf(e)
                                                     /\ chk'[handle[e]] = chk[handle[e]]
    BY <1>a, <1>c, <2>1, <2>2 DEF SlotOf
  <2>4. pc[c] \notin Reserving \cup Leasing /\ pc'[c] \in Reserving \ Leasing
        /\ Slot(c)' = i /\ Request_(c)' = Request_(c)
    BY <1>a, <2>1, <2>2
  <2>5. \A e \in Call : /\ pc[e] \in Reserving => Slot(e) \in Slots \ {i}
                        /\ pc[e] \in Leasing => SlotOf(e) \in Slots \ {i}
    BY <1>c, <2>1 DEF Exclusive, Reserves, Leases
  <2> HIDE DEF i
  <2> QED
    <3> HIDE DEF Reserving, Leasing, Holding, Returning, Past, Slot, Request_, PC, Actor
    <3>1. Reserves'
      BY <1>e, <1>d, <2>1, <2>3, <2>4, <2>5 DEF Exclusive, Reserves, OneHolder
    <3>2. Leases'
      BY <1>e, <1>d, <2>1, <2>3, <2>4, <2>5 DEF Exclusive, Leases, OneHolder
    <3>3. OneHolder'
      BY <1>e, <1>d, <2>1, <2>3, <2>4, <2>5 DEF Exclusive, Reserves, Leases, OneHolder
    <3>4. HeldBySome'
      BY <1>e, <1>d, <2>1, <2>3, <2>4, <2>5 DEF Exclusive, HeldBySome, OneHolder
    <3>5. SharedWithinRequest'
      BY <1>e, <1>d, <2>1, <2>3, <2>4, <2>5 DEF Exclusive, SharedWithinRequest, OneHolder
    <3> QED
      BY <3>1, <3>2, <3>3, <3>4, <3>5 DEF Exclusive
<1>5. ASSUME NEW c \in Call, SelectReentry(c)
      PROVE  Exclusive'
  <2>1. Quiet
    BY <1>a, <1>5 DEF Quiet, SelectReentry, Return, Drop, Goto
  <2> QED
    BY <1>b, <2>1, QuietKeeps
<1>6. ASSUME NEW c \in Call, SelectWait(c)
      PROVE  Exclusive'
  <2>1. Quiet
    BY <1>a, <1>6 DEF Quiet, SelectWait, Drop, Goto
  <2> QED
    BY <1>b, <2>1, QuietKeeps
<1>7. ASSUME NEW c \in Call, PoolEnter(c)
      PROVE  Exclusive'
  <2>1. Quiet
    BY <1>a, <1>7 DEF Quiet, PoolEnter, Goto
  <2> QED
    BY <1>b, <2>1, QuietKeeps
<1>8. ASSUME NEW c \in Call, Validate(c)
      PROVE  Exclusive'
  <2>1. Quiet
    BY <1>a, <1>8 DEF Quiet, Validate, Goto
  <2> QED
    BY <1>b, <2>1, QuietKeeps
<1>9. ASSUME NEW c \in Call, Unreserve(c)
      PROVE  Exclusive'
  <2> DEFINE i == Slot(c)
  <2>1. i \in Slots /\ ~slots'[i].held /\ (\A j \in Slots \ {i} : slots'[j] = slots[j])
    BY <1>9, UnreserveEffect
  <2>2. /\ pc[c] = "unreserve" /\ pc'[c] = "done" /\ UNCHANGED <<call, at, chk, handle>>
        /\ \A e \in Call \ {c} : pc'[e] = pc[e] \/ (pc[e] = "asleep" /\ pc'[e] = "select")
    BY <1>a, <1>9 DEF Unreserve, Notified, Goto
  <2>3. \A e \in Call \ {c} : /\ pc'[e] \in Reserving <=> pc[e] \in Reserving
                              /\ pc'[e] \in Holding <=> pc[e] \in Holding
                              /\ pc'[e] \in Returning <=> pc[e] \in Returning
                              /\ handle'[e] = handle[e] /\ Slot(e)' = Slot(e)
                              /\ Request_(e)' = Request_(e)
                              /\ pc[e] \in Leasing => /\ SlotOf(e)' = SlotOf(e)
                                                     /\ chk'[handle[e]] = chk[handle[e]]
    BY <2>2 DEF SlotOf
  <2>4. pc[c] \in Reserving /\ pc'[c] \notin Reserving \cup Leasing
    BY <2>2
  <2>5. \A e \in Call \ {c} : /\ pc[e] \in Reserving => Slot(e) \in Slots \ {i}
                              /\ pc[e] \in Leasing => SlotOf(e) \in Slots \ {i}
    BY <1>c, <2>4 DEF Exclusive, OneHolder
  <2>6. Slot(c) = i
    OBVIOUS
  <2> HIDE DEF i
  <2> QED
    <3> HIDE DEF Reserving, Leasing, Holding, Returning, Past, Slot, Request_, PC, Actor
    <3>1. Reserves'
      BY <1>e, <1>d, <2>1, <2>3, <2>4, <2>5, <2>6 DEF Exclusive, Reserves, OneHolder
    <3>2. Leases'
      BY <1>e, <1>d, <2>1, <2>3, <2>4, <2>5, <2>6 DEF Exclusive, Leases, OneHolder
    <3>3. OneHolder'
      BY <1>e, <1>d, <2>1, <2>3, <2>4, <2>5, <2>6 DEF Exclusive, Reserves, Leases, OneHolder
    <3>4. HeldBySome'
      BY <1>e, <1>d, <2>1, <2>3, <2>4, <2>5, <2>6 DEF Exclusive, HeldBySome, OneHolder
    <3>5. SharedWithinRequest'
      BY <1>e, <1>d, <2>1, <2>3, <2>4, <2>5, <2>6 DEF Exclusive, SharedWithinRequest, OneHolder
    <3> QED
      BY <3>1, <3>2, <3>3, <3>4, <3>5 DEF Exclusive
<1>10. ASSUME NEW c \in Call, Publish(c)
      PROVE  Exclusive'
  <2> DEFINE i == Slot(c)
  <2>1. /\ i \in Slots /\ (\A j \in Slots \ {i} : slots'[j] = slots[j])
        /\ slots'[i].held = slots[i].held /\ slots'[i].request = slots[i].request
        /\ slots'[i].initialized /\ slots'[i].lease = c /\ slots'[i].identity = chk[c]
    BY <1>10, PublishEffect
  <2>2. /\ pc[c] = "publish" /\ pc'[c] \in {"register", "held"} /\ UNCHANGED <<call, at, chk>>
        /\ handle' = [handle EXCEPT ![c] = c]
        /\ \A e \in Call \ {c} : pc'[e] = pc[e] \/ (pc[e] = "asleep" /\ pc'[e] = "select")
    BY <1>a, <1>10 DEF Publish, Notified, Goto
  <2>3. \A e \in Call \ {c} : /\ pc'[e] \in Reserving <=> pc[e] \in Reserving
                              /\ pc'[e] \in Holding <=> pc[e] \in Holding
                              /\ pc'[e] \in Returning <=> pc[e] \in Returning
                              /\ handle'[e] = handle[e] /\ Slot(e)' = Slot(e)
                              /\ Request_(e)' = Request_(e)
                              /\ pc[e] \in Leasing => /\ SlotOf(e)' = SlotOf(e)
                                                     /\ chk'[handle[e]] = chk[handle[e]]
    BY <1>a, <2>2 DEF SlotOf
  <2>4. /\ pc[c] \in Reserving /\ pc'[c] \in Holding /\ handle'[c] = c /\ SlotOf(c)' = i
        /\ Request_(c)' = Request_(c) /\ chk'[c] = chk[c] /\ pc'[c] \notin Reserving \cup Returning
    BY <1>a, <2>2 DEF SlotOf
  <2>5. \A e \in Call \ {c} : /\ pc[e] \in Reserving => Slot(e) \in Slots \ {i}
                              /\ pc[e] \in Leasing => SlotOf(e) \in Slots \ {i} /\ handle[e] # c
    BY <1>c, <2>2, <2>4 DEF Exclusive, OneHolder
  <2>6. slots'[i].held /\ slots'[i].request = Request_(c)'
    <3>1. slots[i].held /\ slots[i].request = Request_(c)
      BY <2>4 DEF Exclusive, Reserves
    <3> QED
      BY <2>1, <2>4, <3>1
  <2>7. \A e \in Call : /\ pc'[e] \in Leasing => e = c \/ pc[e] \in Leasing
                        /\ pc'[e] \in Reserving => e # c /\ pc[e] \in Reserving
    BY <2>3, <2>4
  <2>8. Slot(c) = i
    OBVIOUS
  <2> HIDE DEF i
  <2> QED
    <3> HIDE DEF Reserving, Leasing, Holding, Returning, Past, Slot, Request_, PC, Actor
    <3>1. Reserves'
      BY <1>e, <1>d, <2>1, <2>3, <2>4, <2>5, <2>6, <2>7, <2>8 DEF Exclusive, Reserves, OneHolder
    <3>2. Leases'
      BY <1>e, <1>d, <2>1, <2>3, <2>4, <2>5, <2>6, <2>7, <2>8 DEF Exclusive, Leases, OneHolder
    <3>3. OneHolder'
      BY <1>e, <1>d, <2>1, <2>3, <2>4, <2>5, <2>6, <2>7, <2>8 DEF Exclusive, Reserves, Leases, OneHolder
    <3>4. HeldBySome'
      BY <1>e, <1>d, <2>1, <2>3, <2>4, <2>5, <2>6, <2>7, <2>8 DEF Exclusive, HeldBySome, OneHolder
    <3>5. SharedWithinRequest'
      BY <1>e, <1>d, <2>1, <2>3, <2>4, <2>5, <2>6, <2>7, <2>8 DEF Exclusive, SharedWithinRequest, OneHolder
    <3> QED
      BY <3>1, <3>2, <3>3, <3>4, <3>5 DEF Exclusive
<1>11. ASSUME NEW c \in Call, Register(c)
      PROVE  Exclusive'
  <2>1. Quiet
    BY <1>a, <1>11 DEF Quiet, Register, Goto
  <2> QED
    BY <1>b, <2>1, QuietKeeps
<1>12. ASSUME NEW c \in Call, RegisterStop(c)
      PROVE  Exclusive'
  <2>1. Quiet
    BY <1>a, <1>12 DEF Quiet, RegisterStop, Return, Goto
  <2> QED
    BY <1>b, <2>1, QuietKeeps
<1>13. ASSUME NEW c \in Call, ReleaseDispose(c)
      PROVE  Exclusive'
  <2>1. Quiet
    BY <1>a, <1>13 DEF Quiet, ReleaseDispose, Disposed, Goto
  <2> QED
    BY <1>b, <2>1, QuietKeeps
<1>14. ASSUME NEW c \in Call, ReleaseReturn(c)
      PROVE  Exclusive'
  <2>1. Quiet
    BY <1>a, <1>14 DEF Quiet, ReleaseReturn, Returned, Goto
  <2> QED
    BY <1>b, <2>1, QuietKeeps
<1>15. ASSUME NEW c \in Call, ReleaseState(c)
      PROVE  Exclusive'
  <2> DEFINE i == SlotOf(c)
  <2>1. i \in Slots /\ ~slots'[i].held /\ (\A j \in Slots \ {i} : slots'[j] = slots[j])
    BY <1>15, ReleaseEffect DEF SlotOf
  <2>2. /\ pc[c] = "release" /\ pc'[c] = "schedule" /\ UNCHANGED <<call, at, chk, handle>>
        /\ \A e \in Call \ {c} : pc'[e] = pc[e] \/ (pc[e] = "asleep" /\ pc'[e] = "select")
    BY <1>a, <1>15 DEF ReleaseState, Notified, Goto
  <2>3. \A e \in Call \ {c} : /\ pc'[e] \in Reserving <=> pc[e] \in Reserving
                              /\ pc'[e] \in Holding <=> pc[e] \in Holding
                              /\ pc'[e] \in Returning <=> pc[e] \in Returning
                              /\ handle'[e] = handle[e] /\ Slot(e)' = Slot(e)
                              /\ Request_(e)' = Request_(e)
                              /\ pc[e] \in Leasing => /\ SlotOf(e)' = SlotOf(e)
                                                     /\ chk'[handle[e]] = chk[handle[e]]
    BY <2>2 DEF SlotOf
  <2>4. pc[c] \in Returning /\ pc'[c] \notin Reserving \cup Leasing
    BY <2>2
  <2>5. \A e \in Call \ {c} : /\ pc[e] \in Reserving => Slot(e) \in Slots \ {i}
                              /\ pc[e] \in Leasing => SlotOf(e) \in Slots \ {i}
    BY <1>c, <2>4 DEF Exclusive, OneHolder, Leases
  <2>6. SlotOf(c) = i
    OBVIOUS
  <2> HIDE DEF i
  <2> QED
    <3> HIDE DEF Reserving, Leasing, Holding, Returning, Past, Slot, Request_, PC, Actor
    <3>1. Reserves'
      BY <1>e, <1>d, <2>1, <2>3, <2>4, <2>5, <2>6 DEF Exclusive, Reserves, OneHolder
    <3>2. Leases'
      BY <1>e, <1>d, <2>1, <2>3, <2>4, <2>5, <2>6 DEF Exclusive, Leases, OneHolder
    <3>3. OneHolder'
      BY <1>e, <1>d, <2>1, <2>3, <2>4, <2>5, <2>6 DEF Exclusive, Reserves, Leases, OneHolder
    <3>4. HeldBySome'
      BY <1>e, <1>d, <2>1, <2>3, <2>4, <2>5, <2>6 DEF Exclusive, HeldBySome, OneHolder
    <3>5. SharedWithinRequest'
      BY <1>e, <1>d, <2>1, <2>3, <2>4, <2>5, <2>6 DEF Exclusive, SharedWithinRequest, OneHolder
    <3> QED
      BY <3>1, <3>2, <3>3, <3>4, <3>5 DEF Exclusive
<1>16. ASSUME NEW c \in Call, NEW outcome, Initialize(c, outcome)
      PROVE  Exclusive'
  <2>1. Quiet
    BY <1>a, <1>16 DEF Quiet, Initialize, Goto
  <2> QED
    BY <1>b, <2>1, QuietKeeps
<1>17. ASSUME NEW c \in Call, SpuriousWake(c)
      PROVE  Exclusive'
  <2>1. Quiet
    BY <1>a, <1>17 DEF Quiet, SpuriousWake, Goto
  <2> QED
    BY <1>b, <2>1, QuietKeeps
<1>18. ASSUME NEW c \in Call, BeginOperation(c)
      PROVE  Exclusive'
  <2>1. Quiet
    BY <1>a, <1>18 DEF Quiet, BeginOperation
  <2> QED
    BY <1>b, <2>1, QuietKeeps
<1>19. ASSUME NEW c \in Call, NEW outcome, EndOperation(c, outcome)
      PROVE  Exclusive'
  <2>1. Quiet
    BY <1>a, <1>19 DEF Quiet, EndOperation
  <2> QED
    BY <1>b, <2>1, QuietKeeps
<1>20. ASSUME NEW c \in Call, DropHandle(c)
      PROVE  Exclusive'
  <2>1. /\ pc[c] = "held" /\ UNCHANGED <<slots, call, at, chk, handle>>
        /\ pc' = [pc EXCEPT ![c] = IF Last(c) THEN "dispose" ELSE "done"]
    BY <1>20 DEF DropHandle, Goto
  <2>2. CASE Last(c)
    <3>1. \A e \in Call \ {c} : pc[e] \in Leasing => handle[e] # handle[c]
      BY <2>1, <2>2 DEF Last, Handles, Exclusive, OneHolder
    <3>2. \A e \in Call : /\ pc'[e] \in Reserving <=> pc[e] \in Reserving
                          /\ pc'[e] \in Leasing <=> pc[e] \in Leasing
                          /\ pc'[e] \in Returning <=> (pc[e] \in Returning \/ e = c)
                          /\ pc'[e] \in Holding => pc[e] \in Holding
                          /\ SlotOf(e)' = SlotOf(e) /\ Slot(e)' = Slot(e) /\ Request_(e)' = Request_(e)
      BY <1>a, <2>1, <2>2 DEF SlotOf
    <3> QED
      <4>1. Reserves' /\ Leases' /\ HeldBySome'
        BY <2>1, <3>2 DEF Exclusive, Reserves, Leases, HeldBySome
      <4>2. OneHolder'
        BY <2>1, <3>1, <3>2 DEF Exclusive, OneHolder
      <4>3. SharedWithinRequest'
        BY <2>1, <3>2 DEF Exclusive, SharedWithinRequest
      <4> QED
        BY <4>1, <4>2, <4>3 DEF Exclusive
  <2>3. CASE ~Last(c)
    <3>1. PICK d \in Call \ {c} : handle[d] = handle[c] /\ pc[d] \in Holding
      BY <2>1, <2>3 DEF Last, Handles
    <3>2. \A e \in Call : /\ pc'[e] \in Reserving <=> pc[e] \in Reserving
                          /\ pc'[e] \in Leasing <=> (pc[e] \in Leasing /\ e # c)
                          /\ pc'[e] \in Returning <=> pc[e] \in Returning
                          /\ pc'[e] \in Holding => pc[e] \in Holding
                          /\ SlotOf(e)' = SlotOf(e) /\ Slot(e)' = Slot(e) /\ Request_(e)' = Request_(e)
      BY <1>a, <2>1, <2>3 DEF SlotOf
    <3>3. pc[d] \in Leasing /\ SlotOf(d) = SlotOf(c)
      BY <3>1 DEF SlotOf
    <3> QED
      <4>1. Reserves' /\ Leases' 
        BY <2>1, <3>2 DEF Exclusive, Reserves, Leases
      <4>2. OneHolder'
        BY <2>1, <3>2 DEF Exclusive, OneHolder
      <4>3. SharedWithinRequest'
        BY <2>1, <3>2 DEF Exclusive, SharedWithinRequest
      <4>4. HeldBySome'
        BY <2>1, <3>1, <3>2, <3>3 DEF Exclusive, HeldBySome
      <4> QED
        BY <4>1, <4>2, <4>3, <4>4 DEF Exclusive
  <2> QED
    BY <2>2, <2>3
<1>21. ASSUME NEW a \in Actor, Schedule(a)
      PROVE  Exclusive'
  <2>1. Quiet
    BY <1>a, <1>21 DEF Quiet, Schedule, Disarm, Ended, Goto
  <2> QED
    BY <1>b, <2>1, QuietKeeps
<1>22. ASSUME NEW a \in Actor, Arm(a)
      PROVE  Exclusive'
  <2>1. Quiet
    BY <1>a, <1>22 DEF Quiet, Arm, Goto
  <2> QED
    BY <1>b, <2>1, QuietKeeps
<1>23. ASSUME NEW a \in Actor, StoreTimer(a)
      PROVE  Exclusive'
  <2>1. Quiet
    BY <1>a, <1>23 DEF Quiet, StoreTimer, Disarm, Ended, Goto
  <2> QED
    BY <1>b, <2>1, QuietKeeps
<1>24. ASSUME NEW r \in Request, Cancel(r)
      PROVE  Exclusive'
  <2>1. Quiet
    BY <1>a, <1>24 DEF Quiet, Cancel
  <2> QED
    BY <1>b, <2>1, QuietKeeps
<1>25. ASSUME NEW x \in fired, RunCleanup(x[1], x[2])
      PROVE  Exclusive'
  <2>1. Quiet
    BY <1>a, <1>25 DEF Quiet, RunCleanup
  <2> QED
    BY <1>b, <2>1, QuietKeeps
<1>26. ASSUME NEW c \in firedWakes, RunWake(c)
      PROVE  Exclusive'
  <2>1. Quiet
    BY <1>a, <1>26 DEF Quiet, RunWake, Notified
  <2> QED
    BY <1>b, <2>1, QuietKeeps
<1>27. ASSUME NEW w \in Cleaner, NEW x \in armed, Fire(x[1], w)
      PROVE  Exclusive'
  <2>1. Quiet
    BY <1>a, <1>27 DEF Quiet, Fire, Disarm, Goto
  <2> QED
    BY <1>b, <2>1, QuietKeeps
<1>28. ASSUME NEW w \in Cleaner, Cleanup(w)
      PROVE  Exclusive'
  <2>1. PICK I \in SUBSET Slots : (\A i \in I : ~slots[i].held) /\ Reset(I)
    BY <1>28, CleanupEffect
  <2>2. \A i \in Slots : slots'[i] = IF i \in I THEN FreeSlot ELSE slots[i]
    BY <2>1, ResetEffect
  <2>3. UNCHANGED <<call, at, chk, handle>> /\ \A e \in Call : pc'[e] = pc[e]
    BY <1>a, <1>28 DEF Cleanup, Goto
  <2>4. \A e \in Call : SlotOf(e)' = SlotOf(e) /\ Slot(e)' = Slot(e) /\ Request_(e)' = Request_(e)
    BY <2>3 DEF SlotOf
  <2>5. \A i \in Slots : slots[i].held => slots'[i] = slots[i]
    BY <2>1, <2>2
  <2>6. \A i \in Slots : slots'[i].held => slots[i].held
    BY <2>2 DEF FreeSlot
  <2>7. Reserves'
    BY <1>c, <2>3, <2>4, <2>5 DEF Exclusive, Reserves
  <2>8. Leases'
    BY <1>c, <2>3, <2>4, <2>5 DEF Exclusive, Leases
  <2>9. OneHolder' /\ HeldBySome' /\ SharedWithinRequest'
    BY <2>3, <2>4, <2>6 DEF Exclusive, OneHolder, HeldBySome, SharedWithinRequest
  <2> QED
    BY <2>7, <2>8, <2>9 DEF Exclusive
<1>29. ASSUME Discard
      PROVE  Exclusive'
  <2>1. Quiet
    BY <1>a, <1>29 DEF Quiet, Discard, Disarm
  <2> QED
    BY <1>b, <2>1, QuietKeeps
<1>30. ASSUME Tick
      PROVE  Exclusive'
  <2>1. Quiet
    BY <1>a, <1>30 DEF Quiet, Tick
  <2> QED
    BY <1>b, <2>1, QuietKeeps
<1>31. ASSUME Finished \/ UNCHANGED vars
      PROVE  Exclusive'
  <2>1. Quiet
    BY <1>a, <1>31 DEF Quiet, Finished, vars
  <2> QED
    BY <1>b, <2>1, QuietKeeps
<1>32. ASSUME NEW x \in Direct, Pinning(x)
      PROVE  Exclusive'
  <2>1. Quiet
    BY <1>32, PinEffect DEF Unscheduled, Quiet
  <2> QED
    BY <1>b, <2>1, QuietKeeps
<1> QED
    BY <1>1, <1>2, <1>3, <1>4, <1>5, <1>6, <1>7, <1>8, <1>9, <1>10, <1>11, <1>12, <1>13,
       <1>14, <1>15, <1>16, <1>17, <1>18, <1>19, <1>20, <1>21, <1>22, <1>23, <1>24, <1>25,
       <1>26, <1>27, <1>28, <1>29, <1>30, <1>31, <1>32
       DEF Next, Internal, Select, Initializer, Ends, Scheduling, Callbacks, Timers

(* The slots and their holders always match. *)
LEMMA ExclusiveHolds == Spec => []Exclusive
<1>1. Init => Exclusive
    BY DEF Init, Exclusive, Reserves, Leases, OneHolder, HeldBySome, SharedWithinRequest, FreeSlot,
           Actor, Reserving, Leasing, Holding, Returning
<1> QED
    BY <1>1, ExclusiveStep, ShapeHolds, PTL DEF Spec

(* Slots matched with their holders have one each, and leases stay in a
   request. *)
LEMMA ExclusiveLeases == Shape /\ Exclusive => LeasesExclude
<1> SUFFICES ASSUME Shape, Exclusive PROVE LeasesExclude
    OBVIOUS
<1> USE DEF Leasing, SlotOf
<1>1. ASSUME NEW i \in Slots
      PROVE  Cardinality(Holders(i)) = (IF slots[i].held THEN 1 ELSE 0)
  <2>1. \A l \in Call : Live(l) /\ Slot(l) = i =>
           slots[i].held /\ slots[i].lease = l /\ \E d \in Call : pc[d] \in Leasing /\ SlotOf(d) = i
    BY DEF Live, Exclusive, Leases
  <2>2. \A c \in Call : pc[c] \in Reserving /\ Slot(c) = i => slots[i].held
    BY DEF Exclusive, Reserves
  <2>3. CASE ~slots[i].held
    <3>1. Holders(i) = {}
      BY <2>1, <2>2, <2>3 DEF Holders
    <3> QED
      BY <2>3, <3>1, FS_EmptySet
  <2>4. ASSUME NEW c \in Call, pc[c] \in Reserving, Slot(c) = i
        PROVE  Holders(i) = {c}
    BY <2>1, <2>4 DEF Holders, Exclusive, OneHolder
  <2>5. ASSUME NEW c \in Call, pc[c] \in Leasing, SlotOf(c) = i
        PROVE  Holders(i) = {handle[c]}
    <3>1. handle[c] \in Call /\ Live(handle[c]) /\ Slot(handle[c]) = i
      BY <2>5 DEF Live, Shape, Leased
    <3>2. \A d \in Call : ~(pc[d] \in Reserving /\ Slot(d) = i)
      BY <2>5 DEF Exclusive, OneHolder
    <3>3. \A l \in Call : Live(l) /\ Slot(l) = i => l = handle[c]
      BY <2>1, <3>1
    <3> QED
      BY <3>1, <3>2, <3>3 DEF Holders
  <2>6. CASE slots[i].held
    <3>1. \E x : Holders(i) = {x}
      BY <2>4, <2>5, <2>6 DEF Exclusive, HeldBySome
    <3> QED
      BY <2>6, <3>1, FS_Singleton
  <2> QED
    BY <2>3, <2>6
<1> QED
    BY <1>1 DEF LeasesExclude, SlotHasOneHolder, Exclusive

(* Checkers are exclusive: a slot is marked held exactly while one reservation
   or one lease has it, from the claim in acquire to the end of release, and a
   lease is shared within one request only. *)
THEOREM CheckersAreExclusive == Spec => []LeasesExclude
BY ShapeHolds, ExclusiveHolds, ExclusiveLeases, PTL

----------------------------------------------------------------------------
(* Pool *)

(* What a call has made stays as it is. *)
Kept ==
    /\ \A c \in Call :
          /\ pc[c] \in Built => pc'[c] \in Built
          /\ pc[c] \in Built \cup Reserving => at'[c] = at[c]
          /\ pc[c] \in Past \cup {"publish"} => chk'[c] = chk[c]
          /\ pc[c] \in Leasing => handle'[c] = handle[c]
          /\ pc[c] # "new" => call'[c] = call[c]
    /\ \A x \in Direct : pins[x] \notin {"new", "empty"} => pins'[x] \notin {"new", "empty"}

(* Every step leaves the arguments, the slot and the checker of a call that is
   past them. *)
LEMMA KeptStep == Shape /\ [Next]_vars => Kept
<1> SUFFICES ASSUME Shape, [Next]_vars PROVE Kept
    OBVIOUS
<1> USE NilAssumption
    DEF Kept, PC, Actor, Reserving, Leasing, Holding, Returning, Past, Built,
        data, poolVars, pending, contextVars, timerVars, tables
<1>a. /\ pc \in [Actor -> PC] /\ at \in [Call -> (Slots \X BOOLEAN) \cup {Nil}]
      /\ chk \in [Call -> Checker \cup {Nil}] /\ handle \in [Call -> Call \cup {Nil}]
      /\ call \in [Call -> Arguments \cup {Nil}]
    BY DEF Shape, TypeOK
<1>b. \A w \in Cleaner : pc[w] \in {"idle", "schedule", "arm", "store", "cleanup"}
    BY DEF Shape, Epoch
<1>1. ASSUME NEW c \in Call, NEW t \in Thread, NEW ask \in Asks,
             StartAcquire(c, t, ask[1], ask[2], ask[3])
      PROVE  Kept
    BY <1>a, <1>b, <1>1 DEF StartAcquire, Notified, Goto
<1>2. ASSUME NEW c \in Call, SelectRefused(c)
      PROVE  Kept
    BY <1>a, <1>b, <1>2 DEF SelectRefused, Return, Goto
<1>3. ASSUME NEW c \in Call, SelectShared(c)
      PROVE  Kept
    BY <1>a, <1>b, <1>3 DEF SelectShared, Return, Goto
<1>4. ASSUME NEW c \in Call, SelectClaim(c)
      PROVE  Kept
    BY <1>a, <1>b, <1>4 DEF SelectClaim, Drop, Goto
<1>5. ASSUME NEW c \in Call, SelectReentry(c)
      PROVE  Kept
    BY <1>a, <1>b, <1>5 DEF SelectReentry, Return, Drop, Goto
<1>6. ASSUME NEW c \in Call, SelectWait(c)
      PROVE  Kept
    BY <1>a, <1>b, <1>6 DEF SelectWait, Drop, Goto
<1>7. ASSUME NEW c \in Call, PoolEnter(c)
      PROVE  Kept
    BY <1>a, <1>b, <1>7 DEF PoolEnter, Goto
<1>8. ASSUME NEW c \in Call, Validate(c)
      PROVE  Kept
    BY <1>a, <1>b, <1>8 DEF Validate, Goto
<1>9. ASSUME NEW c \in Call, Unreserve(c)
      PROVE  Kept
    BY <1>a, <1>b, <1>9 DEF Unreserve, Notified, Goto
<1>10. ASSUME NEW c \in Call, Publish(c)
      PROVE  Kept
    BY <1>a, <1>b, <1>10 DEF Publish, Notified, Goto
<1>11. ASSUME NEW c \in Call, Register(c)
      PROVE  Kept
    BY <1>a, <1>b, <1>11 DEF Register, Goto
<1>12. ASSUME NEW c \in Call, RegisterStop(c)
      PROVE  Kept
    BY <1>a, <1>b, <1>12 DEF RegisterStop, Return, Goto
<1>13. ASSUME NEW c \in Call, ReleaseDispose(c)
      PROVE  Kept
    BY <1>a, <1>b, <1>13 DEF ReleaseDispose, Disposed, Goto
<1>14. ASSUME NEW c \in Call, ReleaseReturn(c)
      PROVE  Kept
    BY <1>a, <1>b, <1>14 DEF ReleaseReturn, Returned, Goto
<1>15. ASSUME NEW c \in Call, ReleaseState(c)
      PROVE  Kept
    BY <1>a, <1>b, <1>15 DEF ReleaseState, Reset, Drop, FilesWithout, Notified, Goto
<1>16. ASSUME NEW c \in Call, NEW outcome, Initialize(c, outcome)
      PROVE  Kept
  <2>1. \A y \in Direct : pins[y] \notin {"new", "empty"} => pins'[y] \notin {"new", "empty"}
    BY <1>16, InitializeEffect
  <2>2. /\ UNCHANGED <<call, at, handle, chk>> /\ pc[c] = "init"
        /\ pc' = [pc EXCEPT ![c] = "validate"]
    BY <1>16 DEF Initialize, Goto
  <2> QED
    BY <1>a, <2>1, <2>2
<1>17. ASSUME NEW c \in Call, SpuriousWake(c)
      PROVE  Kept
    BY <1>a, <1>b, <1>17 DEF SpuriousWake, Goto
<1>18. ASSUME NEW c \in Call, BeginOperation(c)
      PROVE  Kept
    BY <1>a, <1>b, <1>18 DEF BeginOperation
<1>19. ASSUME NEW c \in Call, NEW outcome, EndOperation(c, outcome)
      PROVE  Kept
    BY <1>a, <1>b, <1>19 DEF EndOperation
<1>20. ASSUME NEW c \in Call, DropHandle(c)
      PROVE  Kept
    BY <1>a, <1>b, <1>20 DEF DropHandle, Goto
<1>21. ASSUME NEW a \in Actor, Schedule(a)
      PROVE  Kept
    BY <1>a, <1>b, <1>21 DEF Schedule, Disarm, Ended, Goto
<1>22. ASSUME NEW a \in Actor, Arm(a)
      PROVE  Kept
    BY <1>a, <1>b, <1>22 DEF Arm, Goto
<1>23. ASSUME NEW a \in Actor, StoreTimer(a)
      PROVE  Kept
    BY <1>a, <1>b, <1>23 DEF StoreTimer, Disarm, Ended, Goto
<1>24. ASSUME NEW r \in Request, Cancel(r)
      PROVE  Kept
    BY <1>a, <1>b, <1>24 DEF Cancel
<1>25. ASSUME NEW x \in fired, RunCleanup(x[1], x[2])
      PROVE  Kept
    BY <1>a, <1>b, <1>25 DEF RunCleanup
<1>26. ASSUME NEW c \in firedWakes, RunWake(c)
      PROVE  Kept
    BY <1>a, <1>b, <1>26 DEF RunWake, Notified
<1>27. ASSUME NEW w \in Cleaner, NEW x \in armed, Fire(x[1], w)
      PROVE  Kept
    BY <1>a, <1>b, <1>27 DEF Fire, Disarm, Goto
<1>28. ASSUME NEW w \in Cleaner, Cleanup(w)
      PROVE  Kept
    BY <1>a, <1>b, <1>28 DEF Cleanup, Disarm, Reset, Drop, FilesWithout, Evicted, Goto
<1>29. ASSUME Discard
      PROVE  Kept
    BY <1>a, <1>b, <1>29 DEF Discard, Disarm
<1>30. ASSUME Tick
      PROVE  Kept
    BY <1>a, <1>b, <1>30 DEF Tick
<1>31. ASSUME Finished \/ UNCHANGED vars
      PROVE  Kept
    BY <1>a, <1>b, <1>31 DEF Finished, vars
<1>32. ASSUME NEW x \in Direct, Pinning(x)
      PROVE  Kept
  <2>1. UNCHANGED <<pc, call, at, handle, chk>>
    BY <1>32, PinEffect DEF Unscheduled
  <2>2. \A y \in Direct : pins[y] \notin {"new", "empty"} => pins'[y] \notin {"new", "empty"}
    BY <1>32, PinEffect
  <2> QED
    BY <2>1, <2>2
<1> QED
    BY <1>1, <1>2, <1>3, <1>4, <1>5, <1>6, <1>7, <1>8, <1>9, <1>10, <1>11, <1>12, <1>13,
       <1>14, <1>15, <1>16, <1>17, <1>18, <1>19, <1>20, <1>21, <1>22, <1>23, <1>24, <1>25,
       <1>26, <1>27, <1>28, <1>29, <1>30, <1>31, <1>32
       DEF Next, Internal, Select, Initializer, Ends, Scheduling, Callbacks, Timers

(* A checker that was made stays with its slot. *)
LEMMA MadeStays ==
    ASSUME Kept
    PROVE  \A x \in Checker : Made(x) => Made(x)' /\ Home(x)' = Home(x)
<1> SUFFICES ASSUME NEW x \in Checker, Made(x) PROVE Made(x)' /\ Home(x)' = Home(x)
    OBVIOUS
<1>1. CASE x \in Direct
    BY <1>1 DEF Kept, Made, Home
<1>2. CASE x \notin Direct
  <2>1. x \in Call /\ pc[x] \in Built
    BY <1>2 DEF Checker, Made
  <2>2. pc'[x] \in Built /\ at'[x] = at[x]
    BY <2>1 DEF Kept
  <2> QED
    BY <1>2, <2>2 DEF Made, Home, Slot
<1> QED
    BY <1>1, <1>2

(* Most steps make no checker and issue none. *)
LEMMA HomedKeeps ==
    ASSUME Shape, Homed, Kept,
           \A i \in Slots : cell'[i] \in Checker => cell'[i] = cell[i],
           \A d \in Call : /\ pc'[d] = "publish" => pc[d] = "publish"
                           /\ pc'[d] \in Leasing => pc[d] \in Leasing,
           canceled' = canceled
    PROVE  Homed'
<1>1. \A c \in Call : pc[c] \in Reserving => Slot(c)' = Slot(c)
    BY DEF Kept, Slot
<1>2. \A c \in Call : pc[c] \in Leasing =>
         /\ handle[c] \in Call /\ handle'[c] = handle[c] /\ chk'[handle[c]] = chk[handle[c]]
         /\ chk[handle[c]] \in Checker /\ SlotOf(c)' = SlotOf(c)
  <2> SUFFICES ASSUME NEW c \in Call, pc[c] \in Leasing
               PROVE  /\ handle[c] \in Call /\ handle'[c] = handle[c]
                      /\ chk'[handle[c]] = chk[handle[c]]
                      /\ chk[handle[c]] \in Checker /\ SlotOf(c)' = SlotOf(c)
    OBVIOUS
  <2>1. handle[c] \in Call /\ pc[handle[c]] \in Past /\ chk[handle[c]] \in Checker
    BY DEF Shape, Leased
  <2>2. handle'[c] = handle[c] /\ chk'[handle[c]] = chk[handle[c]] /\ at'[handle[c]] = at[handle[c]]
    BY <2>1 DEF Kept, Built
  <2> QED
    BY <2>1, <2>2 DEF SlotOf, Slot
<1>3. \A c \in Call : pc[c] = "publish" => chk'[c] = chk[c] /\ chk[c] \in Checker
    BY DEF Kept, Shape, Placed
<1>4. canceled \subseteq Checker
    BY DEF Shape, TypeOK
<1>5. \A c \in Call : pc[c] = "publish" => pc[c] \in Reserving
    BY DEF Reserving
<1>6. \A x \in Checker : Made(x) => Made(x)' /\ Home(x)' = Home(x)
    BY MadeStays
<1> QED
    BY <1>1, <1>2, <1>3, <1>4, <1>5, <1>6 DEF Homed

(* Every step leaves the checkers with the slots they were made for. *)
LEMMA HomedStep == Shape /\ Homed /\ [Next]_vars => Homed'
<1> SUFFICES ASSUME Shape, Homed, [Next]_vars PROVE Homed'
    OBVIOUS
<1> USE NilAssumption
    DEF PC, Actor, Reserving, Leasing, Holding, Returning, Past, Built,
        data, poolVars, pending, contextVars, timerVars, tables, Slot
<1>a. /\ pc \in [Actor -> PC] /\ chk \in [Call -> Checker \cup {Nil}]
      /\ handle \in [Call -> Call \cup {Nil}] /\ cell \in [Slots -> Checker \cup {"empty", "failed"}]
      /\ \A w \in Cleaner : pc[w] \in {"idle", "schedule", "arm", "store", "cleanup"}
    BY DEF Shape, TypeOK, Epoch
<1>b. Shape /\ Homed /\ Kept
    BY KeptStep
<1>c. /\ canceled \in SUBSET Checker
      /\ \A e \in Call : pc[e] \in Leasing =>
            handle[e] \in Call /\ pc[handle[e]] \in Past /\ chk[handle[e]] \in Checker
      /\ \A e \in Call : pc[e] = "publish" => chk[e] \in Checker
    BY DEF Shape, TypeOK, Leased, Placed
<1>d. \A x \in Checker : Made(x) => Made(x)' /\ Home(x)' = Home(x)
    BY <1>b, MadeStays
<1>1. ASSUME NEW c \in Call, NEW t \in Thread, NEW ask \in Asks,
             StartAcquire(c, t, ask[1], ask[2], ask[3])
      PROVE  Homed'
  <2>1. /\ \A i \in Slots : cell'[i] \in Checker => cell'[i] = cell[i]
        /\ \A d \in Call : /\ pc'[d] = "publish" => pc[d] = "publish"
                           /\ pc'[d] \in Leasing => pc[d] \in Leasing
        /\ canceled' = canceled
    BY <1>a, <1>1 DEF StartAcquire, Notified, Goto
  <2> QED
    BY <1>b, <2>1, HomedKeeps
<1>2. ASSUME NEW c \in Call, SelectRefused(c)
      PROVE  Homed'
  <2>1. /\ \A i \in Slots : cell'[i] \in Checker => cell'[i] = cell[i]
        /\ \A d \in Call : /\ pc'[d] = "publish" => pc[d] = "publish"
                           /\ pc'[d] \in Leasing => pc[d] \in Leasing
        /\ canceled' = canceled
    BY <1>a, <1>2 DEF SelectRefused, Return, Goto
  <2> QED
    BY <1>b, <2>1, HomedKeeps
<1>3. ASSUME NEW c \in Call, SelectShared(c)
      PROVE  Homed'
  <2> DEFINE l == slots[Associated(c).index].lease
  <2>1. PICK d \in Call : handle[d] = l /\ pc[d] \in Leasing
    BY <1>3 DEF SelectShared, Shares, Handles
  <2>2. /\ UNCHANGED <<at, cell, canceled, chk>> /\ handle'[c] = l /\ pc'[c] = "held"
        /\ \A e \in Call \ {c} : pc'[e] = pc[e] /\ handle'[e] = handle[e]
    BY <1>a, <1>3 DEF SelectShared, Return, Goto
  <2> HIDE DEF l
  <2>3. \A e \in Call : pc'[e] \in Leasing =>
           \E x \in Call : pc[x] \in Leasing /\ handle[x] = handle'[e] /\ SlotOf(e)' = SlotOf(x)
    BY <2>1, <2>2 DEF SlotOf
  <2>4. Slot(c)' = Slot(c) /\ \A e \in Call : pc'[e] = "publish" => pc[e] = "publish" /\ Slot(e)' = Slot(e)
    BY <2>2
  <2> QED
    BY <1>b, <1>c, <1>d, <2>2, <2>3, <2>4 DEF Homed
<1>4. ASSUME NEW c \in Call, SelectClaim(c)
      PROVE  Homed'
  <2>1. /\ \A i \in Slots : cell'[i] \in Checker => cell'[i] = cell[i]
        /\ \A d \in Call : /\ pc'[d] = "publish" => pc[d] = "publish"
                           /\ pc'[d] \in Leasing => pc[d] \in Leasing
        /\ canceled' = canceled
    BY <1>a, <1>4 DEF SelectClaim, Drop, Goto
  <2> QED
    BY <1>b, <2>1, HomedKeeps
<1>5. ASSUME NEW c \in Call, SelectReentry(c)
      PROVE  Homed'
  <2>1. /\ \A i \in Slots : cell'[i] \in Checker => cell'[i] = cell[i]
        /\ \A d \in Call : /\ pc'[d] = "publish" => pc[d] = "publish"
                           /\ pc'[d] \in Leasing => pc[d] \in Leasing
        /\ canceled' = canceled
    BY <1>a, <1>5 DEF SelectReentry, Return, Drop, Goto
  <2> QED
    BY <1>b, <2>1, HomedKeeps
<1>6. ASSUME NEW c \in Call, SelectWait(c)
      PROVE  Homed'
  <2>1. /\ \A i \in Slots : cell'[i] \in Checker => cell'[i] = cell[i]
        /\ \A d \in Call : /\ pc'[d] = "publish" => pc[d] = "publish"
                           /\ pc'[d] \in Leasing => pc[d] \in Leasing
        /\ canceled' = canceled
    BY <1>a, <1>6 DEF SelectWait, Drop, Goto
  <2> QED
    BY <1>b, <2>1, HomedKeeps
<1>7. ASSUME NEW c \in Call, PoolEnter(c)
      PROVE  Homed'
  <2>1. /\ \A i \in Slots : cell'[i] \in Checker => cell'[i] = cell[i]
        /\ \A d \in Call : /\ pc'[d] = "publish" => pc[d] = "publish"
                           /\ pc'[d] \in Leasing => pc[d] \in Leasing
        /\ canceled' = canceled
    BY <1>a, <1>7 DEF PoolEnter, Goto
  <2> QED
    BY <1>b, <2>1, HomedKeeps
<1>8. ASSUME NEW c \in Call, Validate(c)
      PROVE  Homed'
  <2>1. Slot(c) \in Slots /\ Slot(c)' = Slot(c)
    BY <1>8 DEF Shape, Placed, Validate
  <2>2. /\ UNCHANGED <<at, cell, canceled, handle>>
        /\ \A e \in Call \ {c} : pc'[e] = pc[e]
        /\ pc'[c] \notin Leasing
        /\ pc'[c] = "publish" => chk'[c] = cell[Slot(c)] /\ cell[Slot(c)] \in Checker
    BY <1>a, <1>8 DEF Validate, Goto
  <2>3. \A e \in Call : pc'[e] \in Leasing => pc[e] \in Leasing /\ SlotOf(e)' = SlotOf(e)
    BY <2>2 DEF SlotOf
  <2>4. \A e \in Call \ {c} : Slot(e)' = Slot(e) /\ chk'[e] = chk[e]
    BY <1>a, <1>8, <2>2 DEF Validate
  <2>5. \A e \in Call : pc'[e] \in Leasing => handle'[e] = handle[e] /\ chk'[handle[e]] = chk[handle[e]]
    BY <1>c, <1>8, <2>2, <2>3, <2>4 DEF Validate
  <2> QED
    BY <1>b, <1>c, <1>d, <2>1, <2>2, <2>3, <2>4, <2>5 DEF Homed
<1>9. ASSUME NEW c \in Call, Unreserve(c)
      PROVE  Homed'
  <2>1. /\ \A i \in Slots : cell'[i] \in Checker => cell'[i] = cell[i]
        /\ \A d \in Call : /\ pc'[d] = "publish" => pc[d] = "publish"
                           /\ pc'[d] \in Leasing => pc[d] \in Leasing
        /\ canceled' = canceled
    BY <1>a, <1>9 DEF Unreserve, Notified, Goto
  <2> QED
    BY <1>b, <2>1, HomedKeeps
<1>10. ASSUME NEW c \in Call, Publish(c)
      PROVE  Homed'
  <2>1. /\ UNCHANGED <<at, cell, canceled, chk>> /\ handle'[c] = c /\ pc[c] = "publish"
        /\ \A e \in Call \ {c} : handle'[e] = handle[e] /\ (pc'[e] = pc[e] \/ pc'[e] = "select")
        /\ pc'[c] \in {"register", "held"}
    BY <1>a, <1>10 DEF Publish, Notified, Goto
  <2>2. chk[c] \in Checker
    BY <2>1 DEF Shape, Placed
  <2>3. SlotOf(c)' = Slot(c) /\ \A e \in Call \ {c} : SlotOf(e)' = SlotOf(e)
    BY <2>1 DEF SlotOf
  <2> QED
    BY <1>b, <1>c, <1>d, <2>1, <2>2, <2>3 DEF Homed
<1>11. ASSUME NEW c \in Call, Register(c)
      PROVE  Homed'
  <2>1. /\ \A i \in Slots : cell'[i] \in Checker => cell'[i] = cell[i]
        /\ \A d \in Call : /\ pc'[d] = "publish" => pc[d] = "publish"
                           /\ pc'[d] \in Leasing => pc[d] \in Leasing
        /\ canceled' = canceled
    BY <1>a, <1>11 DEF Register, Goto
  <2> QED
    BY <1>b, <2>1, HomedKeeps
<1>12. ASSUME NEW c \in Call, RegisterStop(c)
      PROVE  Homed'
  <2>1. /\ \A i \in Slots : cell'[i] \in Checker => cell'[i] = cell[i]
        /\ \A d \in Call : /\ pc'[d] = "publish" => pc[d] = "publish"
                           /\ pc'[d] \in Leasing => pc[d] \in Leasing
        /\ canceled' = canceled
    BY <1>a, <1>12 DEF RegisterStop, Return, Goto
  <2> QED
    BY <1>b, <2>1, HomedKeeps
<1>13. ASSUME NEW c \in Call, ReleaseDispose(c)
      PROVE  Homed'
  <2>1. /\ \A i \in Slots : cell'[i] \in Checker => cell'[i] = cell[i]
        /\ \A d \in Call : /\ pc'[d] = "publish" => pc[d] = "publish"
                           /\ pc'[d] \in Leasing => pc[d] \in Leasing
        /\ canceled' = canceled
    BY <1>a, <1>13 DEF ReleaseDispose, Disposed, Goto
  <2> QED
    BY <1>b, <2>1, HomedKeeps
<1>14. ASSUME NEW c \in Call, ReleaseReturn(c)
      PROVE  Homed'
  <2>1. /\ \A i \in Slots : cell'[i] \in Checker => cell'[i] = cell[i]
        /\ \A d \in Call : /\ pc'[d] = "publish" => pc[d] = "publish"
                           /\ pc'[d] \in Leasing => pc[d] \in Leasing
        /\ canceled' = canceled
    BY <1>a, <1>14 DEF ReleaseReturn, Returned, Goto
  <2> QED
    BY <1>b, <2>1, HomedKeeps
<1>15. ASSUME NEW c \in Call, ReleaseState(c)
      PROVE  Homed'
  <2>1. /\ cell' = cell /\ canceled' = canceled
        /\ \A d \in Call : /\ pc'[d] = "publish" => pc[d] = "publish"
                           /\ pc'[d] \in Leasing => pc[d] \in Leasing
    BY <1>a, <1>15 DEF ReleaseState, Notified, Goto
  <2> QED
    BY <1>b, <2>1, HomedKeeps
<1>16. ASSUME NEW c \in Call, NEW outcome, Initialize(c, outcome)
      PROVE  Homed'
  <2>1. Slot(c) \in Slots /\ Slot(c)' = Slot(c)
    BY <1>16 DEF Shape, Placed, Initialize
  <2>2. /\ UNCHANGED <<at, canceled, handle, chk>>
        /\ (\A e \in Call \ {c} : pc'[e] = pc[e]) /\ pc'[c] = "validate"
    BY <1>a, <1>16 DEF Initialize, Goto
  <2>3. \A i \in Slots : cell'[i] \in Checker => cell'[i] = cell[i] \/ (i = Slot(c) /\ cell'[i] = c)
    <3>1. \/ cell' = cell
          \/ \E v \in {"failed", c} : cell' = [cell EXCEPT ![Slot(c)] = v]
      BY <1>16, InitializeEffect
    <3> QED
      BY <1>a, <2>1, <3>1
  <2>4. \A e \in Call : pc'[e] \in Leasing => pc[e] \in Leasing /\ SlotOf(e)' = SlotOf(e)
    BY <2>2 DEF SlotOf
  <2>5. Made(c)' /\ Home(c)' = Slot(c)
    BY <2>1, <2>2, NilAssumption DEF Made, Home
  <2>6. \A e \in Call : pc'[e] = "publish" => pc[e] = "publish" /\ Slot(e)' = Slot(e)
    BY <2>2
  <2> QED
    BY <1>b, <1>c, <1>d, <2>2, <2>3, <2>4, <2>5, <2>6 DEF Homed
<1>17. ASSUME NEW c \in Call, SpuriousWake(c)
      PROVE  Homed'
  <2>1. /\ \A i \in Slots : cell'[i] \in Checker => cell'[i] = cell[i]
        /\ \A d \in Call : /\ pc'[d] = "publish" => pc[d] = "publish"
                           /\ pc'[d] \in Leasing => pc[d] \in Leasing
        /\ canceled' = canceled
    BY <1>a, <1>17 DEF SpuriousWake, Goto
  <2> QED
    BY <1>b, <2>1, HomedKeeps
<1>18. ASSUME NEW c \in Call, BeginOperation(c)
      PROVE  Homed'
  <2>1. /\ \A i \in Slots : cell'[i] \in Checker => cell'[i] = cell[i]
        /\ \A d \in Call : /\ pc'[d] = "publish" => pc[d] = "publish"
                           /\ pc'[d] \in Leasing => pc[d] \in Leasing
        /\ canceled' = canceled
    BY <1>a, <1>18 DEF BeginOperation
  <2> QED
    BY <1>b, <2>1, HomedKeeps
<1>19. ASSUME NEW c \in Call, NEW outcome, EndOperation(c, outcome)
      PROVE  Homed'
  <2>1. pc[c] \in Leasing
    BY <1>19 DEF EndOperation, Shape, Placed
  <2>2. UNCHANGED <<at, cell, chk, handle, pc>> /\ canceled' \subseteq canceled \cup {chk[handle[c]]}
    BY <1>19 DEF EndOperation
  <2>3. \A e \in Call : SlotOf(e)' = SlotOf(e)
    BY <2>2 DEF SlotOf
  <2> QED
    BY <1>b, <1>c, <1>d, <2>1, <2>2, <2>3 DEF Homed
<1>20. ASSUME NEW c \in Call, DropHandle(c)
      PROVE  Homed'
  <2>1. /\ \A i \in Slots : cell'[i] \in Checker => cell'[i] = cell[i]
        /\ \A d \in Call : /\ pc'[d] = "publish" => pc[d] = "publish"
                           /\ pc'[d] \in Leasing => pc[d] \in Leasing
        /\ canceled' = canceled
    BY <1>a, <1>20 DEF DropHandle, Goto
  <2> QED
    BY <1>b, <2>1, HomedKeeps
<1>21. ASSUME NEW a \in Actor, Schedule(a)
      PROVE  Homed'
  <2>1. /\ \A i \in Slots : cell'[i] \in Checker => cell'[i] = cell[i]
        /\ \A d \in Call : /\ pc'[d] = "publish" => pc[d] = "publish"
                           /\ pc'[d] \in Leasing => pc[d] \in Leasing
        /\ canceled' = canceled
    BY <1>a, <1>21 DEF Schedule, Disarm, Ended, Goto
  <2> QED
    BY <1>b, <2>1, HomedKeeps
<1>22. ASSUME NEW a \in Actor, Arm(a)
      PROVE  Homed'
  <2>1. /\ \A i \in Slots : cell'[i] \in Checker => cell'[i] = cell[i]
        /\ \A d \in Call : /\ pc'[d] = "publish" => pc[d] = "publish"
                           /\ pc'[d] \in Leasing => pc[d] \in Leasing
        /\ canceled' = canceled
    BY <1>a, <1>22 DEF Arm, Goto
  <2> QED
    BY <1>b, <2>1, HomedKeeps
<1>23. ASSUME NEW a \in Actor, StoreTimer(a)
      PROVE  Homed'
  <2>1. /\ \A i \in Slots : cell'[i] \in Checker => cell'[i] = cell[i]
        /\ \A d \in Call : /\ pc'[d] = "publish" => pc[d] = "publish"
                           /\ pc'[d] \in Leasing => pc[d] \in Leasing
        /\ canceled' = canceled
    BY <1>a, <1>23 DEF StoreTimer, Disarm, Ended, Goto
  <2> QED
    BY <1>b, <2>1, HomedKeeps
<1>24. ASSUME NEW r \in Request, Cancel(r)
      PROVE  Homed'
  <2>1. /\ \A i \in Slots : cell'[i] \in Checker => cell'[i] = cell[i]
        /\ \A d \in Call : /\ pc'[d] = "publish" => pc[d] = "publish"
                           /\ pc'[d] \in Leasing => pc[d] \in Leasing
        /\ canceled' = canceled
    BY <1>a, <1>24 DEF Cancel
  <2> QED
    BY <1>b, <2>1, HomedKeeps
<1>25. ASSUME NEW x \in fired, RunCleanup(x[1], x[2])
      PROVE  Homed'
  <2>1. /\ \A i \in Slots : cell'[i] \in Checker => cell'[i] = cell[i]
        /\ \A d \in Call : /\ pc'[d] = "publish" => pc[d] = "publish"
                           /\ pc'[d] \in Leasing => pc[d] \in Leasing
        /\ canceled' = canceled
    BY <1>a, <1>25 DEF RunCleanup
  <2> QED
    BY <1>b, <2>1, HomedKeeps
<1>26. ASSUME NEW c \in firedWakes, RunWake(c)
      PROVE  Homed'
  <2>1. /\ \A i \in Slots : cell'[i] \in Checker => cell'[i] = cell[i]
        /\ \A d \in Call : /\ pc'[d] = "publish" => pc[d] = "publish"
                           /\ pc'[d] \in Leasing => pc[d] \in Leasing
        /\ canceled' = canceled
    BY <1>a, <1>26 DEF RunWake, Notified
  <2> QED
    BY <1>b, <2>1, HomedKeeps
<1>27. ASSUME NEW w \in Cleaner, NEW x \in armed, Fire(x[1], w)
      PROVE  Homed'
  <2>1. /\ \A i \in Slots : cell'[i] \in Checker => cell'[i] = cell[i]
        /\ \A d \in Call : /\ pc'[d] = "publish" => pc[d] = "publish"
                           /\ pc'[d] \in Leasing => pc[d] \in Leasing
        /\ canceled' = canceled
    BY <1>a, <1>27 DEF Fire, Disarm, Goto
  <2> QED
    BY <1>b, <2>1, HomedKeeps
<1>28. ASSUME NEW w \in Cleaner, Cleanup(w)
      PROVE  Homed'
  <2>1. PICK I \in SUBSET Slots : cell' = Evicted(I)
    BY <1>28, CleanupEffect
  <2>2. \A i \in Slots : cell'[i] \in Checker => cell'[i] = cell[i]
    BY <1>a, <2>1 DEF Evicted
  <2>3. (\A d \in Call : pc'[d] = pc[d]) /\ canceled' = canceled
    BY <1>a, <1>28 DEF Cleanup, Goto
  <2> QED
    BY <1>b, <2>2, <2>3, HomedKeeps
<1>29. ASSUME Discard
      PROVE  Homed'
  <2>1. /\ \A i \in Slots : cell'[i] \in Checker => cell'[i] = cell[i]
        /\ \A d \in Call : /\ pc'[d] = "publish" => pc[d] = "publish"
                           /\ pc'[d] \in Leasing => pc[d] \in Leasing
        /\ canceled' = canceled
    BY <1>a, <1>29 DEF Discard, Disarm
  <2> QED
    BY <1>b, <2>1, HomedKeeps
<1>30. ASSUME Tick
      PROVE  Homed'
  <2>1. /\ \A i \in Slots : cell'[i] \in Checker => cell'[i] = cell[i]
        /\ \A d \in Call : /\ pc'[d] = "publish" => pc[d] = "publish"
                           /\ pc'[d] \in Leasing => pc[d] \in Leasing
        /\ canceled' = canceled
    BY <1>a, <1>30 DEF Tick
  <2> QED
    BY <1>b, <2>1, HomedKeeps
<1>31. ASSUME Finished \/ UNCHANGED vars
      PROVE  Homed'
  <2>1. /\ \A i \in Slots : cell'[i] \in Checker => cell'[i] = cell[i]
        /\ \A d \in Call : /\ pc'[d] = "publish" => pc[d] = "publish"
                           /\ pc'[d] \in Leasing => pc[d] \in Leasing
        /\ canceled' = canceled
    BY <1>a, <1>31 DEF Finished, vars
  <2> QED
    BY <1>b, <2>1, HomedKeeps
<1>32. ASSUME NEW x \in Direct, Pinning(x)
      PROVE  Homed'
  <2>1. UNCHANGED <<pc, at, handle, chk, canceled>>
    BY <1>32, PinEffect DEF Unscheduled
  <2>2. \A i \in Slots : cell'[i] \in Checker =>
           cell'[i] = cell[i] \/ (i = Api /\ cell'[i] = x /\ Made(x)')
    <3>1. (\A j \in Slots \ {Api} : cell'[j] = cell[j]) /\ ApiCell(x)
      BY <1>32, PinEffect
    <3>2. pins'[x] = x => Made(x)'
      BY <1>32 DEF Made, Checker
    <3> QED
      BY <3>1, <3>2 DEF ApiCell, Checker
  <2>3. Home(x)' = Api
    BY <1>32 DEF Home
  <2>4. \A e \in Call : SlotOf(e)' = SlotOf(e) /\ Slot(e)' = Slot(e)
    BY <2>1 DEF SlotOf
  <2> QED
    BY <1>b, <1>c, <1>d, <2>1, <2>2, <2>3, <2>4 DEF Homed
<1> QED
    BY <1>1, <1>2, <1>3, <1>4, <1>5, <1>6, <1>7, <1>8, <1>9, <1>10, <1>11, <1>12, <1>13,
       <1>14, <1>15, <1>16, <1>17, <1>18, <1>19, <1>20, <1>21, <1>22, <1>23, <1>24, <1>25,
       <1>26, <1>27, <1>28, <1>29, <1>30, <1>31, <1>32
       DEF Next, Internal, Select, Initializer, Ends, Scheduling, Callbacks, Timers

(* A step that changes the checkers of the slots I only. *)
Local(I) ==
    /\ \A j \in Slots \ I : slots'[j] = slots[j] /\ cell'[j] = cell[j] /\ checkouts'[j] = checkouts[j]
    /\ active' => active
    /\ canceled \subseteq canceled' /\ \A x \in canceled' \ canceled : Home(x) \in I
    /\ \A e \in Call : pc'[e] \in Reserving /\ Slot(e)' \notin I => pc'[e] = pc[e]
    /\ \A e \in Call : pc'[e] \in Leasing /\ SlotOf(e)' \notin I =>
          pc'[e] = pc[e] \/ (pc[e] \in Holding /\ pc'[e] \in Holding)

(* A step that concerns the slots I only has to keep the pool stocked there. *)
LEMMA Elsewhere ==
    ASSUME Shape, Shape', Pool, Homed', Kept, NEW I \in SUBSET Slots, Local(I), Stocked(I)'
    PROVE  Pool'
<1>1. \A i \in Slots \ I : cell[i] \notin canceled => cell[i] \notin canceled'
  <2> SUFFICES ASSUME NEW i \in Slots \ I, cell[i] \in canceled' \ canceled PROVE FALSE
    OBVIOUS
  <2>1. Home(cell[i]) \in I
    BY DEF Local
  <2>2. cell[i] \in Checker
    <3>1. "empty" \notin canceled' /\ "failed" \notin canceled'
      BY NilAssumption DEF Shape, TypeOK
    <3> QED
      BY <3>1 DEF Shape, TypeOK
  <2> QED
    BY <2>1, <2>2 DEF Pool, Homed
<1>2. \A i \in Slots \ I : Agrees(i) => Agrees(i)'
    BY DEF Local, Agrees
<1>3. \A i \in Slots \ I : ~slots'[i].held => IdleAt(i)'
  <2> SUFFICES ASSUME NEW i \in Slots \ I, ~slots'[i].held PROVE IdleAt(i)'
    OBVIOUS
  <2>1. IdleAt(i)
    BY DEF Local, Pool, Stocked
  <2> QED
    BY <1>1, <1>2, <2>1 DEF IdleAt, Local, Counted
<1>4. ASSUME NEW c \in Call, pc'[c] \in Reserving, Slot(c)' \notin I
      PROVE  ReservedAt(c, Slot(c))'
  <2>1. pc[c] \in Reserving /\ pc'[c] = pc[c]
    BY <1>4 DEF Local
  <2>2. Slot(c)' = Slot(c) /\ Slot(c) \in Slots
    BY <2>1 DEF Kept, Slot, Shape, Placed
  <2>3. ReservedAt(c, Slot(c))
    BY <2>1, <2>2 DEF Pool, Stocked
  <2>4. pc[c] = "publish" => chk'[c] = chk[c]
    BY DEF Kept
  <2>5. Agrees(Slot(c)) => Agrees(Slot(c))'
    BY <1>4, <2>2 DEF Local, Agrees
  <2> QED
    BY <1>1, <1>2, <1>4, <2>1, <2>2, <2>3, <2>4, <2>5 DEF ReservedAt, Local, Counted
<1>5. ASSUME NEW c \in Call, pc'[c] \in Leasing, SlotOf(c)' \notin I
      PROVE  LeasedAt(c, SlotOf(c))'
  <2>1. /\ pc[c] \in Leasing
        /\ pc'[c] = pc[c] \/ (pc[c] \in Holding /\ pc'[c] \in Holding)
    BY <1>5 DEF Local, Leasing
  <2>2. handle[c] \in Call /\ pc[handle[c]] \in Past /\ chk[handle[c]] \in Checker
    BY <2>1 DEF Shape, Leased
  <2>3. handle'[c] = handle[c] /\ chk'[handle[c]] = chk[handle[c]] /\ SlotOf(c)' = SlotOf(c)
    BY <2>1, <2>2 DEF Kept, Built, SlotOf, Slot
  <2>4. SlotOf(c) \in Slots
    BY <2>1 DEF Shape, Leased, SlotOf, Slot
  <2>5. LeasedAt(c, SlotOf(c))
    BY <2>1, <2>4 DEF Pool, Stocked
  <2>6. chk[handle[c]] \in canceled' <=> chk[handle[c]] \in canceled
    BY <1>5, <2>1, <2>2, <2>3 DEF Local, Pool, Homed
  <2>7. Gone(SlotOf(c)) => Gone(SlotOf(c))'
    BY <1>1, <1>5, <2>3, <2>4 DEF Gone, Local
  <2>8. cell'[SlotOf(c)] = cell[SlotOf(c)] /\ checkouts'[SlotOf(c)] = checkouts[SlotOf(c)]
    BY <1>5, <2>3, <2>4 DEF Local
  <2> QED
    BY <2>1, <2>3, <2>5, <2>6, <2>7, <2>8 DEF LeasedAt, Counted, Holding
<1>6. Stocked(Slots)'
    BY <1>3, <1>4, <1>5 DEF Stocked
<1> QED
    BY <1>6 DEF Pool

(* Every step of the scheduler and of the pool keeps them in agreement. *)
LEMMA PoolStep == Shape /\ Exclusive /\ Pool /\ [Next]_vars => Pool'
<1> SUFFICES ASSUME Shape, Exclusive, Pool, [Next]_vars PROVE Pool'
    OBVIOUS
<1> USE NilAssumption
    DEF PC, Actor, Reserving, Leasing, Holding, Returning, Past, Built,
        data, poolVars, pending, contextVars, timerVars, tables, Slot, Counted
<1>a. /\ pc \in [Actor -> PC] /\ chk \in [Call -> Checker \cup {Nil}]
      /\ handle \in [Call -> Call \cup {Nil}] /\ cell \in [Slots -> Checker \cup {"empty", "failed"}]
      /\ checkouts \in [Slots -> Int]
      /\ \A w \in Cleaner : pc[w] \in {"idle", "schedule", "arm", "store", "cleanup"}
    BY DEF Shape, TypeOK, Epoch
<1>b. Shape /\ Shape' /\ Pool /\ Homed' /\ Kept
    BY KeptStep, HomedStep, ShapeStep DEF Pool
<1>c. /\ canceled \in SUBSET Checker
      /\ \A e \in Call : pc[e] \in Reserving => Slot(e) \in Slots
      /\ \A e \in Call : pc[e] \in Leasing =>
            /\ SlotOf(e) \in Slots
            /\ handle[e] \in Call /\ pc[handle[e]] \in Past /\ chk[handle[e]] \in Checker
      /\ \A e \in Call : pc[e] = "publish" => chk[e] \in Checker
    BY DEF Shape, TypeOK, Leased, Placed, SlotOf
<1>d. Exclusive
    OBVIOUS
<1>e. Exclusive'
    BY ExclusiveStep
<1>1. ASSUME NEW c \in Call, NEW t \in Thread, NEW ask \in Asks,
             StartAcquire(c, t, ask[1], ask[2], ask[3])
      PROVE  Pool'
  <2>1. Local({})
    BY <1>a, <1>1 DEF Local, StartAcquire, Notified, Goto
  <2>2. Stocked({})'
    BY DEF Stocked
  <2> QED
    BY <1>b, <2>1, <2>2, Elsewhere
<1>2. ASSUME NEW c \in Call, SelectRefused(c)
      PROVE  Pool'
  <2>1. Local({})
    BY <1>a, <1>2 DEF Local, SelectRefused, Return, Goto
  <2>2. Stocked({})'
    BY DEF Stocked
  <2> QED
    BY <1>b, <2>1, <2>2, Elsewhere
<1>3. ASSUME NEW c \in Call, SelectShared(c)
      PROVE  Pool'
  <2> DEFINE l == slots[Associated(c).index].lease
  <2>1. PICK d \in Call : handle[d] = l /\ pc[d] \in Holding
    BY <1>3 DEF SelectShared, Shares, Handles
  <2>2. /\ UNCHANGED <<slots, cell, checkouts, canceled, active, at, chk>>
        /\ handle'[c] = l /\ pc'[c] = "held" /\ pc[c] = "select"
        /\ \A e \in Call \ {c} : pc'[e] = pc[e] /\ handle'[e] = handle[e]
    BY <1>a, <1>3 DEF SelectShared, Return, Goto
  <2> HIDE DEF l
  <2> PICK i : i = SlotOf(d)
    OBVIOUS
  <2>3. i \in Slots /\ slots[i].held /\ SlotOf(c)' = i
    BY <1>c, <2>1, <2>2 DEF Exclusive, Leases, SlotOf
  <2>4. Local({i})
    BY <2>2, <2>3 DEF Local, SlotOf
  <2>5. LeasedAt(d, i)
    BY <2>1, <2>3 DEF Pool, Stocked
  <2>6. \A e \in Call : pc'[e] \in Reserving => Slot(e)' # i
    BY <1>e, <2>2, <2>3 DEF Exclusive, OneHolder
  <2>7. ASSUME NEW e \in Call, pc'[e] \in Leasing, SlotOf(e)' = i PROVE LeasedAt(e, i)'
    <3>1. CASE e = c
      BY <2>1, <2>2, <2>5, <3>1 DEF LeasedAt, Gone
    <3>2. CASE e # c
      <4>1. LeasedAt(e, i)
        BY <2>2, <2>3, <2>7, <3>2 DEF Pool, Stocked, SlotOf
      <4> QED
        BY <2>2, <3>2, <4>1 DEF LeasedAt, Gone
    <3> QED
      BY <3>1, <3>2
  <2>8. Stocked({i})'
    BY <2>2, <2>3, <2>6, <2>7 DEF Stocked
  <2> QED
    BY <1>b, <2>3, <2>4, <2>8, Elsewhere
<1>4. ASSUME NEW c \in Call, SelectClaim(c)
      PROVE  Pool'
  <2> PICK i : i = Candidate(c)[1]
    OBVIOUS
  <2>1. /\ i \in Slots /\ ~slots[i].held /\ slots'[i].held
        /\ (\A j \in Slots \ {i} : slots'[j] = slots[j]) /\ at'[c] = Candidate(c)
        /\ slots'[i].initialized = slots[i].initialized /\ slots'[i].identity = slots[i].identity
    BY <1>4, ClaimEffect
  <2>2. /\ pc[c] = "select" /\ pc' = [pc EXCEPT ![c] = "pool"]
        /\ UNCHANGED <<call, chk, handle, cell, checkouts, canceled, active>>
    BY <1>4 DEF SelectClaim, Goto
  <2>3. pc'[c] = "pool" /\ (\A e \in Call \ {c} : pc'[e] = pc[e]) /\ Slot(c)' = i
    BY <1>a, <2>1, <2>2
  <2>4. Local({i})
    BY <2>1, <2>2, <2>3 DEF Local
  <2>5. IdleAt(i)
    BY <2>1 DEF Pool, Stocked
  <2>6. ReservedAt(c, i)'
    BY <2>1, <2>2, <2>3, <2>5 DEF IdleAt, ReservedAt, Agrees
  <2>20. \A e \in Call : /\ pc'[e] \in Reserving /\ Slot(e)' = i => e = c
                         /\ pc'[e] \in Leasing => SlotOf(e)' # i
    BY <1>e, <2>2, <2>3 DEF Exclusive, OneHolder
  <2>21. slots'[i].held
    BY <2>1, <2>2
  <2>22. Stocked({i})'
    BY <2>3, <2>6, <2>20, <2>21 DEF Stocked
  <2> QED
    BY <1>b, <2>1, <2>4, <2>22, Elsewhere
<1>5. ASSUME NEW c \in Call, SelectReentry(c)
      PROVE  Pool'
  <2>1. Local({})
    BY <1>a, <1>5 DEF Local, SelectReentry, Return, Drop, Goto
  <2>2. Stocked({})'
    BY DEF Stocked
  <2> QED
    BY <1>b, <2>1, <2>2, Elsewhere
<1>6. ASSUME NEW c \in Call, SelectWait(c)
      PROVE  Pool'
  <2>1. Local({})
    BY <1>a, <1>6 DEF Local, SelectWait, Drop, Goto
  <2>2. Stocked({})'
    BY DEF Stocked
  <2> QED
    BY <1>b, <2>1, <2>2, Elsewhere
<1>7. ASSUME NEW c \in Call, PoolEnter(c)
      PROVE  Pool'
  <2> PICK i : i = Slot(c)
    OBVIOUS
  <2>1. i \in Slots /\ Slot(c)' = i /\ pc[c] = "pool" /\ slots[i].held
    BY <1>c, <1>7 DEF PoolEnter, Exclusive, Reserves
  <2>2. /\ UNCHANGED <<slots, chk, handle, cell, canceled, active>>
        /\ \A e \in Call \ {c} : pc'[e] = pc[e]
        /\ \A j \in Slots \ {i} : checkouts'[j] = checkouts[j]
        /\ \/ pc'[c] = "init" /\ checkouts'[i] = checkouts[i] + 1
           \/ pc'[c] = "unreserve" /\ checkouts'[i] = checkouts[i]
    BY <1>a, <2>1, <1>7 DEF PoolEnter, Goto
  <2>3. Slot(c)' = i
    BY <2>1
  <2>4. Local({i})
    BY <2>1, <2>2, <2>3 DEF Local
  <2>5. ReservedAt(c, i)
    BY <2>1 DEF Pool, Stocked
  <2>6. ReservedAt(c, i)'
    BY <2>1, <2>2, <2>5 DEF ReservedAt, Agrees
  <2>20. \A e \in Call : /\ pc'[e] \in Reserving /\ Slot(e)' = i => e = c
                         /\ pc'[e] \in Leasing => SlotOf(e)' # i
    BY <1>e, <2>2, <2>3 DEF Exclusive, OneHolder
  <2>21. slots'[i].held
    BY <2>1, <2>2
  <2>22. Stocked({i})'
    BY <2>3, <2>6, <2>20, <2>21 DEF Stocked
  <2> QED
    BY <1>b, <2>1, <2>4, <2>22, Elsewhere
<1>8. ASSUME NEW c \in Call, Validate(c)
      PROVE  Pool'
  <2> PICK i : i = Slot(c)
    OBVIOUS
  <2>1. i \in Slots /\ Slot(c)' = i /\ pc[c] = "validate" /\ slots[i].held
    BY <1>c, <1>8 DEF Validate, Exclusive, Reserves
  <2>2. /\ UNCHANGED <<slots, handle, cell, canceled, active>>
        /\ \A e \in Call \ {c} : pc'[e] = pc[e]
        /\ \A j \in Slots \ {i} : checkouts'[j] = checkouts[j]
        /\ \/ /\ pc'[c] = "publish" /\ checkouts'[i] = checkouts[i] /\ chk'[c] = cell[i]
           \/ /\ pc'[c] = "unreserve" /\ checkouts'[i] = checkouts[i] - 1
              /\ ~(active /\ cell[i] \in Checker)
    BY <1>a, <2>1, <1>8 DEF Validate, Goto
  <2>3. Slot(c)' = i
    BY <2>1
  <2>4. Local({i})
    BY <2>1, <2>2, <2>3 DEF Local
  <2>5. ReservedAt(c, i)
    BY <2>1 DEF Pool, Stocked
  <2>7. Counted(i, 1) /\ cell[i] \notin canceled /\ (slots[i].initialized => Agrees(i))
    BY <2>1, <2>5 DEF ReservedAt
  <2>6. ReservedAt(c, i)'
    BY <2>2, <2>7 DEF ReservedAt, Agrees
  <2>20. \A e \in Call : /\ pc'[e] \in Reserving /\ Slot(e)' = i => e = c
                         /\ pc'[e] \in Leasing => SlotOf(e)' # i
    BY <1>e, <2>2, <2>3 DEF Exclusive, OneHolder
  <2>21. slots'[i].held
    BY <2>1, <2>2
  <2>22. Stocked({i})'
    BY <2>3, <2>6, <2>20, <2>21 DEF Stocked
  <2> QED
    BY <1>b, <2>1, <2>4, <2>22, Elsewhere
<1>9. ASSUME NEW c \in Call, Unreserve(c)
      PROVE  Pool'
  <2> PICK i : i = Slot(c)
    OBVIOUS
  <2>1. /\ i \in Slots /\ ~slots'[i].held /\ (\A j \in Slots \ {i} : slots'[j] = slots[j])
        /\ slots'[i].initialized = slots[i].initialized /\ slots'[i].identity = slots[i].identity
    BY <1>9, UnreserveEffect
  <2>2. /\ pc[c] = "unreserve" /\ pc'[c] = "done"
        /\ UNCHANGED <<at, chk, handle, cell, checkouts, canceled, active>>
        /\ \A e \in Call \ {c} : pc'[e] = pc[e] \/ (pc[e] = "asleep" /\ pc'[e] = "select")
    BY <1>a, <1>9 DEF Unreserve, Notified, Goto
  <2>3. Local({i})
    BY <2>1, <2>2 DEF Local
  <2>4. ReservedAt(c, i)
    BY <2>1, <2>2 DEF Pool, Stocked
  <2>5. IdleAt(i)'
    BY <2>1, <2>2, <2>4 DEF ReservedAt, IdleAt, Agrees
  <2>20. \A e \in Call : /\ pc'[e] \in Reserving => Slot(e)' # i
                         /\ pc'[e] \in Leasing => SlotOf(e)' # i
    BY <1>e, <2>1 DEF Exclusive, Reserves, Leases
  <2>22. Stocked({i})'
    BY <2>5, <2>20 DEF Stocked
  <2> QED
    BY <1>b, <2>1, <2>3, <2>22, Elsewhere
<1>10. ASSUME NEW c \in Call, Publish(c)
      PROVE  Pool'
  <2> PICK i : i = Slot(c)
    OBVIOUS
  <2>1. /\ i \in Slots /\ (\A j \in Slots \ {i} : slots'[j] = slots[j])
        /\ slots'[i].held = slots[i].held
    BY <1>10, PublishEffect
  <2>2. /\ pc[c] = "publish" /\ pc'[c] \in {"register", "held"}
        /\ UNCHANGED <<at, chk, cell, checkouts, canceled, active>> /\ handle' = [handle EXCEPT ![c] = c]
        /\ \A e \in Call \ {c} : pc'[e] = pc[e] \/ (pc[e] = "asleep" /\ pc'[e] = "select")
    BY <1>a, <1>10 DEF Publish, Notified, Goto
  <2>3. handle'[c] = c /\ SlotOf(c)' = i
    BY <1>a, <2>2 DEF SlotOf
  <2>4. Local({i})
    BY <2>1, <2>2, <2>3 DEF Local
  <2>5. ReservedAt(c, i)
    BY <2>1, <2>2 DEF Pool, Stocked
  <2>6. LeasedAt(c, i)'
    BY <2>2, <2>3, <2>5 DEF ReservedAt, LeasedAt
  <2>7. slots'[i].held
    BY <1>e, <2>2, <2>3 DEF Exclusive, Leases
  <2>20. \A e \in Call : /\ pc'[e] \in Reserving => Slot(e)' # i
                         /\ pc'[e] \in Leasing /\ e # c => SlotOf(e)' # i
    <3>1. ASSUME NEW e \in Call, pc'[e] \in Leasing, e # c PROVE SlotOf(e)' # i
      <4>1. pc[e] \in Leasing /\ SlotOf(e)' = SlotOf(e)
        BY <1>a, <2>2, <3>1 DEF SlotOf
      <4> QED
        BY <1>d, <2>2, <4>1 DEF Exclusive, OneHolder
    <3> QED
      BY <1>e, <2>2, <2>3, <3>1 DEF Exclusive, OneHolder
  <2>22. Stocked({i})'
    BY <2>3, <2>6, <2>7, <2>20 DEF Stocked
  <2> QED
    BY <1>b, <2>1, <2>4, <2>22, Elsewhere
<1>11. ASSUME NEW c \in Call, Register(c)
      PROVE  Pool'
  <2>1. Local({})
    BY <1>a, <1>11 DEF Local, Register, Goto
  <2>2. Stocked({})'
    BY DEF Stocked
  <2> QED
    BY <1>b, <2>1, <2>2, Elsewhere
<1>12. ASSUME NEW c \in Call, RegisterStop(c)
      PROVE  Pool'
  <2>1. Local({})
    BY <1>a, <1>12 DEF Local, RegisterStop, Return, Goto
  <2>2. Stocked({})'
    BY DEF Stocked
  <2> QED
    BY <1>b, <2>1, <2>2, Elsewhere
<1>13. ASSUME NEW c \in Call, ReleaseDispose(c)
      PROVE  Pool'
  <2> PICK i : i = SlotOf(c)
    OBVIOUS
  <2>1. pc[c] = "dispose" /\ pc[c] \in Leasing /\ SlotOf(c)' = i
    BY <1>13 DEF ReleaseDispose, SlotOf
  <2>2. i \in Slots /\ slots[i].held /\ handle[c] \in Call
    BY <1>c, <2>1 DEF Exclusive, Leases
  <2>3. /\ UNCHANGED <<slots, at, checkouts, chk, handle, canceled, active>>
        /\ (\A e \in Call \ {c} : pc'[e] = pc[e]) /\ pc'[c] = "return"
        /\ (\A j \in Slots \ {i} : cell'[j] = cell[j])
        /\ cell'[i] = IF chk[handle[c]] \in canceled /\ cell[i] = chk[handle[c]]
                        THEN "empty" ELSE cell[i]
    BY <1>a, <2>2, <1>13 DEF ReleaseDispose, Disposed, Goto, Spoiled, SlotOf
  <2>4. Local({i})
    BY <2>1, <2>2, <2>3 DEF Local, SlotOf
  <2>5. ASSUME NEW e \in Call, pc'[e] \in Leasing, SlotOf(e)' = i PROVE LeasedAt(e, i)'
    <3>1. e = c
      <4>1. handle'[e] = handle'[c] /\ pc'[c] \in Returning
        BY <1>e, <2>1, <2>3, <2>5 DEF Exclusive, Leases
      <4> QED
        BY <1>e, <2>5, <4>1 DEF Exclusive, OneHolder
    <3>2. LeasedAt(c, i)
      BY <2>1, <2>2 DEF Pool, Stocked
    <3> QED
      BY <1>c, <2>1, <2>3, <3>1, <3>2 DEF LeasedAt, Gone
  <2>6. \A e \in Call : pc'[e] \in Reserving => Slot(e)' # i
    BY <2>1, <2>3 DEF Exclusive, OneHolder
  <2>22. Stocked({i})'
    BY <2>2, <2>3, <2>5, <2>6 DEF Stocked
  <2> QED
    BY <1>b, <2>2, <2>4, <2>22, Elsewhere
<1>14. ASSUME NEW c \in Call, ReleaseReturn(c)
      PROVE  Pool'
  <2> PICK i : i = SlotOf(c)
    OBVIOUS
  <2>1. pc[c] = "return" /\ pc[c] \in Leasing /\ SlotOf(c)' = i
    BY <1>14 DEF ReleaseReturn, SlotOf
  <2>2. i \in Slots /\ slots[i].held /\ handle[c] \in Call
    BY <1>c, <2>1 DEF Exclusive, Leases
  <2>3. /\ UNCHANGED <<slots, at, cell, chk, handle, canceled, active>>
        /\ (\A e \in Call \ {c} : pc'[e] = pc[e]) /\ pc'[c] = "release"
        /\ (\A j \in Slots \ {i} : checkouts'[j] = checkouts[j])
        /\ checkouts'[i] = checkouts[i] - 1
    BY <1>a, <2>2, <1>14 DEF ReleaseReturn, Returned, Goto, SlotOf
  <2>4. Local({i})
    BY <2>1, <2>2, <2>3 DEF Local, SlotOf
  <2>5. ASSUME NEW e \in Call, pc'[e] \in Leasing, SlotOf(e)' = i PROVE LeasedAt(e, i)'
    <3>1. e = c
      <4>1. handle'[e] = handle'[c] /\ pc'[c] \in Returning
        BY <1>e, <2>1, <2>3, <2>5 DEF Exclusive, Leases
      <4> QED
        BY <1>e, <2>5, <4>1 DEF Exclusive, OneHolder
    <3>2. LeasedAt(c, i)
      BY <2>1, <2>2 DEF Pool, Stocked
    <3> QED
      BY <2>1, <2>3, <3>1, <3>2 DEF LeasedAt, Gone
  <2>6. \A e \in Call : pc'[e] \in Reserving => Slot(e)' # i
    BY <2>1, <2>3 DEF Exclusive, OneHolder
  <2>22. Stocked({i})'
    BY <2>2, <2>3, <2>5, <2>6 DEF Stocked
  <2> QED
    BY <1>b, <2>2, <2>4, <2>22, Elsewhere
<1>15. ASSUME NEW c \in Call, ReleaseState(c)
      PROVE  Pool'
  <2> PICK i : i = SlotOf(c)
    OBVIOUS
  <2>1. /\ i \in Slots /\ ~slots'[i].held /\ (\A j \in Slots \ {i} : slots'[j] = slots[j])
        /\ Spoiled(c) => slots'[i] = FreeSlot
        /\ ~Spoiled(c) => /\ slots'[i].initialized = slots[i].initialized
                          /\ slots'[i].identity = slots[i].identity
    BY <1>15, ReleaseEffect DEF SlotOf
  <2>2. /\ pc[c] = "release" /\ pc'[c] = "schedule"
        /\ UNCHANGED <<at, chk, handle, cell, checkouts, canceled, active>>
        /\ \A e \in Call \ {c} : pc'[e] = pc[e] \/ (pc[e] = "asleep" /\ pc'[e] = "select")
    BY <1>a, <1>15 DEF ReleaseState, Notified, Goto
  <2>3. Local({i})
    BY <2>1, <2>2 DEF Local
  <2>4. /\ LeasedAt(c, i) /\ slots[i].initialized /\ slots[i].identity = chk[handle[c]]
        /\ chk[handle[c]] \in Checker
    BY <1>c, <2>1, <2>2 DEF Pool, Stocked, Exclusive, Leases
  <2>5. IdleAt(i)'
    <3>1. Counted(i, 0) /\ (IF Spoiled(c) THEN Gone(i) ELSE cell[i] = chk[handle[c]])
      BY <2>2, <2>4 DEF LeasedAt, Spoiled
    <3>2. CASE Spoiled(c)
      <4>1. slots'[i].initialized = FALSE
        BY <2>1, <3>2 DEF FreeSlot
      <4> QED
        BY <1>c, <2>2, <3>1, <3>2, <4>1 DEF IdleAt, Agrees, Gone
    <3>3. CASE ~Spoiled(c)
      BY <2>1, <2>2, <2>4, <3>1, <3>3 DEF IdleAt, Agrees, Spoiled
    <3> QED
      BY <3>2, <3>3
  <2>20. \A e \in Call : /\ pc'[e] \in Reserving => Slot(e)' # i
                         /\ pc'[e] \in Leasing => SlotOf(e)' # i
    BY <1>e, <2>1 DEF Exclusive, Reserves, Leases
  <2>22. Stocked({i})'
    BY <2>5, <2>20 DEF Stocked
  <2> QED
    BY <1>b, <2>1, <2>3, <2>22, Elsewhere
<1>16. ASSUME NEW c \in Call, NEW outcome, Initialize(c, outcome)
      PROVE  Pool'
  <2> PICK i : i = Slot(c)
    OBVIOUS
  <2>1. i \in Slots /\ Slot(c)' = i /\ pc[c] = "init" /\ slots[i].held
    BY <1>c, <1>16 DEF Initialize, Exclusive, Reserves
  <2>2. /\ UNCHANGED <<slots, chk, handle, canceled, checkouts>>
        /\ (\A e \in Call \ {c} : pc'[e] = pc[e]) /\ pc'[c] = "validate"
        /\ active' => active
    BY <1>a, <1>16, InitializeEffect DEF Initialize, Goto
  <2>3. Slot(c)' = i
    BY <2>1
  <2>7. /\ \A j \in Slots \ {i} : cell'[j] = cell[j]
        /\ cell'[i] = cell[i] \/ (cell[i] = "empty" /\ cell'[i] \in {c, "failed"})
    <3>1. \/ cell' = cell
          \/ \E v \in {"failed", c} : cell[i] = "empty" /\ cell' = [cell EXCEPT ![i] = v]
      BY <1>16, InitializeEffect
    <3> QED
      BY <1>a, <2>1, <3>1
  <2>4. Local({i})
    BY <2>1, <2>2, <2>3, <2>7 DEF Local
  <2>5. ReservedAt(c, i) /\ c \notin canceled /\ "failed" \notin canceled
    <3>1. c \in Call /\ ~Made(c)
      BY <2>1 DEF Made
    <3> QED
      BY <1>c, <2>1, <3>1 DEF Pool, Stocked, Homed
  <2>8. slots[i].initialized => cell'[i] = cell[i]
    BY <2>1, <2>5, <2>7 DEF ReservedAt, Agrees
  <2>9. slots[i].initialized => cell[i] = slots[i].identity /\ cell[i] \in Checker
    BY <2>1, <2>5 DEF ReservedAt, Agrees
  <2>10. Counted(i, 1)' /\ cell'[i] \notin canceled'
    BY <2>1, <2>2, <2>5, <2>7 DEF ReservedAt
  <2>6. ReservedAt(c, i)'
    BY <2>2, <2>8, <2>9, <2>10 DEF ReservedAt, Agrees
  <2>20. \A e \in Call : /\ pc'[e] \in Reserving /\ Slot(e)' = i => e = c
                         /\ pc'[e] \in Leasing => SlotOf(e)' # i
    BY <1>e, <2>2, <2>3 DEF Exclusive, OneHolder
  <2>21. slots'[i].held
    BY <2>1, <2>2
  <2>22. Stocked({i})'
    BY <2>3, <2>6, <2>20, <2>21 DEF Stocked
  <2> QED
    BY <1>b, <2>1, <2>4, <2>22, Elsewhere
<1>17. ASSUME NEW c \in Call, SpuriousWake(c)
      PROVE  Pool'
  <2>1. Local({})
    BY <1>a, <1>17 DEF Local, SpuriousWake, Goto
  <2>2. Stocked({})'
    BY DEF Stocked
  <2> QED
    BY <1>b, <2>1, <2>2, Elsewhere
<1>18. ASSUME NEW c \in Call, BeginOperation(c)
      PROVE  Pool'
  <2>1. Local({})
    BY <1>a, <1>18 DEF Local, BeginOperation
  <2>2. Stocked({})'
    BY DEF Stocked
  <2> QED
    BY <1>b, <2>1, <2>2, Elsewhere
<1>19. ASSUME NEW c \in Call, NEW outcome, EndOperation(c, outcome)
      PROVE  Pool'
  <2> PICK i : i = SlotOf(c)
    OBVIOUS
  <2>1. pc[c] = "held" /\ pc[c] \in Leasing /\ pc[c] \in Holding
    BY <1>19 DEF EndOperation, Shape, Placed
  <2>2. /\ UNCHANGED <<slots, at, cell, checkouts, chk, handle, pc>> /\ (active' => active)
        /\ canceled \subseteq canceled' /\ canceled' \subseteq canceled \cup {chk[handle[c]]}
    BY <1>19 DEF EndOperation
  <2>3. i \in Slots /\ slots[i].held /\ chk[handle[c]] \in Checker /\ Home(chk[handle[c]]) = i
    BY <1>c, <2>1 DEF Exclusive, Leases, Pool, Homed
  <2>4. Local({i})
    BY <2>2, <2>3 DEF Local
  <2>5. ASSUME NEW e \in Call, pc[e] \in Leasing, SlotOf(e) = i PROVE LeasedAt(e, i)'
    <3>1. LeasedAt(e, i)
      BY <2>3, <2>5 DEF Pool, Stocked
    <3>2. handle[e] = handle[c]
      BY <2>1, <2>5 DEF Exclusive, Leases
    <3>3. pc[e] \notin Returning
      BY <2>1, <2>5, <3>2 DEF Exclusive, OneHolder
    <3>4. chk[handle[c]] \in canceled => canceled' = canceled
      BY <2>2
    <3> QED
      BY <2>2, <3>1, <3>2, <3>3, <3>4 DEF LeasedAt, Gone
  <2>6. \A e \in Call : pc[e] \in Reserving => Slot(e) # i
    BY <2>1 DEF Exclusive, OneHolder
  <2>7. \A e \in Call : SlotOf(e)' = SlotOf(e) /\ Slot(e)' = Slot(e)
    BY <2>2 DEF SlotOf
  <2>22. Stocked({i})'
    BY <2>2, <2>3, <2>5, <2>6, <2>7 DEF Stocked
  <2> QED
    BY <1>b, <2>3, <2>4, <2>22, Elsewhere
<1>20. ASSUME NEW c \in Call, DropHandle(c)
      PROVE  Pool'
  <2> PICK i : i = SlotOf(c)
    OBVIOUS
  <2>1. pc[c] = "held" /\ pc[c] \in Leasing /\ SlotOf(c)' = i
    BY <1>20 DEF DropHandle, SlotOf
  <2>2. i \in Slots /\ slots[i].held /\ handle[c] \in Call
    BY <1>c, <2>1 DEF Exclusive, Leases
  <2>3. /\ UNCHANGED <<slots, at, cell, checkouts, chk, handle, canceled, active>>
        /\ (\A e \in Call \ {c} : pc'[e] = pc[e]) /\ pc'[c] \in {"dispose", "done"}
    BY <1>a, <1>20 DEF DropHandle, Goto
  <2>4. Local({i})
    BY <2>1, <2>2, <2>3 DEF Local, SlotOf
  <2>5. ASSUME NEW e \in Call, pc'[e] \in Leasing, SlotOf(e)' = i PROVE LeasedAt(e, i)'
    <3>1. LeasedAt(e, i)
      BY <2>1, <2>2, <2>3, <2>5 DEF Pool, Stocked, SlotOf
    <3> QED
      BY <2>1, <2>3, <3>1 DEF LeasedAt, Gone
  <2>6. \A e \in Call : pc'[e] \in Reserving => Slot(e)' # i
    BY <2>1, <2>3 DEF Exclusive, OneHolder
  <2>22. Stocked({i})'
    BY <2>2, <2>3, <2>5, <2>6 DEF Stocked
  <2> QED
    BY <1>b, <2>2, <2>4, <2>22, Elsewhere
<1>21. ASSUME NEW a \in Actor, Schedule(a)
      PROVE  Pool'
  <2>1. Local({})
    BY <1>a, <1>21 DEF Local, Schedule, Disarm, Ended, Goto
  <2>2. Stocked({})'
    BY DEF Stocked
  <2> QED
    BY <1>b, <2>1, <2>2, Elsewhere
<1>22. ASSUME NEW a \in Actor, Arm(a)
      PROVE  Pool'
  <2>1. Local({})
    BY <1>a, <1>22 DEF Local, Arm, Goto
  <2>2. Stocked({})'
    BY DEF Stocked
  <2> QED
    BY <1>b, <2>1, <2>2, Elsewhere
<1>23. ASSUME NEW a \in Actor, StoreTimer(a)
      PROVE  Pool'
  <2>1. Local({})
    BY <1>a, <1>23 DEF Local, StoreTimer, Disarm, Ended, Goto
  <2>2. Stocked({})'
    BY DEF Stocked
  <2> QED
    BY <1>b, <2>1, <2>2, Elsewhere
<1>24. ASSUME NEW r \in Request, Cancel(r)
      PROVE  Pool'
  <2>1. Local({})
    BY <1>a, <1>24 DEF Local, Cancel
  <2>2. Stocked({})'
    BY DEF Stocked
  <2> QED
    BY <1>b, <2>1, <2>2, Elsewhere
<1>25. ASSUME NEW x \in fired, RunCleanup(x[1], x[2])
      PROVE  Pool'
  <2>1. Local({})
    BY <1>a, <1>25 DEF Local, RunCleanup
  <2>2. Stocked({})'
    BY DEF Stocked
  <2> QED
    BY <1>b, <2>1, <2>2, Elsewhere
<1>26. ASSUME NEW c \in firedWakes, RunWake(c)
      PROVE  Pool'
  <2>1. Local({})
    BY <1>a, <1>26 DEF Local, RunWake, Notified
  <2>2. Stocked({})'
    BY DEF Stocked
  <2> QED
    BY <1>b, <2>1, <2>2, Elsewhere
<1>27. ASSUME NEW w \in Cleaner, NEW x \in armed, Fire(x[1], w)
      PROVE  Pool'
  <2>1. Local({})
    BY <1>a, <1>27 DEF Local, Fire, Disarm, Goto
  <2>2. Stocked({})'
    BY DEF Stocked
  <2> QED
    BY <1>b, <2>1, <2>2, Elsewhere
<1>28. ASSUME NEW w \in Cleaner, Cleanup(w)
      PROVE  Pool'
  <2>1. PICK I \in SUBSET Slots :
             /\ \A i \in I : ~slots[i].held /\ checkouts[i] = 0
             /\ Reset(I) /\ cell' = Evicted(I)
    BY <1>28, CleanupEffect
  <2>2. /\ UNCHANGED <<at, chk, handle, checkouts, canceled, active>>
        /\ \A e \in Call : pc'[e] = pc[e]
    BY <1>a, <1>28 DEF Cleanup, Goto
  <2>3. \A i \in Slots : /\ slots'[i] = IF i \in I THEN FreeSlot ELSE slots[i]
                         /\ cell'[i] = IF i \in I THEN "empty" ELSE cell[i]
    BY <2>1, ResetEffect DEF Evicted
  <2>4. Local(I)
    BY <2>2, <2>3 DEF Local
  <2>5. \A i \in I : IdleAt(i)' /\ ~slots'[i].held
    BY <1>c, <2>1, <2>2, <2>3 DEF IdleAt, Agrees, FreeSlot
  <2>6. \A e \in Call : /\ pc'[e] \in Reserving => Slot(e)' \notin I
                        /\ pc'[e] \in Leasing => SlotOf(e)' \notin I
    BY <1>e, <2>5 DEF Exclusive, Reserves, Leases
  <2>22. Stocked(I)'
    BY <2>5, <2>6 DEF Stocked
  <2> QED
    BY <1>b, <2>4, <2>22, Elsewhere
<1>29. ASSUME Discard
      PROVE  Pool'
  <2>1. Local({})
    BY <1>a, <1>29 DEF Local, Discard, Disarm
  <2>2. Stocked({})'
    BY DEF Stocked
  <2> QED
    BY <1>b, <2>1, <2>2, Elsewhere
<1>30. ASSUME Tick
      PROVE  Pool'
  <2>1. Local({})
    BY <1>a, <1>30 DEF Local, Tick
  <2>2. Stocked({})'
    BY DEF Stocked
  <2> QED
    BY <1>b, <2>1, <2>2, Elsewhere
<1>31. ASSUME Finished \/ UNCHANGED vars
      PROVE  Pool'
  <2>1. Local({})
    BY <1>a, <1>31 DEF Local, Finished, vars
  <2>2. Stocked({})'
    BY DEF Stocked
  <2> QED
    BY <1>b, <2>1, <2>2, Elsewhere
<1>32. ASSUME NEW x \in Direct, Pinning(x)
      PROVE  Pool'
  <2>1. UNCHANGED <<slots, pc, at, handle, chk, canceled>>
    BY <1>32, PinEffect DEF Unscheduled
  <2>2. Api \in Slots
    BY SlotFacts
  <2>3. Local({Api})
    BY <1>32, <2>1, PinEffect DEF Local
  <2>4. /\ cell'[Api] \notin canceled \/ cell'[Api] = cell[Api]
        /\ cell[Api] \in Checker \ canceled => cell'[Api] = cell[Api]
    <3>1. ApiCell(x)
      BY <1>32, PinEffect
    <3>2. pins[x] = "empty" => x \notin canceled
      BY <1>32 DEF Made, Pool, Homed
    <3> QED
      BY <1>c, <3>1, <3>2 DEF ApiCell
  <2>5. \A e \in Call : SlotOf(e)' = SlotOf(e) /\ Slot(e)' = Slot(e)
    BY <2>1 DEF SlotOf
  <2>6. ~slots[Api].held => IdleAt(Api)'
    <3> SUFFICES ASSUME ~slots[Api].held PROVE IdleAt(Api)'
      OBVIOUS
    <3>1. IdleAt(Api)
      BY <2>2 DEF Pool, Stocked
    <3> QED
      BY <2>1, <2>4, <3>1 DEF IdleAt, Agrees
  <2>7. ASSUME NEW e \in Call, pc[e] \in Reserving, Slot(e) = Api PROVE ReservedAt(e, Api)'
    <3>1. ReservedAt(e, Api)
      BY <2>2, <2>7 DEF Pool, Stocked
    <3>2. pc[e] = "publish" => chk[e] \in Checker
      BY <1>c
    <3>3. Agrees(Api) => Agrees(Api)'
      BY <2>1, <2>4, <3>1 DEF ReservedAt, Agrees
    <3> QED
      BY <2>1, <2>4, <3>1, <3>2, <3>3 DEF ReservedAt
  <2>8. ASSUME NEW e \in Call, pc[e] \in Leasing, SlotOf(e) = Api PROVE LeasedAt(e, Api)'
    <3>1. LeasedAt(e, Api) /\ chk[handle[e]] \in Checker
      BY <1>c, <2>2, <2>8 DEF Pool, Stocked
    <3> QED
      BY <2>1, <2>4, <3>1 DEF LeasedAt, Gone
  <2>9. Stocked({Api})'
    BY <2>1, <2>5, <2>6, <2>7, <2>8 DEF Stocked
  <2> QED
    BY <1>b, <2>2, <2>3, <2>9, Elsewhere
<1> QED
    BY <1>1, <1>2, <1>3, <1>4, <1>5, <1>6, <1>7, <1>8, <1>9, <1>10, <1>11, <1>12, <1>13,
       <1>14, <1>15, <1>16, <1>17, <1>18, <1>19, <1>20, <1>21, <1>22, <1>23, <1>24, <1>25,
       <1>26, <1>27, <1>28, <1>29, <1>30, <1>31, <1>32
       DEF Next, Internal, Select, Initializer, Ends, Scheduling, Callbacks, Timers

(* The pool always agrees with the scheduler. *)
LEMMA PoolHolds == Spec => []Pool
<1>1. Init => Pool
    BY NilAssumption
       DEF Init, Pool, Homed, Stocked, IdleAt, Agrees, Counted, FreeSlot, Actor, Checker, Reserving, Leasing, Holding,
           Returning
<1> QED
    BY <1>1, PoolStep, ShapeHolds, ExclusiveHolds, PTL DEF Spec

(* The pool and the scheduler agree although they are changed under different
   locks: a lease uses the checker its slot has in the pool, and an idle slot has
   the checker it is known for, with no checkout but those of the API of its own
   slot. *)
THEOREM PoolAndSchedulerAgree == Spec => []PoolAgrees
<1>1. Shape /\ Pool => PoolAgrees
  <2> SUFFICES ASSUME Shape, Pool PROVE PoolAgrees
    OBVIOUS
  <2>1. ASSUME NEW c \in Call, pc[c] \in Holding
        PROVE  /\ \/ cell[SlotOf(c)] = chk[handle[c]]
                  \/ SlotOf(c) = Api /\ chk[handle[c]] \in canceled
               /\ SlotOf(c) # Api => checkouts[SlotOf(c)] = 1
    <3>1. pc[c] \in Leasing /\ SlotOf(c) \in Slots
      BY <2>1 DEF Shape, Leased, Leasing, SlotOf, Slot
    <3> QED
      BY <2>1, <3>1 DEF Pool, Stocked, LeasedAt, Counted, Holding
  <2> QED
    BY <2>1 DEF PoolAgrees, Pool, Stocked, IdleAt, Agrees, Counted, SlotOf
<1> QED
    BY <1>1, ShapeHolds, PoolHolds, PTL

(* A checker whose operation was cancelled is disposed of when its checkout is
   released: it is never issued again. *)
THEOREM CanceledCheckersAreDisposed == Spec => []CanceledNeverReissued
<1>1. Shape /\ Pool => CanceledNeverReissued
  <2> SUFFICES ASSUME Shape, Pool PROVE CanceledNeverReissued
    OBVIOUS
  <2>1. ASSUME NEW c \in Call, pc[c] = "publish" PROVE chk[c] \notin canceled
    <3>1. pc[c] \in Reserving /\ Slot(c) \in Slots
      BY <2>1 DEF Shape, Placed, Reserving, Slot
    <3> QED
      BY <2>1, <3>1 DEF Pool, Stocked, ReservedAt
  <2> QED
    BY <2>1 DEF CanceledNeverReissued, Pool, Stocked, IdleAt
<1> QED
    BY <1>1, ShapeHolds, PoolHolds, PTL

----------------------------------------------------------------------------
(* Woken *)

(* A call that is offered nothing finds a slot of its class held. *)
LEMMA Occupied ==
    ASSUME Shape, NEW c \in Call, pc[c] = "select", Candidate(c) = Nil
    PROVE  \E i \in SlotsOf(call[c].life) : slots[i].held
<1>1. call[c] \in Arguments /\ call[c].life \in Lifetime
    BY DEF Shape, Placed, Arguments
<1>2. CASE Finishing(c)
  <2>1. Mine(c) /\ Matches(c) /\ Associated(c) # Nil /\ slots[Associated(c).index].held
    BY <1>2 DEF Finishing, Mine, Matches
  <2> QED
    BY <2>1, Known
<1>3. CASE ~Finishing(c)
  <2> SUFFICES ASSUME \A i \in SlotsOf(call[c].life) : ~slots[i].held PROVE FALSE
    OBVIOUS
  <2>1. {i \in SlotsOf(call[c].life) : ~slots[i].held} # {}
    BY <1>1, SlotFacts
  <2>2. \E S, b : Candidate(c) = <<Min(S), b>> /\ S \subseteq Slots /\ S # {} /\ b \in BOOLEAN
    <3> DEFINE life == call[c].life
               own == IF Matches(c) THEN {Associated(c).index} \cap Warm ELSE {}
               affine == IF life = "temporary" /\ call[c].file # Nil
                           THEN {files[call[c].file]} \cap Warm ELSE {}
               warm == SlotsOf(life) \cap Warm
               free == {i \in SlotsOf(life) : ~slots[i].held}
    <3>1. \/ own # {} /\ Candidate(c) = <<Min(own), FALSE>>
          \/ affine # {} /\ Candidate(c) = <<Min(affine), FALSE>>
          \/ warm # {} /\ Candidate(c) = <<Min(warm), life = "temporary">>
          \/ free # {} /\ Candidate(c) = <<Min(free), life = "temporary">>
      BY <1>3, <2>1 DEF Candidate
    <3>2. own \subseteq Slots /\ affine \subseteq Slots /\ warm \subseteq Slots /\ free \subseteq Slots
      BY <1>1, SlotFacts DEF Warm
    <3>3. (life = "temporary") \in BOOLEAN
      OBVIOUS
    <3> HIDE DEF life, own, affine, warm, free
    <3> QED
      BY <3>1, <3>2, <3>3, Zenon
  <2>3. PICK S, b : Candidate(c) = <<Min(S), b>> /\ S \subseteq Slots /\ S # {} /\ b \in BOOLEAN
    BY <2>2
  <2>4. Min(S) \in Slots
    BY <2>3, SlotFacts, MinIsLeast
  <2> QED
    BY <2>3, <2>4, NilAssumption
<1> QED
    BY <1>2, <1>3

(* A step that puts nobody to sleep, and takes nobody's waker. *)
Calm ==
    /\ \A c \in Call : /\ pc'[c] = "asleep" => pc[c] = "asleep"
                       /\ pc'[c] \in {"select", "asleep"} =>
                             /\ pc[c] \in {"select", "asleep"} /\ call'[c] = call[c]
                             /\ c \in wake => c \in wake'
    /\ \/ \A i \in Slots : slots[i].held => slots'[i].held
       \/ \A c \in Call : pc'[c] # "asleep"
    /\ done' = done /\ firedWakes \subseteq firedWakes'

(* A calm step leaves nobody asleep without a waker. *)
LEMMA CalmKeeps == Shape /\ Woken /\ Calm => Woken'
<1> SUFFICES ASSUME Shape, Woken, Calm PROVE Woken'
    OBVIOUS
<1>1. ASSUME NEW c \in Call, pc'[c] = "asleep"
      PROVE  /\ \E i \in SlotsOf(call'[c].life) : slots'[i].held
             /\ call'[c].ctx \in done' => c \in firedWakes'
  <2>1. pc[c] = "asleep" /\ call'[c] = call[c]
    BY <1>1 DEF Calm
  <2>2. SlotsOf(call[c].life) \subseteq Slots
    BY <2>1, SlotFacts DEF Shape, Placed, Arguments
  <2> QED
    BY <1>1, <2>1, <2>2 DEF Calm, Woken, SleeperHasWaker
<1>2. ASSUME NEW c \in Call, pc'[c] \in {"select", "asleep"}, call'[c].ctx \in Request \ done'
      PROVE  c \in wake'
    BY <1>2 DEF Calm, Woken
<1> QED
    BY <1>1, <1>2 DEF Woken, SleeperHasWaker, SlotsOf

(* Every step leaves nobody asleep without a waker. *)
LEMMA WokenStep == Shape /\ Woken /\ [Next]_vars => Woken'
<1> SUFFICES ASSUME Shape, Woken, [Next]_vars PROVE Woken'
    OBVIOUS
<1> USE NilAssumption
    DEF PC, Actor, data, poolVars, pending, contextVars, timerVars, tables
<1>a. pc \in [Actor -> PC] /\ call \in [Call -> Arguments \cup {Nil}]
    BY DEF Shape, TypeOK
<1>b. Shape /\ Woken
    OBVIOUS
<1>1. ASSUME NEW c \in Call, NEW t \in Thread, NEW ask \in Asks,
             StartAcquire(c, t, ask[1], ask[2], ask[3])
      PROVE  Woken'
  <2>1. PICK o : call' = [call EXCEPT ![c] = [thread |-> t, life |-> ask[1], ctx |-> ask[2],
                                                 file |-> ask[3], outer |-> o]]
    BY <1>1 DEF StartAcquire
  <2>2. call'[c].ctx = ask[2]
    BY <1>a, <2>1
  <2>3. /\ pc[c] = "new" /\ pc'[c] = "select" /\ UNCHANGED <<slots, done, firedWakes>>
        /\ wake' = IF ask[2] \in Request \ done THEN wake \cup {c} ELSE wake
        /\ \A d \in Call \ {c} : pc'[d] = pc[d] \/ (pc[d] = "asleep" /\ pc'[d] = "select")
    BY <1>a, <1>1 DEF StartAcquire, Notified, Goto
  <2>4. \A d \in Call \ {c} : call'[d] = call[d]
    BY <1>a, <2>1
  <2> QED
    BY <2>2, <2>3, <2>4 DEF Woken, SleeperHasWaker
<1>2. ASSUME NEW c \in Call, SelectRefused(c)
      PROVE  Woken'
  <2>1. Calm
    BY <1>a, <1>2 DEF Calm, SelectRefused, Return, Goto
  <2> QED
    BY <1>b, <2>1, CalmKeeps
<1>3. ASSUME NEW c \in Call, SelectShared(c)
      PROVE  Woken'
  <2>1. Calm
    BY <1>a, <1>3 DEF Calm, SelectShared, Return, Goto
  <2> QED
    BY <1>b, <2>1, CalmKeeps
<1>4. ASSUME NEW c \in Call, SelectClaim(c)
      PROVE  Woken'
  <2>1. \A i \in Slots : slots[i].held => slots'[i].held
    BY <1>4, ClaimEffect
  <2>2. Calm
    BY <1>a, <1>4, <2>1 DEF Calm, SelectClaim, Goto
  <2> QED
    BY <1>b, <2>2, CalmKeeps
<1>5. ASSUME NEW c \in Call, SelectReentry(c)
      PROVE  Woken'
  <2>1. Calm
    BY <1>a, <1>5 DEF Calm, SelectReentry, Return, Drop, Goto
  <2> QED
    BY <1>b, <2>1, CalmKeeps
<1>6. ASSUME NEW c \in Call, SelectWait(c)
      PROVE  Woken'
  <2>1. /\ pc[c] = "select" /\ pc'[c] = "asleep" /\ UNCHANGED <<slots, call, done, firedWakes, wake>>
        /\ \A d \in Call \ {c} : pc'[d] = pc[d]
    BY <1>a, <1>6 DEF SelectWait, Drop, Goto
  <2>2. call[c].ctx \notin done
    BY <1>6 DEF SelectWait, Refused
  <2>3. \E i \in SlotsOf(call[c].life) : slots[i].held
    BY <1>6, Occupied DEF SelectWait
  <2> QED
    BY <2>1, <2>2, <2>3 DEF Woken, SleeperHasWaker
<1>7. ASSUME NEW c \in Call, PoolEnter(c)
      PROVE  Woken'
  <2>1. Calm
    BY <1>a, <1>7 DEF Calm, PoolEnter, Goto
  <2> QED
    BY <1>b, <2>1, CalmKeeps
<1>8. ASSUME NEW c \in Call, Validate(c)
      PROVE  Woken'
  <2>1. Calm
    BY <1>a, <1>8 DEF Calm, Validate, Goto
  <2> QED
    BY <1>b, <2>1, CalmKeeps
<1>9. ASSUME NEW c \in Call, Unreserve(c)
      PROVE  Woken'
  <2>1. /\ pc[c] = "unreserve" /\ pc'[c] = "done" /\ UNCHANGED <<call, done, firedWakes>>
        /\ wake' = wake \ {c}
        /\ \A e \in Call \ {c} : pc'[e] = IF pc[e] = "asleep" THEN "select" ELSE pc[e]
    BY <1>a, <1>9 DEF Unreserve, Notified, Goto
  <2>2. Calm
    BY <2>1 DEF Calm
  <2> QED
    BY <1>b, <2>2, CalmKeeps
<1>10. ASSUME NEW c \in Call, Publish(c)
      PROVE  Woken'
  <2>1. \A i \in Slots : slots[i].held => slots'[i].held
    BY <1>10, PublishEffect
  <2>2. Calm
    BY <1>a, <1>10, <2>1 DEF Calm, Publish, Notified, Goto
  <2> QED
    BY <1>b, <2>2, CalmKeeps
<1>11. ASSUME NEW c \in Call, Register(c)
      PROVE  Woken'
  <2>1. Calm
    BY <1>a, <1>11 DEF Calm, Register, Goto
  <2> QED
    BY <1>b, <2>1, CalmKeeps
<1>12. ASSUME NEW c \in Call, RegisterStop(c)
      PROVE  Woken'
  <2>1. Calm
    BY <1>a, <1>12 DEF Calm, RegisterStop, Return, Goto
  <2> QED
    BY <1>b, <2>1, CalmKeeps
<1>13. ASSUME NEW c \in Call, ReleaseDispose(c)
      PROVE  Woken'
  <2>1. Calm
    BY <1>a, <1>13 DEF Calm, ReleaseDispose, Disposed, Goto
  <2> QED
    BY <1>b, <2>1, CalmKeeps
<1>14. ASSUME NEW c \in Call, ReleaseReturn(c)
      PROVE  Woken'
  <2>1. Calm
    BY <1>a, <1>14 DEF Calm, ReleaseReturn, Returned, Goto
  <2> QED
    BY <1>b, <2>1, CalmKeeps
<1>15. ASSUME NEW c \in Call, ReleaseState(c)
      PROVE  Woken'
  <2>1. /\ pc[c] = "release" /\ pc'[c] = "schedule" /\ UNCHANGED <<call, wake, done, firedWakes>>
        /\ \A e \in Call \ {c} : pc'[e] = IF pc[e] = "asleep" THEN "select" ELSE pc[e]
    BY <1>a, <1>15 DEF ReleaseState, Notified, Goto
  <2>2. Calm
    BY <2>1 DEF Calm
  <2> QED
    BY <1>b, <2>2, CalmKeeps
<1>16. ASSUME NEW c \in Call, NEW outcome, Initialize(c, outcome)
      PROVE  Woken'
  <2>1. Calm
    BY <1>a, <1>16 DEF Calm, Initialize, Goto
  <2> QED
    BY <1>b, <2>1, CalmKeeps
<1>17. ASSUME NEW c \in Call, SpuriousWake(c)
      PROVE  Woken'
  <2>1. Calm
    BY <1>a, <1>17 DEF Calm, SpuriousWake, Goto
  <2> QED
    BY <1>b, <2>1, CalmKeeps
<1>18. ASSUME NEW c \in Call, BeginOperation(c)
      PROVE  Woken'
  <2>1. Calm
    BY <1>a, <1>18 DEF Calm, BeginOperation
  <2> QED
    BY <1>b, <2>1, CalmKeeps
<1>19. ASSUME NEW c \in Call, NEW outcome, EndOperation(c, outcome)
      PROVE  Woken'
  <2>1. Calm
    BY <1>a, <1>19 DEF Calm, EndOperation
  <2> QED
    BY <1>b, <2>1, CalmKeeps
<1>20. ASSUME NEW c \in Call, DropHandle(c)
      PROVE  Woken'
  <2>1. Calm
    BY <1>a, <1>20 DEF Calm, DropHandle, Goto
  <2> QED
    BY <1>b, <2>1, CalmKeeps
<1>21. ASSUME NEW a \in Actor, Schedule(a)
      PROVE  Woken'
  <2>1. Calm
    BY <1>a, <1>21 DEF Calm, Schedule, Disarm, Ended, Goto
  <2> QED
    BY <1>b, <2>1, CalmKeeps
<1>22. ASSUME NEW a \in Actor, Arm(a)
      PROVE  Woken'
  <2>1. Calm
    BY <1>a, <1>22 DEF Calm, Arm, Goto
  <2> QED
    BY <1>b, <2>1, CalmKeeps
<1>23. ASSUME NEW a \in Actor, StoreTimer(a)
      PROVE  Woken'
  <2>1. Calm
    BY <1>a, <1>23 DEF Calm, StoreTimer, Disarm, Ended, Goto
  <2> QED
    BY <1>b, <2>1, CalmKeeps
<1>24. ASSUME NEW r \in Request, Cancel(r)
      PROVE  Woken'
  <2>1. /\ UNCHANGED <<slots, call, pc>> /\ done' = done \cup {r}
        /\ firedWakes' = firedWakes \cup {c \in wake : call[c].ctx = r}
        /\ wake' = {c \in wake : call[c].ctx # r}
    BY <1>24 DEF Cancel
  <2> QED
    BY <2>1 DEF Woken, SleeperHasWaker
<1>25. ASSUME NEW x \in fired, RunCleanup(x[1], x[2])
      PROVE  Woken'
  <2>1. Calm
    BY <1>a, <1>25 DEF Calm, RunCleanup
  <2> QED
    BY <1>b, <2>1, CalmKeeps
<1>26. ASSUME NEW c \in firedWakes, RunWake(c)
      PROVE  Woken'
  <2>1. /\ UNCHANGED <<call, wake, done>>
        /\ \A e \in Call : pc'[e] = IF pc[e] = "asleep" THEN "select" ELSE pc[e]
    BY <1>a, <1>26 DEF RunWake, Notified
  <2> QED
    BY <2>1 DEF Woken, SleeperHasWaker
<1>27. ASSUME NEW w \in Cleaner, NEW x \in armed, Fire(x[1], w)
      PROVE  Woken'
  <2>1. Calm
    BY <1>a, <1>27 DEF Calm, Fire, Disarm, Goto
  <2> QED
    BY <1>b, <2>1, CalmKeeps
<1>28. ASSUME NEW w \in Cleaner, Cleanup(w)
      PROVE  Woken'
  <2>1. PICK I \in SUBSET Slots : (\A i \in I : ~slots[i].held) /\ Reset(I)
    BY <1>28, CleanupEffect
  <2>2. \A i \in Slots : slots[i].held => slots'[i].held
    BY <2>1, ResetEffect
  <2>3. UNCHANGED <<call, wake, done, firedWakes>> /\ \A e \in Call : pc'[e] = pc[e]
    BY <1>a, <1>28 DEF Cleanup, Goto
  <2>4. Calm
    BY <2>2, <2>3 DEF Calm
  <2> QED
    BY <1>b, <2>4, CalmKeeps
<1>29. ASSUME Discard
      PROVE  Woken'
  <2>1. Calm
    BY <1>a, <1>29 DEF Calm, Discard, Disarm
  <2> QED
    BY <1>b, <2>1, CalmKeeps
<1>30. ASSUME Tick
      PROVE  Woken'
  <2>1. Calm
    BY <1>a, <1>30 DEF Calm, Tick
  <2> QED
    BY <1>b, <2>1, CalmKeeps
<1>31. ASSUME Finished \/ UNCHANGED vars
      PROVE  Woken'
  <2>1. Calm
    BY <1>a, <1>31 DEF Calm, Finished, vars
  <2> QED
    BY <1>b, <2>1, CalmKeeps
<1>32. ASSUME NEW x \in Direct, Pinning(x)
      PROVE  Woken'
  <2>1. Calm
    BY <1>32, PinEffect DEF Unscheduled, Calm
  <2> QED
    BY <1>b, <2>1, CalmKeeps
<1> QED
    BY <1>1, <1>2, <1>3, <1>4, <1>5, <1>6, <1>7, <1>8, <1>9, <1>10, <1>11, <1>12, <1>13,
       <1>14, <1>15, <1>16, <1>17, <1>18, <1>19, <1>20, <1>21, <1>22, <1>23, <1>24, <1>25,
       <1>26, <1>27, <1>28, <1>29, <1>30, <1>31, <1>32
       DEF Next, Internal, Select, Initializer, Ends, Scheduling, Callbacks, Timers

(* A call sleeps only while a slot it can use is held, whose holder will notify
   it, and one whose request was cancelled has its wake-up on the way. *)
THEOREM SleepersAreWoken == Spec => []SleeperHasWaker
<1>1. Init => Woken
    BY DEF Init, Woken, SleeperHasWaker, Actor
<1>2. Woken => SleeperHasWaker
    BY DEF Woken
<1> QED
    BY <1>1, <1>2, WokenStep, ShapeHolds, PTL DEF Spec

----------------------------------------------------------------------------
(* Ending *)

(* A step that leaves the calls in register_cleanup where they are. *)
SameCalls ==
    \A c \in Call, p \in {"register", "register2"} :
        /\ pc'[c] = p <=> pc[c] = p
        /\ pc[c] = p => local'[c] = local[c] /\ Request_(c)' = Request_(c)

(* Calls that stay where they are register what they registered. *)
LEMMA SameAre ==
    ASSUME SameCalls, NEW r, NEW s, NEW p \in {"register", "register2"}
    PROVE  Registering(r, s, p)' <=> Registering(r, s, p)
BY DEF SameCalls, Registering

(* Serials stay fresh while none is given out. *)
LEMMA SameFresh ==
    ASSUME SameCalls, Fresh, next_association' = next_association, clean' \subseteq clean
    PROVE  Fresh'
BY DEF SameCalls, Fresh

(* A step that changes none of the associations, nor what is registered. *)
LEMMA SameAssociations ==
    ASSUME Shape, Ending, SameCalls, NoDanglingAffinity',
           UNCHANGED <<requests, next_association, done, fired, clean>>
    PROVE  Ending'
<1>1. Split' /\ Fresh'
    BY SameFresh DEF Ending, Split
<1>2. \A r, s : /\ Registering(r, s, "register")' <=> Registering(r, s, "register")
                /\ Registering(r, s, "register2")' <=> Registering(r, s, "register2")
    BY SameAre
<1>3. Backed'
  <2> SUFFICES ASSUME NEW r \in Request, NEW s, requests'[r] # Nil, s = requests'[r].serial
               PROVE  BackedAt(r, s)'
    BY DEF Backed, BackedAt, Registering
  <2> QED
    BY <1>2 DEF Ending, Backed, BackedAt
<1>4. Stopped'
  <2> SUFFICES ASSUME NEW x \in clean
               PROVE  \/ requests[x[1]] # Nil /\ requests[x[1]].serial = x[2]
                      \/ Registering(x[1], x[2], "register2")'
    BY DEF Stopped, Registering
  <2> QED
    BY <1>2 DEF Ending, Stopped
<1> QED
    BY <1>1, <1>3, <1>4 DEF Ending

(* A step that touches neither associations nor cleanup functions keeps them
   ending. *)
LEMMA StillKeeps ==
    ASSUME Shape, Ending, SameCalls,
           UNCHANGED <<requests, files, next_association, done, fired, clean>>,
           \A i \in Slots : slots'[i].initialized = slots[i].initialized
    PROVE  Ending'
<1>1. \A r \in Request : requests[r] # Nil => requests[r].index \in Slots
    BY DEF Shape, TypeOK, Association
<1>2. \A f \in File : files[f] # Nil => files[f] \in Slots
    BY SlotFacts DEF Shape, TypeOK
<1>3. NoDanglingAffinity'
    BY <1>1, <1>2 DEF Ending, NoDanglingAffinity
<1> QED
    BY <1>3, SameAssociations

(* Forgetting associations stops the functions they have stored; one that has
   not stored it has its call on the way. *)
LEMMA DropKeeps ==
    ASSUME Shape, Ending, SameCalls, NEW R \in SUBSET Request, Drop(R), NoDanglingAffinity',
           UNCHANGED <<next_association, done, fired>>
    PROVE  Ending'
<1>1. /\ \A r \in Request : requests'[r] = IF r \in R THEN Nil ELSE requests[r]
      /\ clean' = clean \ Stored(R)
    BY DEF Drop
<1>2. Split' /\ Fresh'
    BY <1>1, SameFresh DEF Ending, Split
<1>3. \A r, s : /\ Registering(r, s, "register")' <=> Registering(r, s, "register")
                /\ Registering(r, s, "register2")' <=> Registering(r, s, "register2")
    BY SameAre
<1>4. \A r \in Request \ R : \A s : <<r, s>> \in clean => <<r, s>> \in clean'
    BY <1>1 DEF Stored
<1>5. Backed'
  <2> SUFFICES ASSUME NEW r \in Request, NEW s, requests'[r] # Nil, s = requests'[r].serial
               PROVE  BackedAt(r, s)'
    BY DEF Backed, BackedAt, Registering
  <2>1. r \notin R /\ requests'[r] = requests[r] /\ requests[r] # Nil
    BY <1>1
  <2> QED
    BY <1>1, <1>3, <1>4, <2>1 DEF Ending, Backed, BackedAt
<1>6. Stopped'
  <2> SUFFICES ASSUME NEW x \in clean'
               PROVE  \/ requests'[x[1]] # Nil /\ requests'[x[1]].serial = x[2]
                      \/ Registering(x[1], x[2], "register2")'
    BY DEF Stopped, Registering
  <2>1. x \in clean /\ x[1] \in Request /\ x = <<x[1], x[2]>>
    BY <1>1 DEF Shape, TypeOK
  <2>2. \/ requests[x[1]] # Nil /\ requests[x[1]].serial = x[2]
        \/ Registering(x[1], x[2], "register2")
    BY <2>1 DEF Ending, Stopped
  <2>3. ASSUME x[1] \in R, requests[x[1]] # Nil, requests[x[1]].serial = x[2]
        PROVE  Registering(x[1], x[2], "register2")
    <3>1. ~requests[x[1]].stored
      BY <1>1, <2>1, <2>3 DEF Stored
    <3> QED
      BY <2>1, <2>3, <3>1 DEF Ending, Backed, BackedAt
  <2> QED
    BY <1>1, <1>3, <2>1, <2>2, <2>3
<1> QED
    BY <1>2, <1>5, <1>6 DEF Ending

(* Forgetting associations leaves none that dangles. *)
LEMMA DropAffinity ==
    ASSUME Shape, Ending, NEW R \in SUBSET Request, Drop(R), files' = files,
           \A i \in Slots : slots'[i].initialized = slots[i].initialized
    PROVE  NoDanglingAffinity'
<1>1. \A r \in Request : requests[r] # Nil => requests[r].index \in Slots
    BY DEF Shape, TypeOK, Association
<1>2. \A f \in File : files[f] # Nil => files[f] \in Slots
    BY SlotFacts DEF Shape, TypeOK
<1>3. \A r \in Request : requests'[r] # Nil => requests'[r] = requests[r]
    BY DEF Drop
<1> QED
    BY <1>1, <1>2, <1>3 DEF Ending, NoDanglingAffinity

(* Forgetting slots, with the associations to them, keeps the others ending. *)
LEMMA ResetKeeps ==
    ASSUME Shape, Ending, SameCalls, NEW I \in SUBSET Slots, Reset(I),
           UNCHANGED <<next_association, done, fired>>
    PROVE  Ending'
<1>1. /\ \A i \in Slots : slots'[i] = IF i \in I THEN FreeSlot ELSE slots[i]
      /\ \A r \in Request : requests'[r] = IF requests[r] # Nil /\ requests[r].index \in I
                                            THEN Nil ELSE requests[r]
      /\ \A f \in File : files'[f] = IF files[f] \in I THEN Nil ELSE files[f]
    BY ResetEffect
<1>2. \A r \in Request : requests[r] # Nil => requests[r].index \in Slots
    BY DEF Shape, TypeOK, Association
<1>3. \A f \in File : files[f] # Nil => files[f] \in Slots
    BY SlotFacts DEF Shape, TypeOK
<1>4. NoDanglingAffinity'
    BY <1>1, <1>2, <1>3 DEF Ending, NoDanglingAffinity
<1>5. PICK R \in SUBSET Request : Drop(R)
    BY DEF Reset
<1> QED
    BY <1>4, <1>5, DropKeeps

(* Every step keeps the associations ending. *)
LEMMA EndingStep == Shape /\ Ending /\ [Next]_vars => Ending'
<1> SUFFICES ASSUME Shape, Ending, [Next]_vars PROVE Ending'
    OBVIOUS
<1> USE NilAssumption
    DEF PC, Actor, data, poolVars, pending, contextVars, timerVars, tables, Request_
<1>a. /\ pc \in [Actor -> PC] /\ call \in [Call -> Arguments \cup {Nil}]
      /\ requests \in [Request -> Association \cup {Nil}] /\ files \in [File -> Query \cup {Nil}]
      /\ local \in [Actor -> (Nat \X (Nat \cup {Nil})) \cup {Nil}]
      /\ clean \in SUBSET (Request \X Nat) /\ fired \in SUBSET (Request \X Nat)
      /\ next_association \in Nat
      /\ \A w \in Cleaner : pc[w] \in {"idle", "schedule", "arm", "store", "cleanup"}
    BY DEF Shape, TypeOK, Epoch
<1>b. Shape /\ Ending
    OBVIOUS
<1>c. /\ \A r \in Request : requests[r] # Nil => requests[r].index \in Slots
      /\ \A f \in File : files[f] # Nil => files[f] \in Slots
    BY <1>a, SlotFacts DEF Association
<1>d. \A e \in Call : pc[e] \in {"register", "register2"} => local[e] \in Nat \X {Nil}
    BY DEF Shape, Serial
<1>1. ASSUME NEW c \in Call, NEW t \in Thread, NEW ask \in Asks,
             StartAcquire(c, t, ask[1], ask[2], ask[3])
      PROVE  Ending'
  <2>1. SameCalls /\ \A i \in Slots : slots'[i].initialized = slots[i].initialized
    BY <1>a, <1>1 DEF SameCalls, StartAcquire, Notified, Goto
  <2>2. UNCHANGED <<requests, files, next_association, done, fired, clean>>
    BY <1>1 DEF StartAcquire, Notified, Goto
  <2> QED
    BY <1>b, <2>1, <2>2, StillKeeps
<1>2. ASSUME NEW c \in Call, SelectRefused(c)
      PROVE  Ending'
  <2>1. SameCalls /\ \A i \in Slots : slots'[i].initialized = slots[i].initialized
    BY <1>a, <1>2 DEF SameCalls, SelectRefused, Return, Goto
  <2>2. UNCHANGED <<requests, files, next_association, done, fired, clean>>
    BY <1>2 DEF SelectRefused, Return, Goto
  <2> QED
    BY <1>b, <2>1, <2>2, StillKeeps
<1>3. ASSUME NEW c \in Call, SelectShared(c)
      PROVE  Ending'
  <2>1. SameCalls /\ \A i \in Slots : slots'[i].initialized = slots[i].initialized
    BY <1>a, <1>3 DEF SameCalls, SelectShared, Return, Goto
  <2>2. UNCHANGED <<requests, files, next_association, done, fired, clean>>
    BY <1>3 DEF SelectShared, Return, Goto
  <2> QED
    BY <1>b, <2>1, <2>2, StillKeeps
<1>4. ASSUME NEW c \in Call, SelectClaim(c)
      PROVE  Ending'
  <2>1. SameCalls
    BY <1>a, <1>4 DEF SameCalls, SelectClaim, Goto
  <2>2. \A i \in Slots : slots'[i].initialized = slots[i].initialized
    BY <1>4, ClaimEffect
  <2>3. Drop(Mismatched(c)) /\ UNCHANGED <<files, next_association, done, fired>>
    BY <1>4 DEF SelectClaim
  <2>4. Mismatched(c) \subseteq Request
    BY <1>4, Known DEF Mismatched, SelectClaim
  <2> QED
    BY <1>b, <2>1, <2>2, <2>3, <2>4, DropKeeps, DropAffinity
<1>5. ASSUME NEW c \in Call, SelectReentry(c)
      PROVE  Ending'
  <2>1. SameCalls
    BY <1>a, <1>5 DEF SameCalls, SelectReentry, Return, Goto
  <2>2. \A i \in Slots : slots'[i].initialized = slots[i].initialized
    BY <1>5 DEF SelectReentry
  <2>3. Drop(Mismatched(c)) /\ UNCHANGED <<files, next_association, done, fired>>
    BY <1>5 DEF SelectReentry
  <2>4. Mismatched(c) \subseteq Request
    BY <1>5, Known DEF Mismatched, SelectReentry
  <2> QED
    BY <1>b, <2>1, <2>2, <2>3, <2>4, DropKeeps, DropAffinity
<1>6. ASSUME NEW c \in Call, SelectWait(c)
      PROVE  Ending'
  <2>1. SameCalls
    BY <1>a, <1>6 DEF SameCalls, SelectWait, Goto
  <2>2. \A i \in Slots : slots'[i].initialized = slots[i].initialized
    BY <1>6 DEF SelectWait
  <2>3. Drop(Mismatched(c)) /\ UNCHANGED <<files, next_association, done, fired>>
    BY <1>6 DEF SelectWait
  <2>4. Mismatched(c) \subseteq Request
    BY <1>6, Known DEF Mismatched, SelectWait
  <2> QED
    BY <1>b, <2>1, <2>2, <2>3, <2>4, DropKeeps, DropAffinity
<1>7. ASSUME NEW c \in Call, PoolEnter(c)
      PROVE  Ending'
  <2>1. SameCalls /\ \A i \in Slots : slots'[i].initialized = slots[i].initialized
    BY <1>a, <1>7 DEF SameCalls, PoolEnter, Goto
  <2>2. UNCHANGED <<requests, files, next_association, done, fired, clean>>
    BY <1>7 DEF PoolEnter, Goto
  <2> QED
    BY <1>b, <2>1, <2>2, StillKeeps
<1>8. ASSUME NEW c \in Call, Validate(c)
      PROVE  Ending'
  <2>1. SameCalls /\ \A i \in Slots : slots'[i].initialized = slots[i].initialized
    BY <1>a, <1>8 DEF SameCalls, Validate, Goto
  <2>2. UNCHANGED <<requests, files, next_association, done, fired, clean>>
    BY <1>8 DEF Validate, Goto
  <2> QED
    BY <1>b, <2>1, <2>2, StillKeeps
<1>9. ASSUME NEW c \in Call, Unreserve(c)
      PROVE  Ending'
  <2>1. SameCalls /\ \A i \in Slots : slots'[i].initialized = slots[i].initialized
    <3>1. \A i \in Slots : slots'[i].initialized = slots[i].initialized
      BY <1>9, UnreserveEffect
    <3> QED
      BY <1>a, <1>9, <3>1 DEF SameCalls, Unreserve, Notified, Goto
  <2>2. UNCHANGED <<requests, files, next_association, done, fired, clean>>
    BY <1>9 DEF Unreserve, Notified, Goto
  <2> QED
    BY <1>b, <2>1, <2>2, StillKeeps
<1>10. ASSUME NEW c \in Call, Publish(c)
      PROVE  Ending'
  <2> PICK i, n : i = Slot(c) /\ n = next_association
    OBVIOUS
  <2>1. /\ i \in Slots /\ slots'[i].initialized
        /\ \A j \in Slots \ {i} : slots'[j] = slots[j]
    BY <1>10, PublishEffect
  <2>2. \A j \in Slots : slots[j].initialized => slots'[j].initialized
    BY <2>1
  <2>3. /\ pc[c] = "publish" /\ UNCHANGED <<call, done, fired, clean>>
        /\ local' = [local EXCEPT ![c] = <<n, Nil>>]
        /\ \A e \in Call \ {c} : pc'[e] = pc[e] \/ (pc[e] = "asleep" /\ pc'[e] = "select")
    BY <1>a, <1>10 DEF Publish, Notified, Goto
  <2>4. \A f \in File : files'[f] # Nil => files'[f] = i \/ files'[f] = files[f]
    BY <1>a, <1>10 DEF Publish
  <2>5. \A r, s : /\ Registering(r, s, "register") => Registering(r, s, "register")'
                  /\ Registering(r, s, "register2") => Registering(r, s, "register2")'
    BY <1>a, <2>3 DEF Registering
  <2>6. CASE Request_(c) # Nil /\ requests[Request_(c)] = Nil
    <3> PICK q : q = Request_(c)
      OBVIOUS
    <3>1. /\ pc'[c] = "register" /\ next_association' = n + 1
          /\ requests' = [requests EXCEPT ![q] = [index |-> i, serial |-> n, stored |-> FALSE]]
      BY <1>a, <1>10, <2>6 DEF Publish, Notified, Goto
    <3>2. q \in Request
      <4>1. call[c] \in Arguments
        BY <2>3 DEF Shape, Placed
      <4> QED
        BY <2>6, <4>1 DEF Arguments
    <3>3. Registering(q, n, "register")'
      BY <1>a, <2>3, <3>1 DEF Registering
    <3>4. /\ requests'[q].index = i /\ requests'[q].serial = n
          /\ \A r \in Request \ {q} : requests'[r] = requests[r]
      BY <1>a, <3>1, <3>2
    <3>5. NoDanglingAffinity'
      BY <1>c, <2>1, <2>2, <2>4, <3>4 DEF Ending, NoDanglingAffinity
    <3>6. Backed'
      <4>1. <<q, n>> \notin clean
        BY <1>a DEF Ending, Fresh
      <4>2. ASSUME NEW r \in Request, NEW s, requests'[r] # Nil, s = requests'[r].serial
            PROVE  BackedAt(r, s)'
        <5>1. CASE r = q
          BY <2>3, <3>3, <3>4, <4>1, <4>2, <5>1 DEF BackedAt
        <5>2. CASE r # q
          <6>1. requests[r] # Nil /\ requests'[r] = requests[r] /\ BackedAt(r, s)
            BY <3>4, <4>2, <5>2 DEF Ending, Backed
          <6> QED
            BY <2>3, <2>5, <6>1 DEF BackedAt
        <5> QED
          BY <5>1, <5>2
      <4> QED
        BY <4>2 DEF Backed, BackedAt, Registering
    <3>7. Stopped'
      <4>1. \A x \in clean : x[1] \in Request
        BY <1>a
      <4> QED
        BY <2>3, <2>5, <2>6, <3>4, <4>1 DEF Ending, Stopped, Registering
    <3>8. Fresh'
      BY <1>a, <1>d, <2>3, <3>1 DEF Ending, Fresh
    <3> QED
      BY <2>3, <3>5, <3>6, <3>7, <3>8 DEF Ending, Split
  <2>7. CASE ~(Request_(c) # Nil /\ requests[Request_(c)] = Nil)
    <3>1. pc'[c] = "held" /\ UNCHANGED <<next_association, requests>>
      BY <1>a, <1>10, <2>7 DEF Publish, Notified, Goto
    <3>2. SameCalls
      BY <1>a, <2>3, <3>1 DEF SameCalls
    <3>3. NoDanglingAffinity'
      BY <1>c, <2>1, <2>2, <2>4, <3>1 DEF Ending, NoDanglingAffinity
    <3> QED
      BY <1>b, <2>3, <3>1, <3>2, <3>3, SameAssociations
  <2> QED
    BY <2>6, <2>7
<1>11. ASSUME NEW c \in Call, Register(c)
      PROVE  Ending'
  <2> PICK q, n : q = Request_(c) /\ n = local[c][1]
    OBVIOUS
  <2>1. /\ pc[c] = "register" /\ pc'[c] = "register2" /\ \A e \in Call \ {c} : pc'[e] = pc[e]
        /\ UNCHANGED <<slots, files, next_association, call, local, done, fired>>
    BY <1>a, <1>11 DEF Register, Goto
  <2>2. q \in Request /\ n \in Nat
    BY <2>1 DEF Shape, Serial
  <2>3. \/ q \in done /\ clean' = clean
           /\ requests' = IF Current(q, n) THEN [requests EXCEPT ![q] = Nil] ELSE requests
        \/ q \notin done /\ clean' = clean \cup {<<q, n>>} /\ requests' = requests
    BY <1>11 DEF Register
  <2>4. \A r, s : Registering(r, s, "register") => Registering(r, s, "register")' \/ (r = q /\ s = n)
    BY <2>1 DEF Registering
  <2>5. /\ Registering(q, n, "register2")'
        /\ \A r, s : Registering(r, s, "register2") => Registering(r, s, "register2")'
    BY <2>1 DEF Registering
  <2>6. \A r \in Request : requests'[r] # Nil =>
           /\ requests'[r] = requests[r]
           /\ r = q /\ q \in done => requests[r].serial # n
    BY <1>a, <2>2, <2>3 DEF Current
  <2>7. NoDanglingAffinity'
    BY <2>1, <2>6 DEF Ending, NoDanglingAffinity
  <2>8. Split'
    BY <2>1, <2>3 DEF Ending, Split
  <2>9. Backed'
    <3> SUFFICES ASSUME NEW r \in Request, NEW s, requests'[r] # Nil, s = requests'[r].serial
                 PROVE  BackedAt(r, s)'
      BY DEF Backed, BackedAt, Registering
    <3>1. requests[r] # Nil /\ requests'[r] = requests[r] /\ (r = q /\ q \in done => s # n)
      BY <2>6
    <3>2. /\ Registering(r, s, "register") \/ <<r, s>> \in clean \/ <<r, s>> \in fired
          /\ <<r, s>> \in clean /\ ~requests[r].stored => Registering(r, s, "register2")
      BY <3>1 DEF Ending, Backed, BackedAt
    <3>3. \/ Registering(r, s, "register")' \/ <<r, s>> \in clean' \/ <<r, s>> \in fired'
      BY <2>1, <2>3, <2>4, <3>1, <3>2
    <3>4. <<r, s>> \in clean' /\ ~requests[r].stored => Registering(r, s, "register2")'
      BY <2>3, <2>5, <3>2
    <3> QED
      BY <3>1, <3>3, <3>4 DEF BackedAt
  <2>10. Stopped'
    <3> SUFFICES ASSUME NEW x \in clean'
                 PROVE  \/ requests'[x[1]] # Nil /\ requests'[x[1]].serial = x[2]
                        \/ Registering(x[1], x[2], "register2")'
      BY DEF Stopped, Registering
    <3>1. x \in clean \/ x = <<q, n>>
      BY <2>3
    <3>2. CASE x = <<q, n>>
      BY <2>5, <3>2
    <3>3. CASE x \in clean
      <4>1. x[1] \in Request
        BY <1>a, <3>3
      <4>2. x[1] \notin done
        BY <3>3 DEF Ending, Split
      <4>3. requests'[x[1]] = requests[x[1]]
        BY <1>a, <2>2, <2>3, <4>1, <4>2
      <4> QED
        BY <2>5, <3>3, <4>3 DEF Ending, Stopped
    <3> QED
      BY <3>1, <3>2, <3>3
  <2>11. Fresh'
    <3>1. n < next_association
      BY <2>1 DEF Ending, Fresh
    <3> QED
      BY <2>1, <2>3, <3>1 DEF Ending, Fresh
  <2> QED
    BY <2>7, <2>8, <2>9, <2>10, <2>11 DEF Ending
<1>12. ASSUME NEW c \in Call, RegisterStop(c)
      PROVE  Ending'
  <2> PICK q, n : q = Request_(c) /\ n = local[c][1]
    OBVIOUS
  <2>1. /\ pc[c] = "register2" /\ pc'[c] = "held" /\ \A e \in Call \ {c} : pc'[e] = pc[e]
        /\ UNCHANGED <<slots, files, next_association, call, local, done, fired>>
    BY <1>a, <1>12 DEF RegisterStop, Return, Goto
  <2>2. q \in Request /\ n \in Nat
    BY <2>1 DEF Shape, Serial
  <2>3. \/ Current(q, n) /\ clean' = clean /\ requests' = [requests EXCEPT ![q].stored = TRUE]
        \/ ~Current(q, n) /\ clean' = clean \ {<<q, n>>} /\ requests' = requests
    BY <1>12 DEF RegisterStop
  <2>4. \A r, s : Registering(r, s, "register2") => Registering(r, s, "register2")' \/ (r = q /\ s = n)
    BY <2>1 DEF Registering
  <2>5. \A r, s : Registering(r, s, "register") => Registering(r, s, "register")'
    BY <2>1 DEF Registering
  <2>6. \A r \in Request :
           /\ requests'[r] # Nil <=> requests[r] # Nil
           /\ requests'[r] # Nil => /\ requests'[r].serial = requests[r].serial
                                    /\ requests'[r].index = requests[r].index
                                    /\ \/ requests'[r].stored
                                       \/ /\ ~requests[r].stored
                                          /\ r = q => requests[r].serial # n
    <3>1. CASE Current(q, n)
      <4>1. requests[q] # Nil /\ requests[q] \in Association
        BY <1>a, <2>2, <3>1 DEF Current
      <4>2. /\ requests'[q].stored /\ requests'[q].serial = requests[q].serial
            /\ requests'[q].index = requests[q].index /\ requests'[q] # Nil
            /\ \A r \in Request \ {q} : requests'[r] = requests[r]
        <5>1. requests' = [requests EXCEPT ![q].stored = TRUE]
          BY <2>3, <3>1
        <5>2. requests'[q] \in Association
          BY <1>a, <2>2, <4>1, <5>1 DEF Association
        <5> QED
          BY <1>a, <2>2, <4>1, <5>1, <5>2 DEF Association
      <4> QED
        BY <4>1, <4>2
    <3>2. CASE ~Current(q, n)
      BY <2>3, <3>2 DEF Current
    <3> QED
      BY <3>1, <3>2
  <2>7. NoDanglingAffinity'
    BY <2>1, <2>6 DEF Ending, NoDanglingAffinity
  <2>8. Split' /\ Fresh'
    BY <2>1, <2>3 DEF Ending, Split, Fresh
  <2>9. Backed'
    <3> SUFFICES ASSUME NEW r \in Request, NEW s, requests'[r] # Nil, s = requests'[r].serial
                 PROVE  BackedAt(r, s)'
      BY DEF Backed, BackedAt, Registering
    <3>1. requests[r] # Nil /\ requests[r].serial = s
      BY <2>6
    <3>2. /\ Registering(r, s, "register") \/ <<r, s>> \in clean \/ <<r, s>> \in fired
          /\ <<r, s>> \in clean /\ ~requests[r].stored => Registering(r, s, "register2")
      BY <3>1 DEF Ending, Backed, BackedAt
    <3>3. \/ Registering(r, s, "register")' \/ <<r, s>> \in clean' \/ <<r, s>> \in fired'
      BY <2>1, <2>3, <2>5, <3>1, <3>2 DEF Current
    <3>4. <<r, s>> \in clean' /\ ~requests'[r].stored => Registering(r, s, "register2")'
      BY <2>3, <2>4, <2>6, <3>1, <3>2
    <3> QED
      BY <3>1, <3>3, <3>4 DEF BackedAt
  <2>10. Stopped'
    <3> SUFFICES ASSUME NEW x \in clean'
                 PROVE  \/ requests'[x[1]] # Nil /\ requests'[x[1]].serial = x[2]
                        \/ Registering(x[1], x[2], "register2")'
      BY DEF Stopped, Registering
    <3>1. x \in clean /\ x[1] \in Request /\ x = <<x[1], x[2]>>
      BY <1>a, <2>3
    <3>2. \/ requests[x[1]] # Nil /\ requests[x[1]].serial = x[2]
          \/ Registering(x[1], x[2], "register2")
      BY <3>1 DEF Ending, Stopped
    <3> QED
      BY <2>3, <2>4, <2>6, <3>1, <3>2 DEF Current
  <2> QED
    BY <2>7, <2>8, <2>9, <2>10 DEF Ending
<1>13. ASSUME NEW c \in Call, ReleaseDispose(c)
      PROVE  Ending'
  <2>1. SameCalls /\ \A i \in Slots : slots'[i].initialized = slots[i].initialized
    BY <1>a, <1>13 DEF SameCalls, ReleaseDispose, Disposed, Goto
  <2>2. UNCHANGED <<requests, files, next_association, done, fired, clean>>
    BY <1>13 DEF ReleaseDispose, Disposed, Goto
  <2> QED
    BY <1>b, <2>1, <2>2, StillKeeps
<1>14. ASSUME NEW c \in Call, ReleaseReturn(c)
      PROVE  Ending'
  <2>1. SameCalls /\ \A i \in Slots : slots'[i].initialized = slots[i].initialized
    BY <1>a, <1>14 DEF SameCalls, ReleaseReturn, Returned, Goto
  <2>2. UNCHANGED <<requests, files, next_association, done, fired, clean>>
    BY <1>14 DEF ReleaseReturn, Returned, Goto
  <2> QED
    BY <1>b, <2>1, <2>2, StillKeeps
<1>15. ASSUME NEW c \in Call, ReleaseState(c)
      PROVE  Ending'
  <2>1. SameCalls
    BY <1>a, <1>15 DEF SameCalls, ReleaseState, Notified, Goto
  <2>2. UNCHANGED <<next_association, done, fired>>
    BY <1>15 DEF ReleaseState
  <2>3. CASE Spoiled(c)
    <3>1. PICK i \in Slots : Reset({i})
      BY <1>15, <2>3, ReleaseEffect
    <3>2. {i} \in SUBSET Slots
      OBVIOUS
    <3> QED
      BY <1>b, <2>1, <2>2, <3>1, <3>2, ResetKeeps
  <2>4. CASE ~Spoiled(c)
    <3>1. /\ UNCHANGED <<requests, files, clean>>
          /\ \A i \in Slots : slots'[i].initialized = slots[i].initialized
      BY <1>15, <2>4, ReleaseEffect
    <3> QED
      BY <1>b, <2>1, <2>2, <3>1, StillKeeps
  <2> QED
    BY <2>3, <2>4
<1>16. ASSUME NEW c \in Call, NEW outcome, Initialize(c, outcome)
      PROVE  Ending'
  <2>1. SameCalls /\ \A i \in Slots : slots'[i].initialized = slots[i].initialized
    BY <1>a, <1>16 DEF SameCalls, Initialize, Goto
  <2>2. UNCHANGED <<requests, files, next_association, done, fired, clean>>
    BY <1>16 DEF Initialize, Goto
  <2> QED
    BY <1>b, <2>1, <2>2, StillKeeps
<1>17. ASSUME NEW c \in Call, SpuriousWake(c)
      PROVE  Ending'
  <2>1. SameCalls /\ \A i \in Slots : slots'[i].initialized = slots[i].initialized
    BY <1>a, <1>17 DEF SameCalls, SpuriousWake, Goto
  <2>2. UNCHANGED <<requests, files, next_association, done, fired, clean>>
    BY <1>17 DEF SpuriousWake, Goto
  <2> QED
    BY <1>b, <2>1, <2>2, StillKeeps
<1>18. ASSUME NEW c \in Call, BeginOperation(c)
      PROVE  Ending'
  <2>1. SameCalls /\ \A i \in Slots : slots'[i].initialized = slots[i].initialized
    BY <1>a, <1>18 DEF SameCalls, BeginOperation
  <2>2. UNCHANGED <<requests, files, next_association, done, fired, clean>>
    BY <1>18 DEF BeginOperation
  <2> QED
    BY <1>b, <2>1, <2>2, StillKeeps
<1>19. ASSUME NEW c \in Call, NEW outcome, EndOperation(c, outcome)
      PROVE  Ending'
  <2>1. SameCalls /\ \A i \in Slots : slots'[i].initialized = slots[i].initialized
    BY <1>a, <1>19 DEF SameCalls, EndOperation
  <2>2. UNCHANGED <<requests, files, next_association, done, fired, clean>>
    BY <1>19 DEF EndOperation
  <2> QED
    BY <1>b, <2>1, <2>2, StillKeeps
<1>20. ASSUME NEW c \in Call, DropHandle(c)
      PROVE  Ending'
  <2>1. SameCalls /\ \A i \in Slots : slots'[i].initialized = slots[i].initialized
    BY <1>a, <1>20 DEF SameCalls, DropHandle, Goto
  <2>2. UNCHANGED <<requests, files, next_association, done, fired, clean>>
    BY <1>20 DEF DropHandle, Goto
  <2> QED
    BY <1>b, <2>1, <2>2, StillKeeps
<1>21. ASSUME NEW a \in Actor, Schedule(a)
      PROVE  Ending'
  <2>1. SameCalls /\ \A i \in Slots : slots'[i].initialized = slots[i].initialized
    BY <1>a, <1>21 DEF SameCalls, Schedule, Disarm, Ended, Goto
  <2>2. UNCHANGED <<requests, files, next_association, done, fired, clean>>
    BY <1>21 DEF Schedule, Disarm, Ended, Goto
  <2> QED
    BY <1>b, <2>1, <2>2, StillKeeps
<1>22. ASSUME NEW a \in Actor, Arm(a)
      PROVE  Ending'
  <2>1. SameCalls /\ \A i \in Slots : slots'[i].initialized = slots[i].initialized
    BY <1>a, <1>22 DEF SameCalls, Arm, Goto
  <2>2. UNCHANGED <<requests, files, next_association, done, fired, clean>>
    BY <1>22 DEF Arm, Goto
  <2> QED
    BY <1>b, <2>1, <2>2, StillKeeps
<1>23. ASSUME NEW a \in Actor, StoreTimer(a)
      PROVE  Ending'
  <2>1. SameCalls /\ \A i \in Slots : slots'[i].initialized = slots[i].initialized
    BY <1>a, <1>23 DEF SameCalls, StoreTimer, Disarm, Ended, Goto
  <2>2. UNCHANGED <<requests, files, next_association, done, fired, clean>>
    BY <1>23 DEF StoreTimer, Disarm, Ended, Goto
  <2> QED
    BY <1>b, <2>1, <2>2, StillKeeps
<1>24. ASSUME NEW r \in Request, Cancel(r)
      PROVE  Ending'
  <2>1. /\ UNCHANGED <<slots, requests, files, next_association, pc, call, local>>
        /\ done' = done \cup {r} /\ fired' = fired \cup {x \in clean : x[1] = r}
        /\ clean' = {x \in clean : x[1] # r}
    BY <1>24 DEF Cancel
  <2>2. SameCalls
    BY <2>1 DEF SameCalls
  <2>3. \A q, s, p : Registering(q, s, p)' <=> Registering(q, s, p)
    BY <2>1 DEF Registering
  <2>4. NoDanglingAffinity' /\ Split' /\ Fresh'
    BY <2>1 DEF Ending, NoDanglingAffinity, Split, Fresh
  <2>5. Backed'
    <3> SUFFICES ASSUME NEW q \in Request, NEW s, requests'[q] # Nil, s = requests'[q].serial
                 PROVE  BackedAt(q, s)'
      BY DEF Backed, BackedAt, Registering
    <3> QED
      BY <2>1, <2>3 DEF Ending, Backed, BackedAt
  <2>6. Stopped'
    BY <2>1 DEF Ending, Stopped, Registering
  <2> QED
    BY <2>4, <2>5, <2>6 DEF Ending
<1>25. ASSUME NEW x \in fired, RunCleanup(x[1], x[2])
      PROVE  Ending'
  <2> PICK q, n : q = x[1] /\ n = x[2]
    OBVIOUS
  <2>1. /\ UNCHANGED <<slots, files, next_association, pc, call, local, done, clean>>
        /\ <<q, n>> \in fired /\ fired' = fired \ {<<q, n>>}
        /\ requests' = IF Current(q, n) THEN [requests EXCEPT ![q] = Nil] ELSE requests
    BY <1>25 DEF RunCleanup
  <2>2. q \in Request
    BY <1>a
  <2>3. \A r, s, p : Registering(r, s, p)' <=> Registering(r, s, p)
    BY <2>1 DEF Registering
  <2>4. \A r \in Request : requests'[r] # Nil =>
           /\ requests[r] # Nil /\ requests'[r] = requests[r]
           /\ r = q => requests[r].serial # n
    BY <1>a, <2>1, <2>2 DEF Current
  <2>5. NoDanglingAffinity' /\ Split' /\ Fresh'
    BY <2>1, <2>4 DEF Ending, NoDanglingAffinity, Split, Fresh
  <2>6. Backed'
    <3> SUFFICES ASSUME NEW r \in Request, NEW s, requests'[r] # Nil, s = requests'[r].serial
                 PROVE  BackedAt(r, s)'
      BY DEF Backed, BackedAt, Registering
    <3> QED
      BY <2>1, <2>3, <2>4 DEF Ending, Backed, BackedAt
  <2>7. Stopped'
    <3> SUFFICES ASSUME NEW y \in clean
                 PROVE  \/ requests'[y[1]] # Nil /\ requests'[y[1]].serial = y[2]
                        \/ Registering(y[1], y[2], "register2")'
      BY <2>1 DEF Stopped, Registering
    <3>1. y[1] \in Request /\ y[1] # q
      BY <1>a, <2>1 DEF Ending, Split
    <3>2. requests'[y[1]] = requests[y[1]]
      BY <1>a, <2>1, <2>2, <3>1
    <3> QED
      BY <2>3, <3>2 DEF Ending, Stopped
  <2> QED
    BY <2>5, <2>6, <2>7 DEF Ending
<1>26. ASSUME NEW c \in firedWakes, RunWake(c)
      PROVE  Ending'
  <2>1. SameCalls /\ \A i \in Slots : slots'[i].initialized = slots[i].initialized
    BY <1>a, <1>26 DEF SameCalls, RunWake, Notified
  <2>2. UNCHANGED <<requests, files, next_association, done, fired, clean>>
    BY <1>26 DEF RunWake, Notified
  <2> QED
    BY <1>b, <2>1, <2>2, StillKeeps
<1>27. ASSUME NEW w \in Cleaner, NEW x \in armed, Fire(x[1], w)
      PROVE  Ending'
  <2>1. SameCalls /\ \A i \in Slots : slots'[i].initialized = slots[i].initialized
    BY <1>a, <1>27 DEF SameCalls, Fire, Disarm, Goto
  <2>2. UNCHANGED <<requests, files, next_association, done, fired, clean>>
    BY <1>27 DEF Fire, Disarm, Goto
  <2> QED
    BY <1>b, <2>1, <2>2, StillKeeps
<1>28. ASSUME NEW w \in Cleaner, Cleanup(w)
      PROVE  Ending'
  <2>1. SameCalls
    BY <1>a, <1>28 DEF SameCalls, Cleanup, Goto
  <2>2. UNCHANGED <<next_association, done, fired>>
    BY <1>28 DEF Cleanup
  <2>3. PICK I \in SUBSET Slots : Reset(I)
    BY <1>28, CleanupEffect
  <2> QED
    BY <1>b, <2>1, <2>2, <2>3, ResetKeeps
<1>29. ASSUME Discard
      PROVE  Ending'
  <2>1. SameCalls /\ \A i \in Slots : slots'[i].initialized = slots[i].initialized
    BY <1>a, <1>29 DEF SameCalls, Discard, Disarm
  <2>2. UNCHANGED <<requests, files, next_association, done, fired, clean>>
    BY <1>29 DEF Discard, Disarm
  <2> QED
    BY <1>b, <2>1, <2>2, StillKeeps
<1>30. ASSUME Tick
      PROVE  Ending'
  <2>1. SameCalls /\ \A i \in Slots : slots'[i].initialized = slots[i].initialized
    BY <1>a, <1>30 DEF SameCalls, Tick
  <2>2. UNCHANGED <<requests, files, next_association, done, fired, clean>>
    BY <1>30 DEF Tick
  <2> QED
    BY <1>b, <2>1, <2>2, StillKeeps
<1>31. ASSUME Finished \/ UNCHANGED vars
      PROVE  Ending'
  <2>1. SameCalls /\ \A i \in Slots : slots'[i].initialized = slots[i].initialized
    BY <1>a, <1>31 DEF SameCalls, Finished, vars
  <2>2. UNCHANGED <<requests, files, next_association, done, fired, clean>>
    BY <1>31 DEF Finished, vars
  <2> QED
    BY <1>b, <2>1, <2>2, StillKeeps
<1>32. ASSUME NEW x \in Direct, Pinning(x)
      PROVE  Ending'
  <2>1. UNCHANGED <<requests, files, next_association, done, fired, clean, slots, pc, call, local>>
    BY <1>32, PinEffect DEF Unscheduled
  <2>2. SameCalls
    BY <2>1 DEF SameCalls
  <2> QED
    BY <1>b, <2>1, <2>2, StillKeeps
<1> QED
    BY <1>1, <1>2, <1>3, <1>4, <1>5, <1>6, <1>7, <1>8, <1>9, <1>10, <1>11, <1>12, <1>13,
       <1>14, <1>15, <1>16, <1>17, <1>18, <1>19, <1>20, <1>21, <1>22, <1>23, <1>24, <1>25,
       <1>26, <1>27, <1>28, <1>29, <1>30, <1>31, <1>32
       DEF Next, Internal, Select, Initializer, Ends, Scheduling, Callbacks, Timers

(* Eviction, cancellation and release leave no request and no file associated
   with a slot that lost its checker; a cancelled request leaves no
   association, and a context keeps no cleanup function of one that is gone. *)
THEOREM AssociationsDoNotDangle == Spec => []NothingDangles
<1>1. Init => Ending
    BY DEF Init, Ending, NoDanglingAffinity, Split, Backed, Stopped, Fresh, Actor
<1>2. Shape /\ Ending => NothingDangles
  <2> SUFFICES ASSUME Shape, Ending PROVE NothingDangles
    OBVIOUS
  <2>1. done \subseteq Request
    BY DEF Shape, TypeOK
  <2>2. \A r \in done : \/ requests[r] = Nil
                        \/ \E x \in fired : x[1] = r
                        \/ \E c \in Call : pc[c] = "register" /\ Request_(c) = r
    <3> SUFFICES ASSUME NEW r \in done, requests[r] # Nil, NEW s, s = requests[r].serial
                 PROVE  \/ \E x \in fired : x[1] = r
                        \/ \E c \in Call : pc[c] = "register" /\ Request_(c) = r
      OBVIOUS
    <3>1. Registering(r, s, "register") \/ <<r, s>> \in clean \/ <<r, s>> \in fired
      BY <2>1 DEF Ending, Backed, BackedAt
    <3>2. <<r, s>> \notin clean
      BY DEF Ending, Split
    <3> QED
      BY <3>1, <3>2 DEF Registering
  <2>3. \A x \in clean : \/ requests[x[1]] # Nil /\ requests[x[1]].serial = x[2]
                         \/ \E c \in Call : pc[c] = "register2" /\ Request_(c) = x[1]
                                              /\ local[c][1] = x[2]
    BY DEF Ending, Stopped, Registering
  <2> QED
    BY <2>2, <2>3 DEF NothingDangles, AssociationsEnd, Ending
<1> QED
    BY <1>1, <1>2, EndingStep, ShapeHolds, PTL DEF Spec

----------------------------------------------------------------------------
(* Timed *)

(* Every step: a reservation is given up in a retired pool, or without a
   checker. *)
LEMMA RevertsStep == Shape /\ Exclusive /\ Pool /\ Reverts /\ [Next]_vars => Reverts'
<1> SUFFICES ASSUME Shape, Exclusive, Pool, Reverts, [Next]_vars PROVE Reverts'
    OBVIOUS
<1> USE NilAssumption DEF PC, Actor, data, poolVars, pending, contextVars, timerVars, tables
<1>a. /\ pc \in [Actor -> PC] /\ cell \in [Slots -> Checker \cup {"empty", "failed"}]
      /\ \A w \in Cleaner : pc[w] \in {"idle", "schedule", "arm", "store", "cleanup"}
    BY DEF Shape, TypeOK, Epoch
<1>b. Reverts /\ \A d \in Call : pc[d] = "unreserve" => Slot(d)' = Slot(d)
    BY KeptStep DEF Kept, Slot, Reserving
<1>c. \A d \in Call : pc[d] = "unreserve" => Slot(d) \in Slots
    BY DEF Shape, Placed, Reserving, Slot
<1>1. ASSUME NEW c \in Call, NEW t \in Thread, NEW ask \in Asks,
             StartAcquire(c, t, ask[1], ask[2], ask[3])
      PROVE  Reverts'
  <2>1. /\ active' => active
        /\ \A d \in Call : pc'[d] = "unreserve" => pc[d] = "unreserve"
        /\ UNCHANGED slots
    BY <1>a, <1>1 DEF StartAcquire, Notified, Goto
  <2> QED
    BY <1>b, <2>1 DEF Reverts
<1>2. ASSUME NEW c \in Call, SelectRefused(c)
      PROVE  Reverts'
  <2>1. /\ active' => active
        /\ \A d \in Call : pc'[d] = "unreserve" => pc[d] = "unreserve"
        /\ UNCHANGED slots
    BY <1>a, <1>2 DEF SelectRefused, Return, Goto
  <2> QED
    BY <1>b, <2>1 DEF Reverts
<1>3. ASSUME NEW c \in Call, SelectShared(c)
      PROVE  Reverts'
  <2>1. /\ active' => active
        /\ \A d \in Call : pc'[d] = "unreserve" => pc[d] = "unreserve"
        /\ UNCHANGED slots
    BY <1>a, <1>3 DEF SelectShared, Return, Goto
  <2> QED
    BY <1>b, <2>1 DEF Reverts
<1>4. ASSUME NEW c \in Call, SelectClaim(c)
      PROVE  Reverts'
  <2>1. \A d \in Call : pc[d] = "unreserve" /\ slots'[Slot(d)].initialized => slots[Slot(d)].initialized
    BY <1>c, <1>4, ClaimEffect
  <2>2. /\ active' = active
        /\ \A d \in Call : pc'[d] = "unreserve" => pc[d] = "unreserve"
    BY <1>a, <1>4 DEF SelectClaim, Goto
  <2> QED
    BY <1>b, <2>1, <2>2 DEF Reverts
<1>5. ASSUME NEW c \in Call, SelectReentry(c)
      PROVE  Reverts'
  <2>1. /\ active' => active
        /\ \A d \in Call : pc'[d] = "unreserve" => pc[d] = "unreserve"
        /\ UNCHANGED slots
    BY <1>a, <1>5 DEF SelectReentry, Return, Drop, Goto
  <2> QED
    BY <1>b, <2>1 DEF Reverts
<1>6. ASSUME NEW c \in Call, SelectWait(c)
      PROVE  Reverts'
  <2>1. /\ active' => active
        /\ \A d \in Call : pc'[d] = "unreserve" => pc[d] = "unreserve"
        /\ UNCHANGED slots
    BY <1>a, <1>6 DEF SelectWait, Drop, Goto
  <2> QED
    BY <1>b, <2>1 DEF Reverts
<1>7. ASSUME NEW c \in Call, PoolEnter(c)
      PROVE  Reverts'
  <2>1. /\ UNCHANGED <<active, slots, at>> /\ \A d \in Call \ {c} : pc'[d] = pc[d]
        /\ pc'[c] = "unreserve" => ~active
    BY <1>a, <1>7 DEF PoolEnter, Goto
  <2> QED
    BY <2>1 DEF Reverts, Slot
<1>8. ASSUME NEW c \in Call, Validate(c)
      PROVE  Reverts'
  <2>1. /\ UNCHANGED <<active, slots, at>> /\ \A d \in Call \ {c} : pc'[d] = pc[d]
        /\ pc'[c] = "unreserve" => ~(active /\ cell[Slot(c)] \in Checker)
    BY <1>a, <1>8 DEF Validate, Goto
  <2>2. pc[c] = "validate" /\ pc[c] \in Reserving /\ Slot(c) \in Slots
    BY <1>8 DEF Validate, Shape, Placed, Reserving, Slot
  <2>3. ReservedAt(c, Slot(c))
    BY <2>2 DEF Pool, Stocked
  <2>4. slots[Slot(c)].initialized => cell[Slot(c)] \in Checker
    BY <2>3 DEF ReservedAt, Agrees
  <2> QED
    BY <2>1, <2>4 DEF Reverts, Slot
<1>9. ASSUME NEW c \in Call, Unreserve(c)
      PROVE  Reverts'
  <2>1. \A d \in Call : pc[d] = "unreserve" /\ slots'[Slot(d)].initialized => slots[Slot(d)].initialized
    BY <1>c, <1>9, UnreserveEffect
  <2>2. /\ active' = active
        /\ \A d \in Call : pc'[d] = "unreserve" => pc[d] = "unreserve"
    BY <1>a, <1>9 DEF Unreserve, Notified, Goto
  <2> QED
    BY <1>b, <2>1, <2>2 DEF Reverts
<1>10. ASSUME NEW c \in Call, Publish(c)
      PROVE  Reverts'
  <2>1. \A d \in Call : pc[d] = "unreserve" /\ slots'[Slot(d)].initialized => slots[Slot(d)].initialized
    <3>1. pc[c] = "publish" /\ \A d \in Call : pc[d] = "unreserve" => Slot(d) # Slot(c)
      BY <1>10 DEF Publish, Exclusive, OneHolder, Reserving
    <3> QED
      BY <1>c, <1>10, <3>1, PublishEffect
  <2>2. /\ active' = active
        /\ \A d \in Call : pc'[d] = "unreserve" => pc[d] = "unreserve"
    BY <1>a, <1>10 DEF Publish, Notified, Goto
  <2> QED
    BY <1>b, <2>1, <2>2 DEF Reverts
<1>11. ASSUME NEW c \in Call, Register(c)
      PROVE  Reverts'
  <2>1. /\ active' => active
        /\ \A d \in Call : pc'[d] = "unreserve" => pc[d] = "unreserve"
        /\ UNCHANGED slots
    BY <1>a, <1>11 DEF Register, Goto
  <2> QED
    BY <1>b, <2>1 DEF Reverts
<1>12. ASSUME NEW c \in Call, RegisterStop(c)
      PROVE  Reverts'
  <2>1. /\ active' => active
        /\ \A d \in Call : pc'[d] = "unreserve" => pc[d] = "unreserve"
        /\ UNCHANGED slots
    BY <1>a, <1>12 DEF RegisterStop, Return, Goto
  <2> QED
    BY <1>b, <2>1 DEF Reverts
<1>13. ASSUME NEW c \in Call, ReleaseDispose(c)
      PROVE  Reverts'
  <2>1. /\ active' => active
        /\ \A d \in Call : pc'[d] = "unreserve" => pc[d] = "unreserve"
        /\ UNCHANGED slots
    BY <1>a, <1>13 DEF ReleaseDispose, Disposed, Goto
  <2> QED
    BY <1>b, <2>1 DEF Reverts
<1>14. ASSUME NEW c \in Call, ReleaseReturn(c)
      PROVE  Reverts'
  <2>1. /\ active' => active
        /\ \A d \in Call : pc'[d] = "unreserve" => pc[d] = "unreserve"
        /\ UNCHANGED slots
    BY <1>a, <1>14 DEF ReleaseReturn, Returned, Goto
  <2> QED
    BY <1>b, <2>1 DEF Reverts
<1>15. ASSUME NEW c \in Call, ReleaseState(c)
      PROVE  Reverts'
  <2>1. \A d \in Call : pc[d] = "unreserve" /\ slots'[Slot(d)].initialized => slots[Slot(d)].initialized
    <3>1. FreeSlot.initialized = FALSE
      BY DEF FreeSlot
    <3>2. \A i \in Slots : slots'[i].initialized => slots[i].initialized
      BY <1>15, <3>1, ReleaseEffect
    <3> QED
      BY <1>c, <3>2
  <2>2. /\ active' = active
        /\ \A d \in Call : pc'[d] = "unreserve" => pc[d] = "unreserve"
    BY <1>a, <1>15 DEF ReleaseState, Notified, Goto
  <2> QED
    BY <1>b, <2>1, <2>2 DEF Reverts
<1>16. ASSUME NEW c \in Call, NEW outcome, Initialize(c, outcome)
      PROVE  Reverts'
  <2>1. /\ active' => active
        /\ \A d \in Call : pc'[d] = "unreserve" => pc[d] = "unreserve"
        /\ UNCHANGED slots
    BY <1>a, <1>16, InitializeEffect DEF Initialize, Goto
  <2> QED
    BY <1>b, <2>1 DEF Reverts
<1>17. ASSUME NEW c \in Call, SpuriousWake(c)
      PROVE  Reverts'
  <2>1. /\ active' => active
        /\ \A d \in Call : pc'[d] = "unreserve" => pc[d] = "unreserve"
        /\ UNCHANGED slots
    BY <1>a, <1>17 DEF SpuriousWake, Goto
  <2> QED
    BY <1>b, <2>1 DEF Reverts
<1>18. ASSUME NEW c \in Call, BeginOperation(c)
      PROVE  Reverts'
  <2>1. /\ active' => active
        /\ \A d \in Call : pc'[d] = "unreserve" => pc[d] = "unreserve"
        /\ UNCHANGED slots
    BY <1>a, <1>18 DEF BeginOperation
  <2> QED
    BY <1>b, <2>1 DEF Reverts
<1>19. ASSUME NEW c \in Call, NEW outcome, EndOperation(c, outcome)
      PROVE  Reverts'
  <2>1. /\ active' => active
        /\ \A d \in Call : pc'[d] = "unreserve" => pc[d] = "unreserve"
        /\ UNCHANGED slots
    BY <1>a, <1>19 DEF EndOperation
  <2> QED
    BY <1>b, <2>1 DEF Reverts
<1>20. ASSUME NEW c \in Call, DropHandle(c)
      PROVE  Reverts'
  <2>1. /\ active' => active
        /\ \A d \in Call : pc'[d] = "unreserve" => pc[d] = "unreserve"
        /\ UNCHANGED slots
    BY <1>a, <1>20 DEF DropHandle, Goto
  <2> QED
    BY <1>b, <2>1 DEF Reverts
<1>21. ASSUME NEW a \in Actor, Schedule(a)
      PROVE  Reverts'
  <2>1. /\ active' => active
        /\ \A d \in Call : pc'[d] = "unreserve" => pc[d] = "unreserve"
        /\ UNCHANGED slots
    BY <1>a, <1>21 DEF Schedule, Disarm, Ended, Goto
  <2> QED
    BY <1>b, <2>1 DEF Reverts
<1>22. ASSUME NEW a \in Actor, Arm(a)
      PROVE  Reverts'
  <2>1. /\ active' => active
        /\ \A d \in Call : pc'[d] = "unreserve" => pc[d] = "unreserve"
        /\ UNCHANGED slots
    BY <1>a, <1>22 DEF Arm, Goto
  <2> QED
    BY <1>b, <2>1 DEF Reverts
<1>23. ASSUME NEW a \in Actor, StoreTimer(a)
      PROVE  Reverts'
  <2>1. /\ active' => active
        /\ \A d \in Call : pc'[d] = "unreserve" => pc[d] = "unreserve"
        /\ UNCHANGED slots
    BY <1>a, <1>23 DEF StoreTimer, Disarm, Ended, Goto
  <2> QED
    BY <1>b, <2>1 DEF Reverts
<1>24. ASSUME NEW r \in Request, Cancel(r)
      PROVE  Reverts'
  <2>1. /\ active' => active
        /\ \A d \in Call : pc'[d] = "unreserve" => pc[d] = "unreserve"
        /\ UNCHANGED slots
    BY <1>a, <1>24 DEF Cancel
  <2> QED
    BY <1>b, <2>1 DEF Reverts
<1>25. ASSUME NEW x \in fired, RunCleanup(x[1], x[2])
      PROVE  Reverts'
  <2>1. /\ active' => active
        /\ \A d \in Call : pc'[d] = "unreserve" => pc[d] = "unreserve"
        /\ UNCHANGED slots
    BY <1>a, <1>25 DEF RunCleanup
  <2> QED
    BY <1>b, <2>1 DEF Reverts
<1>26. ASSUME NEW c \in firedWakes, RunWake(c)
      PROVE  Reverts'
  <2>1. /\ active' => active
        /\ \A d \in Call : pc'[d] = "unreserve" => pc[d] = "unreserve"
        /\ UNCHANGED slots
    BY <1>a, <1>26 DEF RunWake, Notified
  <2> QED
    BY <1>b, <2>1 DEF Reverts
<1>27. ASSUME NEW w \in Cleaner, NEW x \in armed, Fire(x[1], w)
      PROVE  Reverts'
  <2>1. /\ active' => active
        /\ \A d \in Call : pc'[d] = "unreserve" => pc[d] = "unreserve"
        /\ UNCHANGED slots
    BY <1>a, <1>27 DEF Fire, Disarm, Goto
  <2> QED
    BY <1>b, <2>1 DEF Reverts
<1>28. ASSUME NEW w \in Cleaner, Cleanup(w)
      PROVE  Reverts'
  <2>1. \A d \in Call : pc[d] = "unreserve" /\ slots'[Slot(d)].initialized => slots[Slot(d)].initialized
    <3>1. \A i \in Slots : slots'[i].initialized => slots[i].initialized
      BY <1>28, CleanupEffect, ResetEffect DEF FreeSlot
    <3> QED
      BY <1>c, <3>1
  <2>2. /\ active' = active
        /\ \A d \in Call : pc'[d] = "unreserve" => pc[d] = "unreserve"
    BY <1>a, <1>28 DEF Cleanup, Goto
  <2> QED
    BY <1>b, <2>1, <2>2 DEF Reverts
<1>29. ASSUME Discard
      PROVE  Reverts'
  <2>1. /\ active' => active
        /\ \A d \in Call : pc'[d] = "unreserve" => pc[d] = "unreserve"
        /\ UNCHANGED slots
    BY <1>a, <1>29 DEF Discard, Disarm
  <2> QED
    BY <1>b, <2>1 DEF Reverts
<1>30. ASSUME Tick
      PROVE  Reverts'
  <2>1. /\ active' => active
        /\ \A d \in Call : pc'[d] = "unreserve" => pc[d] = "unreserve"
        /\ UNCHANGED slots
    BY <1>a, <1>30 DEF Tick
  <2> QED
    BY <1>b, <2>1 DEF Reverts
<1>31. ASSUME Finished \/ UNCHANGED vars
      PROVE  Reverts'
  <2>1. /\ active' => active
        /\ \A d \in Call : pc'[d] = "unreserve" => pc[d] = "unreserve"
        /\ UNCHANGED slots
    BY <1>a, <1>31 DEF Finished, vars
  <2> QED
    BY <1>b, <2>1 DEF Reverts
<1>32. ASSUME NEW x \in Direct, Pinning(x)
      PROVE  Reverts'
  <2>1. (active' => active) /\ UNCHANGED <<slots, pc>>
    BY <1>32, PinEffect DEF Unscheduled
  <2> QED
    BY <1>b, <2>1 DEF Reverts
<1> QED
    BY <1>1, <1>2, <1>3, <1>4, <1>5, <1>6, <1>7, <1>8, <1>9, <1>10, <1>11, <1>12, <1>13,
       <1>14, <1>15, <1>16, <1>17, <1>18, <1>19, <1>20, <1>21, <1>22, <1>23, <1>24, <1>25,
       <1>26, <1>27, <1>28, <1>29, <1>30, <1>31, <1>32
       DEF Next, Internal, Select, Initializer, Ends, Scheduling, Callbacks, Timers

(* A step that has nothing to do with timers: it may let time pass, claim idle
   slots, and release one when it goes on to schedule. *)
Untimed ==
    /\ UNCHANGED <<timing, armed>> /\ now <= now' /\ now' \in Nat
    /\ \A a \in Actor : /\ pc[a] \in {"schedule", "arm", "store", "cleanup"} =>
                              pc'[a] = pc[a] /\ local'[a] = local[a]
                        /\ pc'[a] \in {"arm", "store", "cleanup"} => pc'[a] = pc[a]
    /\ active' => active
    /\ \/ ~active'
       \/ \E a \in Actor : pc'[a] = "schedule"
       \/ \A i \in IdleFrom(Evictable)' : i \in IdleFrom(Evictable) /\ slots'[i] = slots[i]

(* A step that has nothing to do with timers keeps them. *)
LEMMA UntimedKeeps == Shape /\ Timed /\ Untimed => Timed'
<1> SUFFICES ASSUME Shape, Timed, Untimed PROVE Timed'
    OBVIOUS
<1>1. Cleaner \subseteq Actor
    BY DEF Actor
<1>2. \A a \in Actor : /\ Setter(a)' <=> Setter(a)
                       /\ Setter(a) => local'[a] = local[a]
                       /\ pc'[a] = "arm" <=> pc[a] = "arm"
                       /\ pc'[a] = "store" <=> pc[a] = "store"
    BY DEF Untimed, Setter
<1>3. Cleaning' <=> Cleaning
    BY <1>1 DEF Untimed, Cleaning
<1>4. Epochs'
    BY <1>2 DEF Timed, Epochs, Setting, Untimed
<1>5. Owned'
    BY <1>2 DEF Timed, Owned, Untimed, Setter
<1>6. Covered'
    BY <1>3 DEF Timed, Covered, Untimed
<1>7. Running'
  <2>1. now \in Nat /\ now' >= now /\ \A x \in armed : x[2] \in Nat
    BY DEF Untimed, Shape, TypeOK
  <2>3. now' \in Nat
    BY DEF Untimed
  <2>2. \A x \in armed : x[2] <= now + 1 => x[2] <= now' + 1
    BY <2>1, <2>3
  <2> QED
    BY <1>2, <1>3, <2>2 DEF Timed, Running, Untimed, Setter
<1> QED
    BY <1>4, <1>5, <1>6, <1>7 DEF Timed

(* Every step keeps the deadline covering the idle checkers, and a timer for
   it. *)
LEMMA TimedStep == Shape /\ Exclusive /\ Reverts /\ Timed /\ [Next]_vars => Timed'
<1> SUFFICES ASSUME Shape, Exclusive, Reverts, Timed, [Next]_vars PROVE Timed'
    OBVIOUS
<1> USE NilAssumption DEF PC, Actor, data, poolVars, pending, contextVars, timerVars, tables
<1>a. /\ pc \in [Actor -> PC] /\ local \in [Actor -> (Nat \X (Nat \cup {Nil})) \cup {Nil}]
      /\ \A w \in Cleaner : pc[w] \in {"idle", "schedule", "arm", "store", "cleanup"}
      /\ now \in Nat
    BY DEF Shape, TypeOK, Epoch
<1>b. Shape /\ Timed
    OBVIOUS
<1>d. /\ now \in Nat /\ timing \in TimingType /\ timing.epoch \in Nat
      /\ armed \in SUBSET (Nat \X Nat) /\ \A x \in armed : x[1] \in Nat /\ x[2] \in Nat
    BY DEF Shape, TypeOK, TimingType
<1>e. \A a \in Actor : Setter(a) => local[a] \in Nat \X Nat
    BY DEF Shape, Epoch, Setter
<1>1. ASSUME NEW c \in Call, NEW t \in Thread, NEW ask \in Asks,
             StartAcquire(c, t, ask[1], ask[2], ask[3])
      PROVE  Timed'
  <2>1. Untimed
    BY <1>a, <1>1 DEF Untimed, IdleFrom, Evictable, StartAcquire, Notified, Goto
  <2> QED
    BY <1>b, <2>1, UntimedKeeps
<1>2. ASSUME NEW c \in Call, SelectRefused(c)
      PROVE  Timed'
  <2>1. Untimed
    BY <1>a, <1>2 DEF Untimed, IdleFrom, Evictable, SelectRefused, Return, Goto
  <2> QED
    BY <1>b, <2>1, UntimedKeeps
<1>3. ASSUME NEW c \in Call, SelectShared(c)
      PROVE  Timed'
  <2>1. Untimed
    BY <1>a, <1>3 DEF Untimed, IdleFrom, Evictable, SelectShared, Return, Goto
  <2> QED
    BY <1>b, <2>1, UntimedKeeps
<1>4. ASSUME NEW c \in Call, SelectClaim(c)
      PROVE  Timed'
  <2>1. \E i \in Slots : slots'[i].held /\ \A j \in Slots \ {i} : slots'[j] = slots[j]
    BY <1>4, ClaimEffect
  <2>2. \A i \in IdleFrom(Evictable)' : i \in IdleFrom(Evictable) /\ slots'[i] = slots[i]
    BY <2>1 DEF IdleFrom, Evictable
  <2>3. /\ UNCHANGED <<timing, armed, now, active>> /\ now <= now'
        /\ \A a \in Actor \ {c} : /\ local'[a] = local[a]
                                  /\ pc'[a] = pc[a] \/ (pc[a] = "asleep" /\ pc'[a] = "select")
        /\ pc[c] = "select" /\ pc'[c] \in {"pool"}
    BY <1>a, <1>4 DEF SelectClaim, Goto
  <2>4. Untimed
    BY <1>a, <2>2, <2>3 DEF Untimed
  <2> QED
    BY <1>b, <2>4, UntimedKeeps
<1>5. ASSUME NEW c \in Call, SelectReentry(c)
      PROVE  Timed'
  <2>1. Untimed
    BY <1>a, <1>5 DEF Untimed, IdleFrom, Evictable, SelectReentry, Return, Drop, Goto
  <2> QED
    BY <1>b, <2>1, UntimedKeeps
<1>6. ASSUME NEW c \in Call, SelectWait(c)
      PROVE  Timed'
  <2>1. Untimed
    BY <1>a, <1>6 DEF Untimed, IdleFrom, Evictable, SelectWait, Drop, Goto
  <2> QED
    BY <1>b, <2>1, UntimedKeeps
<1>7. ASSUME NEW c \in Call, PoolEnter(c)
      PROVE  Timed'
  <2>1. Untimed
    BY <1>a, <1>7 DEF Untimed, IdleFrom, Evictable, PoolEnter, Goto
  <2> QED
    BY <1>b, <2>1, UntimedKeeps
<1>8. ASSUME NEW c \in Call, Validate(c)
      PROVE  Timed'
  <2>1. Untimed
    BY <1>a, <1>8 DEF Untimed, IdleFrom, Evictable, Validate, Goto
  <2> QED
    BY <1>b, <2>1, UntimedKeeps
<1>9. ASSUME NEW c \in Call, Unreserve(c)
      PROVE  Timed'
  <2>1. Slot(c) \in Slots /\ (~slots[Slot(c)].initialized \/ ~active)
    BY <1>9, UnreserveEffect DEF Unreserve, Reverts
  <2>2. ~active \/ \A i \in IdleFrom(Evictable)' : i \in IdleFrom(Evictable) /\ slots'[i] = slots[i]
    BY <1>9, <2>1, UnreserveEffect DEF IdleFrom, Evictable
  <2>3. /\ UNCHANGED <<timing, armed, now, active>> /\ now <= now'
        /\ \A a \in Actor \ {c} : /\ local'[a] = local[a]
                                  /\ pc'[a] = pc[a] \/ (pc[a] = "asleep" /\ pc'[a] = "select")
        /\ pc[c] = "unreserve" /\ pc'[c] \in {"done"}
    BY <1>a, <1>9 DEF Unreserve, Notified, Goto
  <2>4. Untimed
    BY <1>a, <2>2, <2>3 DEF Untimed
  <2> QED
    BY <1>b, <2>4, UntimedKeeps
<1>10. ASSUME NEW c \in Call, Publish(c)
      PROVE  Timed'
  <2>1. Slot(c) \in Slots /\ slots'[Slot(c)].held /\ \A j \in Slots \ {Slot(c)} : slots'[j] = slots[j]
    <3>1. slots[Slot(c)].held
      BY <1>10 DEF Publish, Exclusive, Reserves, Reserving
    <3> QED
      BY <1>10, <3>1, PublishEffect
  <2>2. \A i \in IdleFrom(Evictable)' : i \in IdleFrom(Evictable) /\ slots'[i] = slots[i]
    BY <2>1 DEF IdleFrom, Evictable
  <2>3. /\ UNCHANGED <<timing, armed, now, active>> /\ now <= now'
        /\ \A a \in Actor \ {c} : /\ local'[a] = local[a]
                                  /\ pc'[a] = pc[a] \/ (pc[a] = "asleep" /\ pc'[a] = "select")
        /\ pc[c] = "publish" /\ pc'[c] \in {"register", "held"}
    BY <1>a, <1>10 DEF Publish, Notified, Goto
  <2>4. Untimed
    BY <1>a, <2>2, <2>3 DEF Untimed
  <2> QED
    BY <1>b, <2>4, UntimedKeeps
<1>11. ASSUME NEW c \in Call, Register(c)
      PROVE  Timed'
  <2>1. Untimed
    BY <1>a, <1>11 DEF Untimed, IdleFrom, Evictable, Register, Goto
  <2> QED
    BY <1>b, <2>1, UntimedKeeps
<1>12. ASSUME NEW c \in Call, RegisterStop(c)
      PROVE  Timed'
  <2>1. Untimed
    BY <1>a, <1>12 DEF Untimed, IdleFrom, Evictable, RegisterStop, Return, Goto
  <2> QED
    BY <1>b, <2>1, UntimedKeeps
<1>13. ASSUME NEW c \in Call, ReleaseDispose(c)
      PROVE  Timed'
  <2>1. Untimed
    BY <1>a, <1>13 DEF Untimed, IdleFrom, Evictable, ReleaseDispose, Disposed, Goto
  <2> QED
    BY <1>b, <2>1, UntimedKeeps
<1>14. ASSUME NEW c \in Call, ReleaseReturn(c)
      PROVE  Timed'
  <2>1. Untimed
    BY <1>a, <1>14 DEF Untimed, IdleFrom, Evictable, ReleaseReturn, Returned, Goto
  <2> QED
    BY <1>b, <2>1, UntimedKeeps
<1>15. ASSUME NEW c \in Call, ReleaseState(c)
      PROVE  Timed'
  <2>1. pc'[c] = "schedule" /\ c \in Actor
    BY <1>a, <1>15 DEF ReleaseState, Notified, Goto
  <2>2. Untimed
    BY <1>a, <1>15, <2>1 DEF Untimed, ReleaseState, Notified, Goto
  <2> QED
    BY <1>b, <2>2, UntimedKeeps
<1>16. ASSUME NEW c \in Call, NEW outcome, Initialize(c, outcome)
      PROVE  Timed'
  <2>1. active' => active
    BY <1>16, InitializeEffect
  <2>2. Untimed
    BY <1>a, <1>16, <2>1 DEF Untimed, IdleFrom, Evictable, Initialize, Goto
  <2> QED
    BY <1>b, <2>2, UntimedKeeps
<1>17. ASSUME NEW c \in Call, SpuriousWake(c)
      PROVE  Timed'
  <2>1. Untimed
    BY <1>a, <1>17 DEF Untimed, IdleFrom, Evictable, SpuriousWake, Goto
  <2> QED
    BY <1>b, <2>1, UntimedKeeps
<1>18. ASSUME NEW c \in Call, BeginOperation(c)
      PROVE  Timed'
  <2>1. Untimed
    BY <1>a, <1>18 DEF Untimed, IdleFrom, Evictable, BeginOperation
  <2> QED
    BY <1>b, <2>1, UntimedKeeps
<1>19. ASSUME NEW c \in Call, NEW outcome, EndOperation(c, outcome)
      PROVE  Timed'
  <2>1. UNCHANGED <<slots, timing, armed, now, pc, local>>
    BY <1>19 DEF EndOperation
  <2>2. active' => active
    BY <1>19, Zenon DEF EndOperation
  <2>3. Untimed
    BY <1>a, <2>1, <2>2 DEF Untimed, IdleFrom, Evictable
  <2> QED
    BY <1>b, <2>3, UntimedKeeps
<1>20. ASSUME NEW c \in Call, DropHandle(c)
      PROVE  Timed'
  <2>1. Untimed
    BY <1>a, <1>20 DEF Untimed, IdleFrom, Evictable, DropHandle, Goto
  <2> QED
    BY <1>b, <2>1, UntimedKeeps
<1>21. ASSUME NEW a \in Actor, Schedule(a)
      PROVE  Timed'
  <2> PICK d : d = IF timing.discarded \/ ~active \/ Deadlines = {} THEN Nil ELSE Min(Deadlines)
    OBVIOUS
  <2>1. d \in Nat \cup {Nil} /\ (timing.discarded => d = Nil)
    BY NextDeadline
  <2>2. active /\ ~timing.discarded =>
           \A i \in IdleFrom(Evictable) : d # Nil /\ d <= slots[i].released + IdleTimeout
    <3>1. \A i \in IdleFrom(Evictable) : slots[i].released + IdleTimeout \in Deadlines
      BY DEF Deadlines
    <3>2. IdleFrom(Evictable) # {} => Deadlines # {}
      BY <3>1
    <3> QED
      BY <3>2, NextDeadline
  <2>3. /\ pc[a] = "schedule" /\ UNCHANGED <<slots, active, now>>
        /\ Ended(a) \in {"idle", "done"}
    BY <1>21 DEF Schedule, Ended
  <2>4. IdleFrom(Evictable)' = IdleFrom(Evictable)
    BY <2>3 DEF IdleFrom, Evictable
  <2>5. CASE timing.deadline = d
    <3>1. /\ pc' = [pc EXCEPT ![a] = Ended(a)] /\ UNCHANGED <<local, timing, armed>>
      BY <1>21, <2>5 DEF Schedule, Goto
    <3>2. \A b \in Actor, p \in {"arm", "store", "cleanup"} : pc'[b] = p <=> pc[b] = p
      BY <1>a, <2>3, <3>1
    <3>3. Epochs' /\ Owned'
      BY <3>1, <3>2 DEF Timed, Epochs, Setter, Setting, Owned
    <3>4. Covered'
      BY <2>2, <2>3, <2>4, <2>5, <3>1 DEF Covered
    <3>5. Running'
      BY <2>3, <3>1, <3>2 DEF Timed, Running, Cleaning
    <3> QED
      BY <3>3, <3>4, <3>5 DEF Timed
  <2>6. CASE timing.deadline # d
    <3>1. /\ timing' = [timing EXCEPT !.deadline = d, !.epoch = @ + 1, !.timer = Nil]
          /\ armed' = Disarm(timing.timer) /\ local' = [local EXCEPT ![a] = <<timing.epoch + 1, d>>]
          /\ pc' = [pc EXCEPT ![a] = IF d = Nil THEN Ended(a) ELSE "arm"]
      BY <1>21, <2>6 DEF Schedule, Goto
    <3>2. /\ timing'.deadline = d /\ timing'.epoch = timing.epoch + 1 /\ timing'.timer = Nil
          /\ timing'.discarded = timing.discarded
      BY <1>d, <3>1 DEF TimingType
    <3>3. \A b \in Actor \ {a} : pc'[b] = pc[b] /\ local'[b] = local[b]
      BY <1>a, <3>1
    <3>4. /\ d # Nil => pc'[a] = "arm" /\ local'[a] = <<timing.epoch + 1, d>>
          /\ d = Nil => pc'[a] \in {"idle", "done"}
      BY <1>a, <2>3, <3>1
    <3>5. Epochs'
      <4>1. \A b \in Actor : Setter(b)' => \/ b = a /\ local'[b][1] = timing.epoch + 1
                                           \/ b # a /\ Setter(b) /\ local'[b][1] = local[b][1]
        BY <3>3, <3>4 DEF Setter
      <4>2. \A b \in Actor : Setter(b) => local[b][1] \in Nat /\ local[b][1] <= timing.epoch
        BY <1>e DEF Timed, Epochs
      <4> QED
        BY <1>d, <2>1, <3>2, <4>1, <4>2 DEF Timed, Epochs, Setting
    <3>6. Owned'
      BY <2>3, <3>1, <3>3 DEF Timed, Owned, Disarm
    <3>7. Covered'
      BY <2>2, <2>3, <2>4, <3>2 DEF Covered
    <3>8. Running'
      BY <3>2, <3>4 DEF Running
    <3> QED
      BY <3>5, <3>6, <3>7, <3>8 DEF Timed
  <2> QED
    BY <2>5, <2>6
<1>22. ASSUME NEW a \in Actor, Arm(a)
      PROVE  Timed'
  <2> PICK e, l, m : e = local[a][1] /\ l = local[a][2] /\ m = Max({local[a][2], now + 1})
    OBVIOUS
  <2>1. local[a] = <<e, l>> /\ e \in Nat /\ l \in Nat /\ pc[a] = "arm"
    BY <1>22 DEF Arm, Shape, Epoch
  <2>2. m \in Nat /\ (m <= l \/ m <= now + 1)
    <3>1. now + 1 \in Nat
      BY <1>d
    <3>2. m \in {l, now + 1}
      BY <2>1, <3>1, MaxOfTwo
    <3> QED
      BY <2>1, <3>1, <3>2
  <2>3. /\ armed' = armed \cup {<<e, m>>} /\ pc'[a] = "store" /\ \A b \in Actor \ {a} : pc'[b] = pc[b]
        /\ UNCHANGED <<slots, active, now, timing, local>>
    BY <1>a, <1>22 DEF Arm, Goto
  <2>4. IdleFrom(Evictable)' = IdleFrom(Evictable)
    BY <2>3 DEF IdleFrom, Evictable
  <2>5. \A b \in Actor : Setter(b)' <=> Setter(b)
    BY <2>1, <2>3 DEF Setter
  <2>6. Cleaning' <=> Cleaning
    BY <2>1, <2>3 DEF Cleaning
  <2>7. Epochs'
    BY <2>3, <2>5 DEF Timed, Epochs, Setting
  <2>8. Owned'
    BY <2>1, <2>3 DEF Timed, Owned
  <2>9. Covered'
    BY <2>1, <2>3, <2>4, <2>6 DEF Timed, Covered
  <2>10. Running'
    <3> SUFFICES ASSUME timing.deadline # Nil, ~Cleaning
                 PROVE  \/ \E b \in Actor : pc'[b] = "arm" /\ local[b] = <<timing.epoch, timing.deadline>>
                        \/ \E x \in armed' : /\ x[1] = timing.epoch
                                             /\ x[2] <= timing.deadline \/ x[2] <= now + 1
      BY <2>3, <2>6 DEF Running
    <3>1. CASE local[a] = <<timing.epoch, timing.deadline>>
      <4>1. e = timing.epoch /\ l = timing.deadline
        BY <2>1, <3>1
      <4>2. <<e, m>> \in armed' /\ <<e, m>>[1] = timing.epoch
            /\ (<<e, m>>[2] <= timing.deadline \/ <<e, m>>[2] <= now + 1)
        BY <2>2, <2>3, <4>1
      <4> QED
        BY <4>2
    <3>2. ASSUME NEW b \in Actor \ {a}, pc[b] = "arm", local[b] = <<timing.epoch, timing.deadline>>
          PROVE  \E d \in Actor : pc'[d] = "arm" /\ local[d] = <<timing.epoch, timing.deadline>>
      BY <2>3, <3>2
    <3>3. ASSUME NEW x \in armed, x[1] = timing.epoch, x[2] <= timing.deadline \/ x[2] <= now + 1
          PROVE  \E y \in armed' : /\ y[1] = timing.epoch
                                   /\ y[2] <= timing.deadline \/ y[2] <= now + 1
      BY <2>3, <3>3
    <3> QED
      BY <3>1, <3>2, <3>3 DEF Timed, Running
  <2> QED
    BY <2>7, <2>8, <2>9, <2>10 DEF Timed
<1>23. ASSUME NEW a \in Actor, StoreTimer(a)
      PROVE  Timed'
  <2> PICK e : e = local[a][1]
    OBVIOUS
  <2>1. e \in Nat /\ pc[a] = "store" /\ Setter(a)
    BY <1>23 DEF StoreTimer, Shape, Epoch, Setter
  <2>2. /\ pc' = [pc EXCEPT ![a] = Ended(a)] /\ Ended(a) \in {"idle", "done"}
        /\ UNCHANGED <<slots, active, now, local>>
    BY <1>23 DEF StoreTimer, Goto, Ended
  <2>3. pc'[a] \in {"idle", "done"} /\ \A b \in Actor \ {a} : pc'[b] = pc[b]
    BY <1>a, <2>2
  <2>4. IdleFrom(Evictable)' = IdleFrom(Evictable)
    BY <2>2 DEF IdleFrom, Evictable
  <2>5. \A b \in Actor : Setter(b)' <=> Setter(b) /\ b # a
    BY <2>3 DEF Setter
  <2>6. CASE timing.epoch # e \/ timing.discarded
    <3>1. armed' = Disarm(e) /\ timing' = timing
      BY <1>23, <2>6 DEF StoreTimer, Overtaken
    <3>2. Epochs'
      BY <2>2, <2>5, <3>1 DEF Timed, Epochs, Setting
    <3>3. Owned'
      BY <2>2, <2>3, <3>1 DEF Timed, Owned, Disarm
    <3>4. Cleaning' <=> Cleaning
      BY <2>1, <2>2, <2>3, <3>1 DEF Cleaning
    <3>5. Covered'
      BY <2>1, <2>2, <2>3, <2>4, <3>1, <3>4 DEF Timed, Covered
    <3>6. Running'
      BY <2>1, <2>2, <2>3, <2>6, <3>1, <3>4 DEF Timed, Epochs, Running, Disarm
    <3> QED
      BY <3>2, <3>3, <3>5, <3>6 DEF Timed
  <2>7. CASE timing.epoch = e /\ ~timing.discarded
    <3>1. armed' = Disarm(timing.timer) /\ timing' = [timing EXCEPT !.timer = e]
      BY <1>23, <2>7 DEF StoreTimer, Overtaken
    <3>2. timing.timer = Nil
      BY <2>1, <2>7 DEF Timed, Epochs, Setting
    <3>3. armed' = armed
      BY <1>d, <3>1, <3>2 DEF Disarm
    <3>4. /\ timing'.timer = e /\ timing'.epoch = timing.epoch /\ timing'.deadline = timing.deadline
          /\ timing'.discarded = timing.discarded
      BY <1>d, <3>1 DEF TimingType
    <3>5. Epochs'
      <4>1. \A b \in Actor : ~Setting(b)'
        BY <2>1, <2>2, <2>5, <2>7, <3>4 DEF Timed, Epochs, Setting
      <4> QED
        BY <2>2, <2>5, <2>7, <3>4, <4>1 DEF Timed, Epochs
    <3>6. Owned'
      BY <1>d, <2>2, <2>3, <2>7, <3>2, <3>3, <3>4 DEF Timed, Owned
    <3>7. Cleaning' <=> Cleaning
      BY <2>1, <2>2, <2>3, <3>4 DEF Cleaning
    <3>8. Covered'
      BY <2>1, <2>2, <2>3, <2>4, <3>4, <3>7 DEF Timed, Covered
    <3>9. Running'
      BY <2>1, <2>2, <2>3, <3>3, <3>4, <3>7 DEF Timed, Running
    <3> QED
      BY <3>5, <3>6, <3>8, <3>9 DEF Timed
  <2> QED
    BY <2>6, <2>7
<1>24. ASSUME NEW r \in Request, Cancel(r)
      PROVE  Timed'
  <2>1. Untimed
    BY <1>a, <1>24 DEF Untimed, IdleFrom, Evictable, Cancel
  <2> QED
    BY <1>b, <2>1, UntimedKeeps
<1>25. ASSUME NEW x \in fired, RunCleanup(x[1], x[2])
      PROVE  Timed'
  <2>1. Untimed
    BY <1>a, <1>25 DEF Untimed, IdleFrom, Evictable, RunCleanup
  <2> QED
    BY <1>b, <2>1, UntimedKeeps
<1>26. ASSUME NEW c \in firedWakes, RunWake(c)
      PROVE  Timed'
  <2>1. Untimed
    BY <1>a, <1>26 DEF Untimed, IdleFrom, Evictable, RunWake, Notified
  <2> QED
    BY <1>b, <2>1, UntimedKeeps
<1>27. ASSUME NEW w \in Cleaner, NEW x \in armed, Fire(x[1], w)
      PROVE  Timed'
  <2> PICK e : e = x[1]
    OBVIOUS
  <2>1. /\ pc[w] = "idle" /\ pc'[w] = "cleanup" /\ local'[w] = <<e, Nil>>
        /\ armed' = Disarm(e) /\ UNCHANGED <<slots, active, now, timing>>
        /\ \A b \in Actor \ {w} : pc'[b] = pc[b] /\ local'[b] = local[b]
    BY <1>a, <1>27 DEF Fire, Disarm, Goto
  <2>2. IdleFrom(Evictable)' = IdleFrom(Evictable)
    BY <2>1 DEF IdleFrom, Evictable
  <2>3. \A b \in Actor : /\ Setter(b)' <=> Setter(b)
                         /\ Setter(b) => local'[b] = local[b]
    BY <2>1 DEF Setter
  <2>4. Cleaning' <=> Cleaning \/ e = timing.epoch
    BY <2>1 DEF Cleaning
  <2>5. Epochs'
    BY <2>1, <2>3 DEF Timed, Epochs, Setting
  <2>6. Owned'
    BY <2>1 DEF Timed, Owned, Disarm
  <2>7. Covered'
    BY <2>1, <2>2, <2>4 DEF Timed, Covered
  <2>8. Running'
    BY <2>1, <2>4 DEF Timed, Running, Disarm
  <2> QED
    BY <2>5, <2>6, <2>7, <2>8 DEF Timed
<1>28. ASSUME NEW w \in Cleaner, Cleanup(w)
      PROVE  Timed'
  <2>1. PICK I \in SUBSET Slots :
             /\ Reset(I)
             /\ \/ /\ timing.discarded \/ timing.epoch # local[w][1]
                   /\ UNCHANGED <<slots, requests, files, cell, clean, timing, armed>>
                   /\ pc' = [pc EXCEPT ![w] = "idle"]
                \/ /\ ~timing.discarded /\ timing.epoch = local[w][1]
                   /\ timing' = [timing EXCEPT !.deadline = Nil, !.timer = Nil]
                   /\ armed' = Disarm(timing.timer)
                   /\ pc' = [pc EXCEPT ![w] = "schedule"]
    BY <1>28, CleanupEffect
  <2>2. pc[w] = "cleanup" /\ UNCHANGED <<active, now, local>>
    BY <1>28 DEF Cleanup
  <2>3. CASE /\ timing.discarded \/ timing.epoch # local[w][1]
             /\ UNCHANGED <<slots, requests, files, cell, clean, timing, armed>>
             /\ pc' = [pc EXCEPT ![w] = "idle"]
    <3>1. pc'[w] = "idle" /\ \A b \in Actor \ {w} : pc'[b] = pc[b]
      BY <1>a, <2>3
    <3>2. IdleFrom(Evictable)' = IdleFrom(Evictable)
      BY <2>3 DEF IdleFrom, Evictable
    <3>3. \A b \in Actor : Setter(b)' <=> Setter(b)
      BY <2>2, <3>1 DEF Setter
    <3>4. ~timing.discarded => (Cleaning' <=> Cleaning)
      BY <2>2, <2>3, <3>1 DEF Cleaning
    <3>5. Epochs'
      BY <2>2, <2>3, <3>3 DEF Timed, Epochs, Setting
    <3>6. Owned'
      BY <2>2, <2>3, <3>1 DEF Timed, Owned
    <3>7. Covered'
      BY <2>2, <2>3, <3>1, <3>2, <3>4 DEF Timed, Covered
    <3>8. Running'
      BY <2>2, <2>3, <3>1, <3>4 DEF Timed, Epochs, Running
    <3> QED
      BY <3>5, <3>6, <3>7, <3>8 DEF Timed
  <2>4. CASE /\ timing' = [timing EXCEPT !.deadline = Nil, !.timer = Nil]
             /\ armed' = Disarm(timing.timer)
             /\ pc' = [pc EXCEPT ![w] = "schedule"]
    <3>1. pc'[w] = "schedule" /\ \A b \in Actor \ {w} : pc'[b] = pc[b]
      BY <1>a, <2>4
    <3>2. /\ timing'.deadline = Nil /\ timing'.timer = Nil /\ timing'.epoch = timing.epoch
          /\ timing'.discarded = timing.discarded
      BY <1>d, <2>4 DEF TimingType
    <3>3. \A b \in Actor : Setter(b)' <=> Setter(b)
      BY <2>2, <3>1 DEF Setter
    <3>4. Epochs'
      BY <2>2, <3>2, <3>3 DEF Timed, Epochs, Setting
    <3>5. Owned'
      BY <2>2, <2>4, <3>1 DEF Timed, Owned, Disarm
    <3>6. Covered' /\ Running'
      BY <3>1, <3>2 DEF Covered, Running
    <3> QED
      BY <3>4, <3>5, <3>6 DEF Timed
  <2> QED
    BY <2>1, <2>3, <2>4
<1>29. ASSUME Discard
      PROVE  Timed'
  <2>1. /\ timing'.discarded /\ timing'.epoch = timing.epoch + 1 /\ timing'.deadline = Nil
        /\ timing'.timer = Nil /\ armed' = Disarm(timing.timer)
        /\ UNCHANGED <<pc, local>>
    BY <1>29 DEF Discard
  <2>2. \A b \in Actor : Setter(b) => local[b][1] \in Nat
    BY <1>e
  <2>3. Epochs'
    BY <1>d, <2>1, <2>2 DEF Timed, Epochs, Setter, Setting
  <2>4. Owned'
    BY <2>1 DEF Timed, Owned, Disarm
  <2>5. Covered' /\ Running'
    BY <2>1 DEF Covered, Running
  <2> QED
    BY <2>3, <2>4, <2>5 DEF Timed
<1>30. ASSUME Tick
      PROVE  Timed'
  <2>1. Untimed
    BY <1>a, <1>d, <1>30 DEF Untimed, IdleFrom, Evictable, Tick
  <2> QED
    BY <1>b, <2>1, UntimedKeeps
<1>31. ASSUME Finished \/ UNCHANGED vars
      PROVE  Timed'
  <2>1. Untimed
    BY <1>a, <1>31 DEF Untimed, IdleFrom, Evictable, Finished, vars
  <2> QED
    BY <1>b, <2>1, UntimedKeeps
<1>32. ASSUME NEW x \in Direct, Pinning(x)
      PROVE  Timed'
  <2>1. /\ UNCHANGED <<timing, armed, now, pc, local, slots>>
        /\ active' => active
    BY <1>32, PinEffect DEF Unscheduled
  <2>2. Untimed
    BY <1>d, <2>1 DEF Untimed, IdleFrom, Evictable
  <2> QED
    BY <1>b, <2>2, UntimedKeeps
<1> QED
    BY <1>1, <1>2, <1>3, <1>4, <1>5, <1>6, <1>7, <1>8, <1>9, <1>10, <1>11, <1>12, <1>13,
       <1>14, <1>15, <1>16, <1>17, <1>18, <1>19, <1>20, <1>21, <1>22, <1>23, <1>24, <1>25,
       <1>26, <1>27, <1>28, <1>29, <1>30, <1>31, <1>32
       DEF Next, Internal, Select, Initializer, Ends, Scheduling, Callbacks, Timers

(* The timers always agree with the idle checkers. *)
LEMMA TimedHolds == Spec => []Timed
<1>1. Init => Timed /\ Reverts
  <2> SUFFICES ASSUME Init PROVE Timed /\ Reverts
    OBVIOUS
  <2>1. /\ \A a \in Actor : pc[a] \in {"idle", "new"}
        /\ timing.timer = Nil /\ timing.deadline = Nil /\ armed = {}
    BY DEF Init, Actor
  <2>2. IdleFrom(Evictable) = {}
    BY DEF Init, IdleFrom, FreeSlot, Evictable
  <2>3. Epochs
    BY <2>1 DEF Epochs, Setter, Setting
  <2>4. Owned /\ Covered /\ Running
    BY <2>1, <2>2 DEF Owned, Covered, Running
  <2>5. Reverts
    BY <2>1 DEF Reverts, Actor
  <2> QED
    BY <2>3, <2>4, <2>5 DEF Timed
<1> QED
    BY <1>1, TimedStep, RevertsStep, ShapeHolds, ExclusiveHolds, PoolHolds, PTL DEF Spec

(* While nobody is about to schedule, an idle checker has an armed timer of the
   current epoch that is due no later than its timeout, and a scheduler that
   was discarded keeps none. *)
THEOREM IdleCheckersAreTimed == Spec => []TimersAgree
<1>1. Shape /\ Timed => TimersAgree
  <2> SUFFICES ASSUME Shape, Timed PROVE TimersAgree
    OBVIOUS
  <2>1. ASSUME \A a \in Actor : pc[a] \notin {"schedule", "arm", "store", "cleanup"},
               active, ~timing.discarded, NEW i \in IdleFrom(Slots \ {Api})
        PROVE  \E x \in armed : /\ x[1] = timing.epoch
                                 /\ x[2] <= Max({slots[i].released + IdleTimeout, now + 1})
    <3> PICK v, d : v = slots[i].released + IdleTimeout /\ d = timing.deadline
      OBVIOUS
    <3>1. ~Cleaning
      BY <2>1 DEF Cleaning, Actor
    <3>2. i \in IdleFrom(Evictable)
      BY <2>1 DEF Evictable
    <3>3. d # Nil /\ d <= v
      BY <2>1, <3>1, <3>2 DEF Timed, Covered
    <3>4. PICK x \in armed : x[1] = timing.epoch /\ (x[2] <= d \/ x[2] <= now + 1)
      BY <2>1, <3>1, <3>3 DEF Timed, Running
    <3>5. v \in Nat /\ now + 1 \in Nat /\ d \in Nat /\ x[2] \in Nat
      BY <2>1, <3>3, TimeAssumption DEF Shape, TypeOK, IdleFrom, SlotType, TimingType
    <3>6. /\ Max({v, now + 1}) \in {v, now + 1}
          /\ v <= Max({v, now + 1}) /\ now + 1 <= Max({v, now + 1})
      BY <3>5, MaxOfTwo
    <3>7. x[2] <= Max({v, now + 1})
      BY <3>3, <3>4, <3>5, <3>6
    <3> QED
      BY <3>4, <3>7
  <2>2. IdleIsTimed
    BY <2>1 DEF IdleIsTimed
  <2>3. DiscardDisarms
    <3>1. \A x \in armed : x[1] # Nil
      BY NilAssumption DEF Shape, TypeOK
    <3> QED
      BY <3>1 DEF DiscardDisarms, Timed, Epochs, Owned
  <2> QED
    BY <2>2, <2>3 DEF TimersAgree
<1> QED
    BY <1>1, ShapeHolds, TimedHolds, PTL
=============================================================================
