--------------------------- MODULE RefCountCache ---------------------------
(***************************************************************************)
(* The per-key initialising, reference-counted cache of the project system *)
(* (crates/tsr_project/src/ref_count_cache.rs).  Its leases (parse_cache.rs)*)
(* keep parsed files alive for the programs that use them.                 *)
(*                                                                         *)
(* A step is one critical section of the code: the index lock, an entry's  *)
(* state lock, or the lock-free code between two of them.  The index lock  *)
(* is only ever taken last, so a section that nests it inside an entry's   *)
(* lock is one step.                                                       *)
(*                                                                         *)
(* A member of Call is one acquisition together with the lease it returns  *)
(* and the release of that lease.  A call creates at most one entry, so an *)
(* entry (an Arc<Entry>, compared by pointer) is named by its creator.     *)
(***************************************************************************)
EXTENDS Integers, FiniteSets

CONSTANTS Thread,           \* threads that share the cache
          Key,              \* cache keys
          Call,             \* the acquisitions made over a run
          Nil,              \* no call, no entry, no thread
          Nests,            \* <<k, l>>: a producer of k may acquire l
          DisableDeletion   \* RefCountCacheOptions.disable_deletion

ASSUME NilAssumption == Nil \notin Call \cup Thread \cup Key
ASSUME CallAssumption == IsFiniteSet(Call)
ASSUME OptionAssumption == DisableDeletion \in BOOLEAN

VARIABLES index,      \* RefCountCache.entries: key -> entry or Nil
          status,     \* State of an entry: Initializing, Ready, Removed
          refs,       \* State::Ready.references of an entry
          pc,         \* where a call is
          key,        \* the key a call acquires and later releases
          ent,        \* the entry a call works on, or holds a lease of
          runner,     \* the thread that executes a call
          outer,      \* the call whose producer made this one, or Nil
          unwinding   \* threads on which a panic is propagating

store == <<index, status, refs>>
frame == <<key, runner, outer>>
vars == <<store, pc, ent, frame, unwinding>>

Status == {"none", "initializing", "ready", "removed"}

PC == {"new", "lookup", "produce", "nested", "commit", "notify",
       "abandon", "markRemoved", "failNotify", "inspect", "asleep",
       "held", "relLookup", "relDrop", "relNotify", "done"}

(* Calls at these points occupy no thread. *)
AtRest == {"new", "held", "done"}

Busy(t) == \E c \in Call : runner[c] = t /\ pc[c] \notin AtRest

Init ==
    /\ index = [k \in Key |-> Nil]
    /\ status = [e \in Call |-> "none"]
    /\ refs = [e \in Call |-> 0]
    /\ pc = [c \in Call |-> "new"]
    /\ key = [c \in Call |-> Nil]
    /\ ent = [c \in Call |-> Nil]
    /\ runner = [c \in Call |-> Nil]
    /\ outer = [c \in Call |-> Nil]
    /\ unwinding = {}

----------------------------------------------------------------------------
(* acquire_or_error *)

Enter(c, k, t, o) ==
    /\ pc[c] = "new"
    /\ key' = [key EXCEPT ![c] = k]
    /\ runner' = [runner EXCEPT ![c] = t]
    /\ outer' = [outer EXCEPT ![c] = o]
    /\ UNCHANGED <<store, ent, unwinding>>

StartAcquire(c, k, t) ==
    /\ ~Busy(t)
    /\ Enter(c, k, t, Nil)
    /\ pc' = [pc EXCEPT ![c] = "lookup"]

(* A producer runs under no lock and may itself use the cache. *)
NestedAcquire(p, c, k) ==
    /\ pc[p] = "produce"
    /\ <<key[p], k>> \in Nests
    /\ Enter(c, k, runner[p], p)
    /\ pc' = [pc EXCEPT ![p] = "nested", ![c] = "lookup"]

LookupOccupied(c) ==
    /\ pc[c] = "lookup"
    /\ index[key[c]] # Nil
    /\ ent' = [ent EXCEPT ![c] = index[key[c]]]
    /\ pc' = [pc EXCEPT ![c] = "inspect"]
    /\ UNCHANGED <<store, frame, unwinding>>

Vacant(k) == index[k] = Nil

LookupVacant(c) ==
    /\ pc[c] = "lookup"
    /\ Vacant(key[c])
    /\ index' = [index EXCEPT ![key[c]] = c]
    /\ status' = [status EXCEPT ![c] = "initializing"]
    /\ ent' = [ent EXCEPT ![c] = c]
    /\ pc' = [pc EXCEPT ![c] = "produce"]
    /\ UNCHANGED <<refs, frame, unwinding>>

ProduceOk(c) ==
    /\ pc[c] = "produce"
    /\ pc' = [pc EXCEPT ![c] = "commit"]
    /\ UNCHANGED <<store, frame, ent, unwinding>>

(* The producer returns Err, or panics. *)
ProduceFail(c, panics) ==
    /\ pc[c] = "produce"
    /\ pc' = [pc EXCEPT ![c] = "abandon"]
    /\ unwinding' = IF panics THEN unwinding \cup {runner[c]} ELSE unwinding
    /\ UNCHANGED <<store, frame, ent>>

FirstReference == 1

Commit(c) ==
    /\ pc[c] = "commit"
    /\ status' = [status EXCEPT ![c] = "ready"]
    /\ refs' = [refs EXCEPT ![c] = FirstReference]
    /\ pc' = [pc EXCEPT ![c] = "notify"]
    /\ UNCHANGED <<index, frame, ent, unwinding>>

(* Mutant: the waiters are not notified. *)
WakeNobody(e, f) == f
(* entry.ready.notify_all(): everyone asleep on e inspects its state again. *)
WakeAll(e, f) ==
    [x \in Call |-> IF f[x] = "asleep" /\ ent[x] = e THEN "inspect" ELSE f[x]]

(* Returning to the caller: a producer that nested the call resumes. *)
Resume(c, at) ==
    [x \in Call |-> CASE x = c -> at
                      [] x # c /\ x = outer[c] -> "produce"
                      [] OTHER -> pc[x]]

NotifyReady(c) ==
    /\ pc[c] = "notify"
    /\ pc' = WakeAll(c, Resume(c, "held"))
    /\ UNCHANGED <<store, frame, ent, unwinding>>

Joined(e) == [refs EXCEPT ![e] = @ + 1]

InspectReady(c) ==
    /\ pc[c] = "inspect"
    /\ status[ent[c]] = "ready"
    /\ refs' = Joined(ent[c])
    /\ pc' = Resume(c, "held")
    /\ UNCHANGED <<index, status, frame, ent, unwinding>>

InspectWait(c) ==
    /\ pc[c] = "inspect"
    /\ status[ent[c]] = "initializing"
    /\ runner[ent[c]] # runner[c]
    /\ pc' = [pc EXCEPT ![c] = "asleep"]
    /\ UNCHANGED <<store, frame, ent, unwinding>>

(* "reentrant cache initialization": the panic unwinds into the producer. *)
InspectReentry(c) ==
    /\ pc[c] = "inspect"
    /\ status[ent[c]] = "initializing"
    /\ runner[ent[c]] = runner[c]
    /\ pc' = [x \in Call |-> CASE x = c -> "done"
                               [] x # c /\ x = outer[c] -> "abandon"
                               [] OTHER -> pc[x]]
    /\ unwinding' = unwinding \cup {runner[c]}
    /\ UNCHANGED <<store, frame, ent>>

InspectRemoved(c) ==
    /\ pc[c] = "inspect"
    /\ status[ent[c]] = "removed"
    /\ pc' = [pc EXCEPT ![c] = "lookup"]
    /\ UNCHANGED <<store, frame, ent, unwinding>>

(* Condvar::wait may return without a notification. *)
SpuriousWake(c) ==
    /\ pc[c] = "asleep"
    /\ pc' = [pc EXCEPT ![c] = "inspect"]
    /\ UNCHANGED <<store, frame, ent, unwinding>>

----------------------------------------------------------------------------
(* Initialization::drop, when the producer failed *)

remove_entry(k, e) == [index EXCEPT ![k] = IF @ = e THEN Nil ELSE @]

Abandon(c) ==
    /\ pc[c] = "abandon"
    /\ index' = remove_entry(key[c], c)
    /\ pc' = [pc EXCEPT ![c] = "markRemoved"]
    /\ UNCHANGED <<status, refs, frame, ent, unwinding>>

MarkRemoved(c) ==
    /\ pc[c] = "markRemoved"
    /\ status' = [status EXCEPT ![c] = "removed"]
    /\ pc' = [pc EXCEPT ![c] = "failNotify"]
    /\ UNCHANGED <<index, refs, frame, ent, unwinding>>

(* A panic goes on unwinding into the producer that nested the call. *)
FailNotify(c) ==
    /\ pc[c] = "failNotify"
    /\ pc' = WakeAll(c,
                [x \in Call |->
                    CASE x = c -> "done"
                      [] x # c /\ x = outer[c] ->
                            IF runner[c] \in unwinding THEN "abandon" ELSE "produce"
                      [] OTHER -> pc[x]])
    /\ unwinding' = IF outer[c] = Nil THEN unwinding \ {runner[c]} ELSE unwinding
    /\ UNCHANGED <<store, frame, ent>>

----------------------------------------------------------------------------
(* release: dropping a lease, on any thread *)

StartRelease(c, t) ==
    /\ pc[c] = "held"
    /\ ~Busy(t)
    /\ runner' = [runner EXCEPT ![c] = t]
    /\ pc' = [pc EXCEPT ![c] = "relLookup"]
    /\ UNCHANGED <<store, key, outer, ent, unwinding>>

(* The lease names its key only: the entry is whatever the index now holds. *)
ReleaseLookup(c) ==
    /\ pc[c] = "relLookup"
    /\ ent' = [ent EXCEPT ![c] = index[key[c]]]
    /\ pc' = [pc EXCEPT ![c] = IF index[key[c]] = Nil THEN "done" ELSE "relDrop"]
    /\ UNCHANGED <<store, frame, unwinding>>

(* Mutant: the entry goes with the last reference but one. *)
WasLastEarly(n) == n <= 1 /\ ~DisableDeletion
WasLast(n) == n <= 0 /\ ~DisableDeletion

ReleaseDrop(c) ==
    LET e == ent[c]
        last == WasLast(refs[e] - 1)
    IN  /\ pc[c] = "relDrop"
        /\ IF status[e] # "ready"
             THEN /\ pc' = [pc EXCEPT ![c] = "done"]
                  /\ UNCHANGED store
             ELSE /\ refs' = [refs EXCEPT ![e] = @ - 1]
                  /\ status' = [status EXCEPT ![e] = IF last THEN "removed" ELSE @]
                  /\ index' = IF last THEN remove_entry(key[c], e) ELSE index
                  /\ pc' = [pc EXCEPT ![c] = IF last THEN "relNotify" ELSE "done"]
        /\ UNCHANGED <<frame, ent, unwinding>>

ReleaseNotify(c) ==
    /\ pc[c] = "relNotify"
    /\ pc' = WakeAll(ent[c], [pc EXCEPT ![c] = "done"])
    /\ UNCHANGED <<store, frame, ent, unwinding>>

----------------------------------------------------------------------------
(* What the thread of a started call does next, the producer's choice aside. *)
Internal(c) ==
    \/ LookupOccupied(c) \/ LookupVacant(c) \/ Commit(c) \/ NotifyReady(c)
    \/ InspectReady(c) \/ InspectWait(c) \/ InspectReentry(c) \/ InspectRemoved(c)
    \/ Abandon(c) \/ MarkRemoved(c) \/ FailNotify(c)
    \/ ReleaseLookup(c) \/ ReleaseDrop(c) \/ ReleaseNotify(c)

Produce(c) == ProduceOk(c) \/ \E panics \in BOOLEAN : ProduceFail(c, panics)

Finished == (\A c \in Call : pc[c] = "done") /\ UNCHANGED vars

Next ==
    \/ \E c \in Call : Internal(c) \/ Produce(c) \/ SpuriousWake(c)
    \/ \E c \in Call, k \in Key, t \in Thread : StartAcquire(c, k, t)
    \/ \E p \in Call, c \in Call, k \in Key : NestedAcquire(p, c, k)
    \/ \E c \in Call, t \in Thread : StartRelease(c, t)
    \/ Finished

Spec == Init /\ [][Next]_vars

(* The operating system runs every thread, and a producer returns. *)
FairSpec ==
    /\ Spec
    /\ \A c \in Call : WF_vars(Internal(c)) /\ SF_vars(Produce(c))
----------------------------------------------------------------------------
(* Properties *)

(* Every variable stays within its type; the signed reference count in
   particular never goes below zero. *)
TypeOK ==
    /\ index \in [Key -> Call \cup {Nil}]
    /\ status \in [Call -> Status]
    /\ refs \in [Call -> Nat]
    /\ pc \in [Call -> PC]
    /\ key \in [Call -> Key \cup {Nil}]
    /\ ent \in [Call -> Call \cup {Nil}]
    /\ runner \in [Call -> Thread \cup {Nil}]
    /\ outer \in [Call -> Call \cup {Nil}]
    /\ unwinding \subseteq Thread

(* Where a call owns one of its entry's references. *)
Claiming == {"notify", "held", "relLookup", "relDrop"}
Claims(e) == {c \in Call : ent[c] = e /\ pc[c] \in Claiming}

(* A lease records only its key, and release() trusts the index to name the
   entry it was taken from: while a lease is outstanding that entry stays
   indexed under its key and Ready, so a release never drops a reference of
   somebody else's entry and a leased file is never evicted. *)
LeaseNamesItsEntry ==
    \A c \in Call :
        pc[c] \in Claiming =>
            /\ index[key[c]] = ent[c]
            /\ status[ent[c]] = "ready"

(* The reference count of a Ready entry is the number of leases on it, the
   ones being returned or released included, under every interleaving. *)
ReferencesAreLeases ==
    \A e \in Call : status[e] = "ready" => refs[e] = Cardinality(Claims(e))

(* "same key initializes once": no two producers run for one key at a time. *)
OneProducerPerKey ==
    \A c, d \in Call :
        /\ pc[c] \in {"produce", "nested", "commit"}
        /\ pc[d] \in {"produce", "nested", "commit"}
        /\ key[c] = key[d]
        => c = d

(* A waiter sleeps only while its entry initialises, or while the thread that
   changed the entry's state has yet to notify: no wake-up is lost. *)
NoLostWakeup ==
    \A c \in Call :
        pc[c] = "asleep" =>
            \/ status[ent[c]] = "initializing"
            \/ \E d \in Call :
                  /\ pc[d] \in {"notify", "failNotify", "relNotify"}
                  /\ ent[d] = ent[c]

(* When no call is running and no lease is held, failures, panics and releases
   have left no entry behind, unless the cache was told to retain entries,
   which are then all Ready and unreferenced. *)
NothingLeaks ==
    (\A c \in Call : pc[c] \in {"new", "done"}) =>
        \A k \in Key :
            index[k] # Nil =>
                DisableDeletion /\ status[index[k]] = "ready" /\ refs[index[k]] = 0

(* Leases and entries agree: every lease counts, for the entry it was taken
   from, which was made once and goes with its last lease. *)
LeasesHold ==
    LeaseNamesItsEntry /\ ReferencesAreLeases /\ OneProducerPerKey /\ NothingLeaks

(* A thread inside the cache comes back: its acquisition returns a lease or an
   error and its release ends, as long as producers nest in one key order. *)
CallsReturn ==
    \A c \in Call : (pc[c] \notin AtRest) ~> (pc[c] \in AtRest)
=============================================================================
