----------------------------- MODULE OwnerCache -----------------------------
(***************************************************************************)
(* The cache of extended configurations                                    *)
(* (crates/tsr_project/src/owner_cache.rs) with the ownership that each    *)
(* session snapshot keeps in it                                            *)
(* (crates/tsr_project/src/extended_config.rs).                            *)
(*                                                                         *)
(* A step is one section of the index lock, of an entry's lock or of an    *)
(* owner's key lock; the index lock nested in an entry's lock is part of   *)
(* the same step.  A call is one get_extended_config, inherit, retain or   *)
(* drop.  Entries are Arc<Entry>, compared by address; an address nobody   *)
(* refers to can be used again.                                            *)
(***************************************************************************)
EXTENDS Naturals, FiniteSets

CONSTANTS Thread, Key, Owner, Call, Entry, Nil,
          Extends,       \* key -> the keys its config extends
          Names,         \* key -> keys of its config's extended_file_names(), transitive
          Faults         \* which of "error", "panic" a parse may end with

(* What a call was asked to do: for which owner, for inherit from which one,
   inside the parse of which call and around which keys. *)
Job == [thread : Thread, mode : {"load", "extend", "inherit", "release"}, owner : Owner,
        from : Owner \cup {Nil}, outer : Call \cup {Nil}, stack : SUBSET Key]

ASSUME NilAssumption == Nil \notin Thread \cup Key \cup Owner \cup Call \cup Entry \cup Job
ASSUME ExtendsAssumption ==
    /\ Extends \in [Key -> SUBSET Key] /\ Names \in [Key -> SUBSET Key]
    /\ \A k \in Key : Extends[k] \subseteq Names[k]

VARIABLES index,     \* OwnerCache.entries: key -> entry or Nil
          entry,     \* entry -> its State
          life,      \* of an owner: "none", "live", "gone"
          keys,      \* ConfigOwnership.keys
          pc,        \* where a call is
          job,       \* what a call was asked to do
          cur,       \* the key a call works on
          ent,       \* the entry a call works on
          todo,      \* keys a call has yet to work on
          panicking  \* calls a panic is unwinding

ownerVars == <<life, keys>>
vars == <<index, entry, ownerVars, pc, job, cur, ent, todo, panicking>>

Blank == [value |-> FALSE, owners |-> {}, busy |-> Nil, removed |-> FALSE]

Init ==
    /\ index = [k \in Key |-> Nil]
    /\ entry = [e \in Entry |-> Blank]
    /\ life = [o \in Owner |-> "none"]
    /\ keys = [o \in Owner |-> {}]
    /\ pc = [c \in Call |-> "new"]
    /\ job = [c \in Call |-> Nil]
    /\ cur = [c \in Call |-> Nil]
    /\ ent = [c \in Call |-> Nil]
    /\ todo = [c \in Call |-> {}]
    /\ panicking = {}

AtRest == {"new", "done"}
Running(c) == pc[c] \notin AtRest
Occupied(t) == \E c \in Call : Running(c) /\ job[c].thread = t
Uses(c, o) == Running(c) /\ o \in {job[c].owner, job[c].from}
Goto(c, p) == [pc EXCEPT ![c] = p]
(* Calls are alike, so they are made in a fixed order. *)
Unused(c) == pc[c] = "new" /\ c = CHOOSE x \in Call : pc[x] = "new"
(* Addresses are only compared, so which free one is taken makes no difference;
   Entry is large enough for one to be free whenever an entry is made. *)
Free == {e \in Entry : (\A k \in Key : index[k] # e) /\ (\A c \in Call : ent[c] # e)}
----------------------------------------------------------------------------
(* The session's calls *)

Start(c, t, mode, o, from, keyset) ==
    /\ ~Occupied(t)
    /\ Unused(c)
    /\ pc' = Goto(c, "next")
    /\ job' = [job EXCEPT ![c] = [thread |-> t, mode |-> mode, owner |-> o, from |-> from,
                                  outer |-> Nil, stack |-> {}]]
    /\ todo' = [todo EXCEPT ![c] = keyset]
    /\ UNCHANGED <<index, entry, cur, ent, panicking>>

(* get_extended_config, for a live snapshot being built *)
StartLoad(c, t, o, k) ==
    /\ life[o] = "live"
    /\ \A d \in Call : Uses(d, o) => job[d].mode \in {"load", "extend"}
    /\ Start(c, t, "load", o, Nil, {k})
    /\ UNCHANGED ownerVars

(* Parsing a configuration loads the ones it extends, except those that are
   being parsed around it: these are a circularity and bypass the cache
   (tsr_tsoptions, get_extended_config). *)
NestedLoad(p, c, k) ==
    LET stack == job[p].stack \cup {cur[p]}
    IN  /\ pc[p] = "parse" /\ Unused(c)
        /\ k \in Extends[cur[p]] \ stack
        /\ job' = [job EXCEPT ![c] = [job[p] EXCEPT !.outer = p, !.stack = stack]]
        /\ todo' = [todo EXCEPT ![c] = {k}]
        /\ pc' = [pc EXCEPT ![p] = "nested", ![c] = "next"]
        /\ UNCHANGED <<index, entry, ownerVars, cur, ent, panicking>>

(* ConfigOwnership::new *)
NewOwner(o) ==
    /\ life[o] = "none"
    /\ life' = [life EXCEPT ![o] = "live"]
    /\ UNCHANGED <<index, entry, keys, pc, job, cur, ent, todo, panicking>>

(* inherit: "called while the preceding snapshot is still retained" *)
StartInherit(c, t, o, from) ==
    /\ o # from /\ life[o] = "live" /\ life[from] = "live"
    /\ \A d \in Call : ~Uses(d, o) /\ ~Uses(d, from)
    /\ Start(c, t, "inherit", o, from, keys[from])
    /\ UNCHANGED ownerVars

(* retain.  The key lock is held from here to the end, so the keys can be
   removed at once. *)
StartRetain(c, t, o, kept) ==
    /\ life[o] = "live" /\ kept # keys[o]
    /\ \A d \in Call : ~Uses(d, o)
    /\ Start(c, t, "release", o, Nil, keys[o] \ kept)
    /\ keys' = [keys EXCEPT ![o] = kept]
    /\ UNCHANGED life

(* ConfigOwnership::drop *)
StartDrop(c, t, o) ==
    /\ life[o] = "live"
    /\ \A d \in Call : ~Uses(d, o)
    /\ Start(c, t, "release", o, Nil, keys[o])
    /\ keys' = [keys EXCEPT ![o] = {}]
    /\ life' = [life EXCEPT ![o] = "gone"]

(* Back to the caller: a parse that nested the call goes on. *)
Returned(c, p) == [x \in Call |-> IF x = c THEN "done"
                                  ELSE IF x = job[c].outer THEN p ELSE pc[x]]
Forget(c) ==
    /\ job' = [job EXCEPT ![c] = Nil]
    /\ cur' = [cur EXCEPT ![c] = Nil]
    /\ ent' = [ent EXCEPT ![c] = Nil]
    /\ todo' = [todo EXCEPT ![c] = {}]
----------------------------------------------------------------------------
(* Finding an entry and waiting until it is not busy *)

(* An extended key the owner already has needs no further ownership. *)
Known(c, k) == job[c].mode = "extend" /\ k \in keys[job[c].owner]

Next_(c) ==
    /\ pc[c] = "next"
    /\ IF todo[c] # {}
         THEN \E k \in todo[c] :
                /\ cur' = [cur EXCEPT ![c] = k]
                /\ todo' = [todo EXCEPT ![c] = @ \ {k}]
                /\ pc' = Goto(c, IF Known(c, k) THEN "next" ELSE "lookup")
                /\ ent' = [ent EXCEPT ![c] = Nil]
                /\ UNCHANGED <<keys, job>>
         ELSE /\ keys' = IF job[c].mode = "inherit"
                           THEN [keys EXCEPT ![job[c].owner] = @ \cup keys[job[c].from]] ELSE keys
              /\ pc' = Returned(c, "parse")
              /\ Forget(c)
    /\ UNCHANGED <<index, entry, life, panicking>>

(* A missing entry is created by a load, an error for add_owner, and nothing
   to do for the others. *)
Lookup(c) ==
    /\ pc[c] = "lookup"
    /\ IF index[cur[c]] # Nil
         THEN /\ ent' = [ent EXCEPT ![c] = index[cur[c]]]
              /\ pc' = Goto(c, "wait")
              /\ UNCHANGED <<index, entry>>
         ELSE IF job[c].mode = "load"
         THEN LET e == CHOOSE x \in Free : TRUE
              IN  /\ Free # {}
                  /\ index' = [index EXCEPT ![cur[c]] = e]
                  /\ entry' = [entry EXCEPT ![e] = Blank]
                  /\ ent' = [ent EXCEPT ![c] = e]
                  /\ pc' = Goto(c, "wait")
         ELSE /\ pc' = Goto(c, IF job[c].mode = "inherit" THEN "noOwners" ELSE "next")
              /\ UNCHANGED <<index, entry, ent>>
    /\ UNCHANGED <<ownerVars, job, cur, todo, panicking>>

(* "initializer reentered its own entry" *)
Reenter(c) ==
    /\ pc[c] = "wait"
    /\ entry[ent[c]].busy = job[c].thread
    /\ pc' = Returned(c, "finish")
    /\ panicking' = (panicking \cup {job[c].outer}) \ {Nil}
    /\ Forget(c)
    /\ UNCHANGED <<index, entry, ownerVars>>

Sleep(c) ==
    /\ pc[c] = "wait"
    /\ entry[ent[c]].busy \in Thread \ {job[c].thread}
    /\ pc' = Goto(c, "asleep")
    /\ UNCHANGED <<index, entry, ownerVars, job, cur, ent, todo, panicking>>

SpuriousWake(c) ==
    /\ pc[c] = "asleep"
    /\ pc' = Goto(c, "wait")
    /\ UNCHANGED <<index, entry, ownerVars, job, cur, ent, todo, panicking>>

Idle(c, mode) == pc[c] = "wait" /\ entry[ent[c]].busy = Nil /\ job[c].mode \in mode
----------------------------------------------------------------------------
(* load_and_acquire *)

Gone(e) == entry[e].removed

Claim(c) ==
    /\ Idle(c, {"load"})
    /\ IF Gone(ent[c])
         THEN /\ pc' = Goto(c, "lookup")
              /\ UNCHANGED entry
         ELSE /\ entry' = [entry EXCEPT ![ent[c]].busy = job[c].thread]
              /\ pc' = Goto(c, "peek")
    /\ UNCHANGED <<index, ownerVars, job, cur, ent, todo, panicking>>

(* The cached value, if any, is current, or expired, or reading it fails. *)
Peek(c, verdict) ==
    /\ pc[c] = "peek"
    /\ ~entry[ent[c]].value => verdict = "parse"
    /\ pc' = Goto(c, verdict)
    /\ UNCHANGED <<index, entry, ownerVars, job, cur, ent, todo, panicking>>

Parse(c, outcome) ==
    /\ pc[c] = "parse"
    /\ pc' = Goto(c, IF outcome = "ok" THEN "store" ELSE "finish")
    /\ panicking' = IF outcome = "panic" THEN panicking \cup {c} ELSE panicking
    /\ UNCHANGED <<index, entry, ownerVars, job, cur, ent, todo>>

(* Mutant: the owner is not recorded with the entry. *)
WithoutOwner(e, o) == entry[e].owners
WithOwner(e, o) == entry[e].owners \cup {o}

Store(c) ==
    /\ pc[c] = "store"
    /\ entry' = [entry EXCEPT ![ent[c]].value = TRUE,
                              ![ent[c]].owners = WithOwner(ent[c], job[c].owner)]
    /\ pc' = Goto(c, "stored")
    /\ UNCHANGED <<index, ownerVars, job, cur, ent, todo, panicking>>

(* Mutant: nobody is notified. *)
WakeNobody(e, f) == f
WakeAll(e, f) == [x \in Call |-> IF f[x] = "asleep" /\ ent[x] = e THEN "wait" ELSE f[x]]

Removed(k, e) == [index EXCEPT ![k] = IF @ = e THEN Nil ELSE @]

(* Finish::drop.  A failed load of an entry without owners removes it.  An
   error or a panic returns to the parse around the load, and a panic unwinds
   that too. *)
Finish(c) ==
    LET e == ent[c]
        last == entry[e].owners = {}
    IN  /\ pc[c] \in {"stored", "finish"}
        /\ entry' = [entry EXCEPT ![e].busy = Nil, ![e].removed = last]
        /\ index' = IF last THEN Removed(cur[c], e) ELSE index
        /\ \/ /\ pc[c] = "stored"
              /\ pc' = WakeAll(e, Goto(c, "record"))
              /\ UNCHANGED <<job, cur, ent, todo, panicking>>
           \/ /\ pc[c] = "finish"
              /\ pc' = WakeAll(e, Returned(c, IF c \in panicking THEN "finish" ELSE "parse"))
              /\ panicking' = IF c \in panicking
                               THEN (panicking \cup {job[c].outer}) \ {Nil, c} ELSE panicking
              /\ Forget(c)
        /\ UNCHANGED ownerVars

(* Mutant: the key is not listed with the owner. *)
ListedNot(listed, k) == listed
Listed(listed, k) == listed \cup {k}

(* get_extended_config: the key joins the owner's, then the keys its config
   extends are owned too, if they still have an owner. *)
Record(c) ==
    /\ pc[c] = "record"
    /\ keys' = [keys EXCEPT ![job[c].owner] = Listed(@, cur[c])]
    /\ todo' = [todo EXCEPT ![c] = IF job[c].mode = "load" THEN Names[cur[c]] ELSE @]
    /\ job' = [job EXCEPT ![c].mode = "extend"]
    /\ pc' = Goto(c, "next")
    /\ UNCHANGED <<index, entry, life, cur, ent, panicking>>
----------------------------------------------------------------------------
(* try_add_owner, and add_owner, which asserts that it succeeds *)

AddOwner(c) ==
    /\ Idle(c, {"extend", "inherit"})
    /\ IF Gone(ent[c]) \/ entry[ent[c]].owners = {}
         THEN /\ pc' = Goto(c, IF job[c].mode = "inherit" THEN "noOwners" ELSE "next")
              /\ UNCHANGED entry
         ELSE /\ entry' = [entry EXCEPT ![ent[c]].owners = WithOwner(ent[c], job[c].owner)]
              /\ pc' = Goto(c, IF job[c].mode = "inherit" THEN "next" ELSE "record")
    /\ UNCHANGED <<index, ownerVars, job, cur, ent, todo, panicking>>

(* release *)
Release(c) ==
    LET e == ent[c]
        left == entry[e].owners \ {job[c].owner}
    IN  /\ Idle(c, {"release"})
        /\ IF Gone(e)
             THEN UNCHANGED <<index, entry>>
             ELSE /\ entry' = [entry EXCEPT ![e].owners = left, ![e].removed = (left = {})]
                  /\ index' = IF left = {} THEN Removed(cur[c], e) ELSE index
        /\ pc' = Goto(c, "next")
        /\ UNCHANGED <<ownerVars, job, cur, ent, todo, panicking>>
----------------------------------------------------------------------------
Parsing(c) == \E outcome \in {"ok"} \cup Faults : Parse(c, outcome)
Internal(c) ==
    \/ Next_(c) \/ Lookup(c) \/ Reenter(c) \/ Sleep(c) \/ Claim(c)
    \/ \E verdict \in {"store", "parse"} \cup (IF "error" \in Faults THEN {"finish"} ELSE {}) : Peek(c, verdict)
    \/ Store(c) \/ Finish(c) \/ Record(c) \/ AddOwner(c) \/ Release(c)

Finished ==
    /\ \A c \in Call : ~Running(c)
    /\ (\A c \in Call : pc[c] = "done") \/ (\A o \in Owner : life[o] = "gone")
    /\ UNCHANGED vars

Next ==
    \/ \E c \in Call : Internal(c) \/ Parsing(c) \/ SpuriousWake(c)
    \/ \E c \in Call, t \in Thread, o \in Owner, k \in Key : StartLoad(c, t, o, k)
    \/ \E p \in Call, c \in Call, k \in Key : NestedLoad(p, c, k)
    \/ \E o \in Owner : NewOwner(o)
    \/ \E c \in Call, t \in Thread, o \in Owner, from \in Owner : StartInherit(c, t, o, from)
    \/ \E c \in Call, t \in Thread, o \in Owner :
          \/ \E kept \in SUBSET keys[o] : StartRetain(c, t, o, kept)
          \/ StartDrop(c, t, o)
    \/ Finished

Spec == Init /\ [][Next]_vars
----------------------------------------------------------------------------
(* Properties *)

(* A removed entry never gets an owner again, so it is never used again. *)
RemovedIsUnowned == \A e \in Entry : entry[e].removed => entry[e].owners = {}

(* What an owner counts among its keys it owns in the cache: the entry is the
   one the index names, it has a value, and it stays until this owner lets go,
   however loads, failures, releases and re-creations interleave. *)
KeysAreOwned ==
    \A o \in Owner : \A k \in keys[o] :
        /\ index[k] # Nil
        /\ o \in entry[index[k]].owners
        /\ entry[index[k]].value /\ ~entry[index[k]].removed

(* "OwnerCache.AddOwner: entry has no owners" never fails in inherit(): the
   preceding snapshot's keys keep their owners while it is retained. *)
InheritFindsOwners == \A c \in Call : pc[c] # "noOwners"

(* Nobody owns an entry without knowing it: an owner of a live entry lists its
   key, or the call that will list it, or is releasing it, is still running.
   Otherwise a snapshot's drop would leave the entry behind for good. *)
OwnersKnow ==
    \A k \in Key :
        index[k] # Nil =>
            \A o \in entry[index[k]].owners :
                \/ k \in keys[o]
                \/ \E c \in Call : Uses(c, o) /\ (cur[c] = k \/ k \in todo[c])
                \/ \E c \in Call : Uses(c, o) /\ job[c].mode = "inherit"

(* Once no call runs, only owned entries are left, and every entry in the
   index is owned: failed loads leave nothing. *)
NothingLeaks ==
    (\A c \in Call : ~Running(c)) =>
        \A k \in Key : index[k] # Nil => entry[index[k]].owners # {}

(* Ownership is exact: what a snapshot owns it knows, what nobody owns is gone,
   and what it inherits is there. *)
OwnershipIsExact ==
    OwnersKnow /\ NothingLeaks /\ InheritFindsOwners /\ RemovedIsUnowned

(* "OwnerCache: initializer reentered its own entry" is never raised by loading
   configurations, whose circularities the parser reports as diagnostics. *)
NeverReenters ==
    \A c \in Call : pc[c] = "wait" => entry[ent[c]].busy # job[c].thread

(* A call sleeps only on an entry that is busy, whose end notifies it: also when
   the load fails, or the entry is removed and its address used again.  That the
   load does end is not said: two threads that load a circle in opposite orders
   sleep on each other's entries, and only SpuriousWake moves them, to no avail. *)
NoLostWakeup ==
    \A c \in Call : pc[c] = "asleep" => entry[ent[c]].busy \in Thread
=============================================================================
