---------------------------- MODULE WatchManager ----------------------------
(***************************************************************************)
(* Watch registrations (crates/tsr_project/src/watch.rs, watch/manager.rs).*)
(* Every published snapshot has a set of watches, one per key, each with   *)
(* the globs it needs, and the session has one more set with the watch for *)
(* auto-imports.  For every publication two background threads, one for    *)
(* each set, compare the old set with the new one, count the globs in a    *)
(* registry and register the first use of a glob, and unregister the last, *)
(* with the client.  All these threads may overlap.                        *)
(*                                                                         *)
(* The client is the native watcher (crates/tsr_lsp/src/watcher.rs), which *)
(* refuses an identity it has and one it does not have.  A thread is the   *)
(* list of steps it has to do, each a section of the registry's lock or a  *)
(* call of the client.  A glob is a number and its kind is left out:       *)
(* every watch has ALL_CHANGES.                                            *)
(***************************************************************************)
EXTENDS Naturals, Sequences, FiniteSets, SequencesExt

CONSTANTS Nil,
          NKeys, NGlobs,   \* keys and globs are 1 .. n, in the order of their maps
          Typings,         \* the keys of typings watches, which all have one name
          Inputs,          \* the sets of globs a watch of a snapshot may need
          AutoInputs,      \* the sets of globs the auto-import watch may need
          MaxUpdates,      \* bound on the snapshots published
          Overlap,         \* bound on the snapshots that may follow before the last updates have ended
          Faults,          \* how a call may fail: "lost" did nothing, "late" did its work
          MaxFaults        \* bound on the updates with such a call

Key == 1 .. NKeys
Auto == NKeys + 1          \* "auto-import"
Glob == 1 .. NGlobs

ASSUME WatchAssumption ==
    /\ NKeys \in Nat /\ NGlobs \in Nat /\ MaxUpdates \in Nat /\ MaxFaults \in Nat
    /\ Typings \subseteq Key /\ Inputs \cup AutoInputs \subseteq SUBSET Glob
    /\ Overlap \in Nat /\ Faults \subseteq {"lost", "late"}

VARIABLES
    made,       \* the WatchedFiles made so far: name, globs, previous globs, and the id once computed
    shown,      \* the WatchSet of the published snapshot and auto_import_watches: the index
                \* of a WatchedFiles for each key
    nextId,     \* NEXT_WATCHER
    entries,    \* RegistryState.entries: the identity and count of every glob
    retry,      \* RegistryState.pending
    client,     \* the watches of the client: glob by identity
    todo,       \* the steps of every update
    update,     \* old and new WatchSet of every update, and what its update_watch has acquired
    stopped,    \* whether stop() was called
    calm,       \* history: updates ran one at a time, and those of each set in order
    failures    \* history: the updates with a registration that timed out or was refused

registry == <<entries, retry>>
vars == <<made, shown, nextId, registry, client, todo, update, stopped, calm, failures>>

Absent == [id |-> Nil, count |-> 0]

Init ==
    /\ made = <<>>
    /\ shown = [k \in Key \cup {Auto} |-> Nil]
    /\ nextId = 1
    /\ entries = [g \in Glob |-> Absent]
    /\ retry = {}
    /\ client = <<>>
    /\ todo = <<>> /\ update = <<>>
    /\ stopped = FALSE
    /\ calm = TRUE /\ failures = {}

Update == DOMAIN todo
Active(u) == todo[u] # <<>>
Idle == \A u \in Update : ~Active(u)
At(u, op) == todo[u] # <<>> /\ Head(todo[u])[1] = op
Running(u) == Active(u) /\ ~At(u, "start")
Arg(u, i) == Head(todo[u])[i]
Then(u, steps) == todo' = [todo EXCEPT ![u] = steps \o Tail(@)]
(* The present step is done, and another one is put behind the steps of these
   two kinds that follow. *)
Later(u, step) ==
    LET rest == Tail(todo[u])
        kinds == {Head(todo[u])[1], step[1]}
        n == CHOOSE i \in 0 .. Len(rest) :
               /\ \A j \in 1 .. i : rest[j][1] \in kinds
               /\ i < Len(rest) => rest[i + 1][1] \notin kinds
    IN  todo' = [todo EXCEPT ![u] = InsertAt(rest, n + 1, step)]
----------------------------------------------------------------------------
(* WatchedFiles *)

(* The name a watch is made with *)
Name(k) == IF k \in Typings THEN 0 ELSE k

(* with_input(): the globs last computed are the ones to compare with. *)
WithInput(w, k, globs) ==
    [name |-> Name(k), globs |-> globs, id |-> Nil,
     prev |-> CASE w = Nil -> {}
                [] w # Nil /\ made[w].id # Nil -> made[w].globs
                [] OTHER -> made[w].prev]

(* watchers(): the identity is the name, with a new number if the globs are
   new, and zero if not.  It is computed by whoever asks first; ws are asked
   for in this order. *)
Identified(ws) ==
    LET fresh == {i \in 1 .. Len(ws) : made[ws[i]].id = Nil}
        new == {i \in fresh : made[ws[i]].globs # made[ws[i]].prev}
        number(i) == IF i \in new THEN nextId + Cardinality({j \in new : j < i}) ELSE 0
    IN  /\ made' = [w \in DOMAIN made |->
                      IF \E i \in fresh : ws[i] = w
                        THEN [made[w] EXCEPT !.id = <<made[w].name, number(CHOOSE i \in fresh : ws[i] = w)>>]
                        ELSE made[w]]
        /\ nextId' = nextId + Cardinality(new)

Globs(w) == SetToSortSeq(made[w].globs, <)
(* The identity of the i-th watcher *)
Watcher(w, i) == Append(made[w].id, i)
----------------------------------------------------------------------------
(* A snapshot is published: any of its keys have other input, are new or are
   gone.  Its watches and those for auto-imports, which are made with the input
   they have by now, go to a thread each. *)

Known(k) == made[shown[k]]
Sorted(K) == SetToSortSeq(K, <)
(* The watches of the keys K, after these changes *)
Next_(K, gone, changed) ==
    [k \in K |-> IF k \in gone THEN Nil
                 ELSE LET i == SelectInSeq(changed, LAMBDA x : x = k)
                      IN  IF i > 0 THEN Len(made) + i ELSE shown[k]]
Enqueued(old, new) == [old |-> old, new |-> new, got |-> {}, failed |-> FALSE]

Publish(gone, globs, auto) ==
    LET input == [k \in DOMAIN globs \cup {Auto} |-> IF k = Auto THEN auto ELSE globs[k]]
        changed == Sorted(DOMAIN input)
        next == Next_(Key \cup {Auto}, gone, changed)
        only(K, f) == [k \in K |-> f[k]]
    IN  /\ ~stopped /\ Len(todo) < 2 * MaxUpdates /\ (Len(todo) < 2 * Overlap \/ Idle)
        /\ gone \subseteq {k \in Key : shown[k] # Nil}
        /\ made' = made \o [i \in 1 .. Len(changed) |->
                              WithInput(shown[changed[i]], changed[i], input[changed[i]])]
        /\ shown' = next
        /\ update' = update \o <<Enqueued(only(Key, shown), only(Key, next)),
                                 Enqueued(only({Auto}, shown), only({Auto}, next))>>
        /\ todo' = todo \o << << <<"start">> >>, << <<"start">> >> >>
        /\ UNCHANGED <<nextId, registry, client, stopped, calm, failures>>
----------------------------------------------------------------------------
(* WatchManager::update *)

Keys(u) == DOMAIN update[u].new
Old(u, k) == update[u].old[k]
New(u, k) == update[u].new[k]

InTurn(u) == \A v \in Update \ {u} : ~Running(v) /\ (v < u /\ Keys(v) = Keys(u) => ~Active(v))

(* The thread does nothing when the token is cancelled by then. *)
Start(u) ==
    LET kept == Sorted({k \in Keys(u) : New(u, k) # Nil})
        gone == Sorted({k \in Keys(u) : New(u, k) = Nil /\ Old(u, k) # Nil})
    IN  /\ At(u, "start")
        /\ calm' = (calm /\ InTurn(u))
        /\ Then(u, IF stopped THEN <<>>
                   ELSE [i \in 1 .. Len(kept) |-> <<"compare", kept[i]>>]
                        \o [i \in 1 .. Len(gone) |-> <<"drop", gone[i]>>])
        /\ UNCHANGED <<made, shown, nextId, registry, client, update, stopped, failures>>

(* The steps of update_watch(old, new) *)
Acquiring(w) == [i \in 1 .. Cardinality(made[w].globs) |-> <<"acquire", w, i>>] \o << <<"settle", w>> >>
(* Mutant: what the old snapshot alone needed is kept. *)
ReleasingNothing(w) == <<>>
Releasing(w) == IF w = Nil THEN <<>>
                ELSE [i \in 1 .. Cardinality(made[w].globs) |-> <<"release", w, i>>]
(* Mutant: the old globs are released before the new ones are acquired. *)
BreakFirst(old, new) == Releasing(old) \o Acquiring(new)
UpdateWatch(old, new) == Acquiring(new) \o Releasing(old)

Unchanged(w) == IF made'[w].id \in retry THEN UpdateWatch(Nil, w) ELSE <<>>

Compare(u) ==
    LET k == Arg(u, 2)
        old == Old(u, k)
        new == New(u, k)
    IN  /\ At(u, "compare")
        /\ Identified(IF old = Nil THEN <<new>> ELSE <<old, new>>)
        /\ Then(u, IF old = Nil \/ made'[old].id # made'[new].id
                     THEN UpdateWatch(old, new)
                     ELSE Unchanged(new))
        /\ UNCHANGED <<shown, registry, client, update, stopped, calm, failures>>

Drop(u) ==
    LET old == Old(u, Arg(u, 2))
    IN  /\ At(u, "drop")
        /\ Identified(<<old>>)
        /\ Then(u, Releasing(old))
        /\ UNCHANGED <<shown, registry, client, update, stopped, calm, failures>>
----------------------------------------------------------------------------
(* WatchManager::update_watch and the registry *)

(* WatchRegistry::acquire; only the first use of a glob is registered. *)
Acquire(u) ==
    LET w == Arg(u, 2)
        i == Arg(u, 3)
        g == Globs(w)[i]
        first == entries[g].count = 0
    IN  /\ At(u, "acquire")
        /\ entries' = [entries EXCEPT ![g] = [id |-> IF first THEN Watcher(w, i) ELSE @.id,
                                              count |-> @.count + 1]]
        /\ IF first THEN Later(u, <<"watch", Watcher(w, i), g>>) ELSE Then(u, <<>>)
        /\ update' = [update EXCEPT ![u].got = IF first THEN @ \cup {g} ELSE @]
        /\ UNCHANGED <<made, shown, nextId, retry, client, stopped, calm, failures>>

(* WatchRegistry::release *)
Released(g) ==
    entries' = [entries EXCEPT ![g] = IF @.count > 1 THEN [@ EXCEPT !.count = @ - 1] ELSE Absent]

(* How a call ends: it may time out, and it does once the manager has stopped. *)
Outcome(u) ==
    CASE stopped -> {"lost"}
      [] ~stopped /\ Cardinality({v \in Update \ {u} : <<v, "fault">> \in failures}) < MaxFaults -> {"ok"} \cup Faults
      [] OTHER -> {"ok"}

Recorded(u, outcome, known) ==
    failures' = failures \cup (IF outcome = "ok" THEN {} ELSE {<<u, "fault">>})
                         \cup (IF known THEN {<<u, "refused">>} ELSE {})

(* watch_files; "watcher already exists" *)
Watch(u, outcome) ==
    LET id == Arg(u, 2)
        known == id \in DOMAIN client
    IN  /\ At(u, "watch") /\ outcome \in Outcome(u)
        /\ client' = IF known \/ outcome = "lost" THEN client
                     ELSE [x \in DOMAIN client \cup {id} |-> IF x = id THEN Arg(u, 3) ELSE client[x]]
        /\ update' = [update EXCEPT ![u].failed = @ \/ known \/ outcome # "ok"]
        /\ Recorded(u, outcome, known)
        /\ Then(u, <<>>)
        /\ UNCHANGED <<made, shown, nextId, registry, stopped, calm>>

(* Mutant: the globs of a failed watch stay counted. *)
Marking(w, got) == << <<"mark", w>> >>
RollingBack(w, got) == [i \in 1 .. Len(got) |-> <<"rollback", got[i]>>] \o << <<"mark", w>> >>

(* Either the watch is registered, or all that was acquired for it is released
   and the watch is to be tried again. *)
Settle(u) ==
    LET w == Arg(u, 2)
    IN  /\ At(u, "settle")
        /\ update' = [update EXCEPT ![u].got = {}, ![u].failed = FALSE]
        /\ IF update[u].failed
             THEN /\ Then(u, RollingBack(w, SetToSortSeq(update[u].got, <)))
                  /\ UNCHANGED retry
             ELSE Then(u, <<>>) /\ retry' = retry \ {made[w].id}
        /\ UNCHANGED <<made, shown, nextId, entries, client, stopped, calm, failures>>

Rollback(u) ==
    /\ At(u, "rollback")
    /\ Released(Arg(u, 2))
    /\ Then(u, <<>>)
    /\ UNCHANGED <<made, shown, nextId, retry, client, update, stopped, calm, failures>>

Mark(u) ==
    /\ At(u, "mark")
    /\ retry' = retry \cup {made[Arg(u, 2)].id}
    /\ Then(u, <<>>)
    /\ UNCHANGED <<made, shown, nextId, entries, client, update, stopped, calm, failures>>

(* Mutant: an entry is unregistered while others count on it. *)
LastAlways(g) == entries[g].count > 0
LastUse(g) == entries[g].count = 1

Release(u) ==
    LET g == Globs(Arg(u, 2))[Arg(u, 3)]
    IN  /\ At(u, "release")
        /\ Released(g)
        /\ IF LastUse(g) THEN Later(u, <<"unwatch", entries[g].id>>) ELSE Then(u, <<>>)
        /\ UNCHANGED <<made, shown, nextId, retry, client, update, stopped, calm, failures>>

(* unwatch_files; an error is only reported. *)
Unwatch(u, outcome) ==
    LET id == Arg(u, 2)
    IN  /\ At(u, "unwatch") /\ outcome \in Outcome(u)
        /\ client' = IF outcome = "lost" THEN client ELSE [x \in DOMAIN client \ {id} |-> client[x]]
        /\ Recorded(u, outcome, FALSE)
        /\ Then(u, <<>>)
        /\ UNCHANGED <<made, shown, nextId, registry, update, stopped, calm>>

(* WatchManager::stop cancels the token and the calls under way. *)
Stop ==
    /\ ~stopped
    /\ stopped' = TRUE
    /\ UNCHANGED <<made, shown, nextId, registry, client, todo, update, calm, failures>>
----------------------------------------------------------------------------
Step(u) ==
    \/ Start(u) \/ Compare(u) \/ Drop(u) \/ Acquire(u) \/ Settle(u)
    \/ Rollback(u) \/ Mark(u) \/ Release(u)
    \/ (\E outcome \in {"ok", "lost", "late"} : Watch(u, outcome) \/ Unwatch(u, outcome))

Rest == Idle /\ UNCHANGED vars

Next ==
    \/ \E gone \in SUBSET Key, auto \in AutoInputs :
          \E K \in SUBSET (Key \ gone) : \E globs \in [K -> Inputs] : Publish(gone, globs, auto)
    \/ \E u \in Update : Step(u)
    \/ Stop \/ Rest

Spec == Init /\ [][Next]_vars
----------------------------------------------------------------------------
(* Properties *)

Wants(k, g) == shown[k] # Nil /\ g \in Known(k).globs
Users(g) == Cardinality({k \in Key \cup {Auto} : Wants(k, g)})
(* The client watches the glob under the identity the registry has for it. *)
Watched(g) == entries[g].id \in DOMAIN client /\ client[entries[g].id] = g

(* Updates that run one at a time, with a client that answers, are exact: when
   they have ended every glob is counted once for every watch that needs it,
   and the client watches these globs, each once, and no other. *)
FollowsSnapshots ==
    calm /\ Idle /\ ~stopped /\ failures = {} =>
        /\ \A g \in Glob : entries[g].count = Users(g)
        /\ \A g \in Glob : Users(g) > 0 => Watched(g)
        /\ Cardinality(DOMAIN client) = Cardinality({g \in Glob : Users(g) > 0})

(* As long as no registration fails, a glob that the last snapshot or its
   auto-imports need is watched once all updates have ended, in whatever order
   they ran and however their steps were mixed.  Watches of one name that are
   computed anew with unchanged globs share the identity zero: the property is
   for those that mean the same by it. *)
OneMeaning ==
    \A v, w \in DOMAIN made :
        made[v].id # Nil /\ made[v].id = made[w].id => made[v].globs = made[w].globs
NeededIsWatched ==
    Idle /\ ~stopped /\ failures = {} /\ OneMeaning
        => \A k \in DOMAIN shown, g \in Glob : Wants(k, g) => Watched(g)

(* As long as updates run one at a time the registry counts, between them, no
   glob that the client does not watch, whatever calls failed: an update that
   could not register all the globs of a watch leaves none behind. *)
CountedIsWatched ==
    calm /\ ~stopped /\ (\A u \in Update : ~Running(u)) =>
        \A g \in Glob : entries[g].count > 0 => Watched(g)

(* A glob that the old set and the new one need is watched all through the
   update from one to the other, if a key that needs it now comes no later in
   the order of the keys than one that needed it, or that one is gone.  (A glob
   that moves on to a later key is released before that key acquires it.) *)
HandedOn(u, g) ==
    \E o, n \in Keys(u) :
        /\ Old(u, o) # Nil /\ g \in made[Old(u, o)].globs
        /\ New(u, n) # Nil /\ g \in made[New(u, n)].globs
        /\ n <= o \/ New(u, o) = Nil
NoGap ==
    calm /\ ~stopped /\ failures = {} =>
        \A u \in Update, g \in Glob : Running(u) /\ HandedOn(u, g) => Watched(g)

(* "The next snapshot retries the same IDs": an update in which no call fails
   makes up for those that failed before it. *)
RetryRecovers ==
    calm /\ Idle /\ ~stopped /\ (\A u \in {Len(todo) - 1, Len(todo)} : <<u, "fault">> \notin failures) =>
        \A k \in DOMAIN shown, g \in Glob : Wants(k, g) => entries[g].count > 0 /\ Watched(g)
=============================================================================
