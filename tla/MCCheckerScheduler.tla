------------------------- MODULE MCCheckerScheduler -------------------------
(* Small instances of CheckerScheduler for TLC. *)
EXTENDS CheckerScheduler, TLC

CONSTANTS r1, f1

(* An operation, or a checker's initialisation, acquires in its own class. *)
OwnClass == {<<"temporary", "temporary">>, <<"init", "temporary">>}

(* One request that alternates between the classes, an unrelated query of the
   same file, and the API. *)
Mixed == {<<"temporary", r1, f1>>, <<"diagnostics", r1, Nil>>, <<"temporary", Nil, f1>>,
          <<"api", r1, Nil>>}

(* Bounds: while a call is left to make, everything fails, with a panic or
   discard() but not both, and either the clock runs, one panic apart, or the API
   has checkouts, and the calls are for its slot; all the calls are made for
   query checkers, at one time and without faults. *)
FewCalls == \E c \in Call : call[c] = Nil
NoPins == \A x \in Direct : pins[x] = "new"
Faultless == active /\ ~timing.discarded /\ \A i \in Slots : cell[i] # "failed"
Clock == FewCalls /\ NoPins /\ (active \/ (~timing.discarded /\ now = 0))
Pins == /\ FewCalls /\ now = 0 /\ ~timing.discarded
        /\ \A c \in Call : call[c] # Nil => call[c].life = "api"
Calls == /\ NoPins /\ now = 0 /\ Faultless
         /\ \A c \in Call : call[c] # Nil => call[c].life = "temporary"
ClockPinsOrCalls == Clock \/ Pins \/ Calls

Symmetry == Permutations(Thread) \cup Permutations(Call) \cup Permutations(Cleaner)
            \cup Permutations(Direct)
=============================================================================
