--------------------------- MODULE MCWatchManager ---------------------------
(* A small instance of WatchManager for TLC. *)
EXTENDS WatchManager

(* Bounds: two threads run at a time; calls fail, and the third snapshot
   comes, only while updates are made one by one; the manager stops during the
   first updates. *)
Bounds ==
    /\ Cardinality({u \in Update : Running(u)}) <= 2
    /\ stopped => Len(todo) <= 2
    /\ calm \/ failures = {}
    /\ Len(todo) > 4 => calm /\ failures = {}
=============================================================================
