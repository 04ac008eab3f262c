----------------------------- MODULE MCSession -----------------------------
(* Small instances of Session for TLC. *)
EXTENDS Session, TLC

CONSTANTS disp, api, native

(* The dispatcher of the language server, a client of the API and the native
   file watcher *)
Clients ==
    disp :> {"change", "close", "apply", "shut"} @@ api :> {"flush"} @@ native :> {"watch"}

(* Bound: the last call is made before a timer fires, or after one change at
   most was admitted. *)
TimersOrCalls == count.calls = MaxCalls => count.fires = 0 \/ count.changes <= 1

(* A client that opens a file while the watcher reports it *)
OpenAndWatch == disp :> {"open"} @@ native :> {"watch"}
=============================================================================
