---------------------------- MODULE DynamicQueue ----------------------------
(***************************************************************************)
(* The cancellable FIFO of the language server                             *)
(* (crates/tsr_lsp/src/dynamic_queue.rs) on top of the contexts of         *)
(* crates/tsr_ipc/src/context.rs.                                          *)
(*                                                                         *)
(* A context ends for err() as soon as it or an ancestor is cancelled;     *)
(* only later does the cancelling thread reach it, take its                *)
(* after-functions and run them.  A step is one section of the queue's or  *)
(* of a context's lock.                                                    *)
(***************************************************************************)
EXTENDS CancelableQueue

CONSTANT MaxItems   \* bound: no put starts while this many items are queued

ASSUME QueueAssumption ==
    /\ Capacity = Nil \/ Capacity \in Nat \ {0}
    /\ MaxItems \in Nat
    /\ Nil \notin Item \cup {"ok", "canceled"} \cup Calls

VARIABLES closed,  \* contexts whose after-functions were taken
          fn,      \* the caller's after-function: "none", "registered", "taken"
          pc       \* "idle", "begin", "register", "lock", "asleep", "leave"

vars == <<queueVars, closed, fn, pc>>

Init ==
    /\ Empty
    /\ closed = {}
    /\ fn = [p \in Proc |-> "none"]
    /\ pc = [p \in Proc |-> "idle"]

Goto(p, l) == [pc EXCEPT ![p] = l]

(* Mutant: nobody is notified. *)
NotifyNobody(f) == f
notify_all(f) == [q \in Proc |-> IF f[q] = "asleep" THEN "lock" ELSE f[q]]
----------------------------------------------------------------------------
(* put and get *)

Enter(p, request) ==
    /\ pc[p] = "idle"
    /\ request.op = "put" => Len(items) < MaxItems
    /\ Ask(p, request)
    /\ pc' = Goto(p, "begin")
    /\ UNCHANGED <<closed, fn>>

Finish(p) == pc' = notify_all(Goto(p, "leave")) /\ UNCHANGED <<closed, fn>>

(* A context that has ended is noticed before the queue is touched. *)
Begin(p) ==
    /\ pc[p] = "begin"
    /\ IF call[p].ctx \in ended
         THEN GiveUp(p) /\ pc' = Goto(p, "leave")
         ELSE UNCHANGED queueVars /\ pc' = Goto(p, "register")
    /\ UNCHANGED <<closed, fn>>

(* Mutant: the function is not registered. *)
NoFunction == "none"
Function == "registered"

(* wake_on_cancel; after_func runs the function at once if it is too late. *)
Register(p) ==
    /\ pc[p] = "register"
    /\ IF call[p].ctx \in closed
         THEN pc' = notify_all(Goto(p, "lock")) /\ UNCHANGED fn
         ELSE pc' = Goto(p, "lock") /\ fn' = [fn EXCEPT ![p] = Function]
    /\ UNCHANGED <<queueVars, closed>>

(* The loop, under the queue's lock *)
Canceled(p) ==
    /\ pc[p] = "lock"
    /\ GiveUp(p)
    /\ pc' = Goto(p, "leave")
    /\ UNCHANGED <<closed, fn>>

Live(p) == pc[p] = "lock" /\ call[p].ctx \notin ended

HasRoom == Capacity # Nil => Len(items) < Capacity

Put(p) ==
    /\ Live(p) /\ call[p].op = "put" /\ HasRoom
    /\ items' = Append(items, call[p].item)
    /\ answer' = [answer EXCEPT ![p] = "ok"]
    /\ Finish(p)
    /\ UNCHANGED <<ended, call>>

(* Mutant: the newest item is served first. *)
NewestFirst == <<items[Len(items)], SubSeq(items, 1, Len(items) - 1)>>
pop_front == <<Head(items), Tail(items)>>

Get(p) ==
    /\ Live(p) /\ call[p].op = "get" /\ items # <<>>
    /\ answer' = [answer EXCEPT ![p] = pop_front[1]]
    /\ items' = pop_front[2]
    /\ Finish(p)
    /\ UNCHANGED <<ended, call>>

Blocked(p) == IF call[p].op = "put" THEN ~HasRoom ELSE items = <<>>

Sleep(p) ==
    /\ Live(p) /\ Blocked(p)
    /\ pc' = Goto(p, "asleep")
    /\ UNCHANGED <<queueVars, closed, fn>>

(* Mutant: the function stays registered. *)
NotStopped(f) == f
stop(f) == "none"

(* Dropping CancelWake stops the function.  If it was taken before that, it
   still runs and notifies, which is what SpuriousWake does. *)
Leave(p) ==
    /\ pc[p] = "leave"
    /\ Reply(p)
    /\ fn' = [fn EXCEPT ![p] = stop(@)]
    /\ pc' = Goto(p, "idle")
    /\ UNCHANGED closed

SpuriousWake(p) ==
    /\ pc[p] = "asleep"
    /\ pc' = Goto(p, "lock")
    /\ UNCHANGED <<queueVars, closed, fn>>
----------------------------------------------------------------------------
(* The contexts *)

Cancel(x) ==
    /\ x \notin ended
    /\ End(x)
    /\ UNCHANGED <<closed, fn, pc>>

Close(x) ==
    /\ x \in ended \ closed
    /\ closed' = closed \cup {x}
    /\ fn' = [p \in Proc |-> IF fn[p] = "registered" /\ call[p].ctx = x THEN "taken" ELSE fn[p]]
    /\ UNCHANGED <<queueVars, pc>>

RunWake(p) ==
    /\ fn[p] = "taken"
    /\ fn' = [fn EXCEPT ![p] = "none"]
    /\ pc' = notify_all(pc)
    /\ UNCHANGED <<queueVars, closed>>
----------------------------------------------------------------------------
Internal(p) ==
    Begin(p) \/ Register(p) \/ Canceled(p) \/ Put(p) \/ Get(p) \/ Sleep(p) \/ Leave(p) \/ RunWake(p)

Next ==
    \/ \E p \in Proc : Internal(p) \/ SpuriousWake(p)
    \/ \E p \in Proc, request \in Calls : Enter(p, request)
    \/ \E x \in Ctx : Cancel(x) \/ Close(x)

Spec == Init /\ [][Next]_vars

(* Threads run, and a cancelling thread gets to every context and function. *)
FairSpec == Spec /\ (\A p \in Proc : WF_vars(Internal(p))) /\ \A x \in Ctx : WF_vars(Close(x))
----------------------------------------------------------------------------
(* Properties *)

(* Types; and a queue with a capacity never holds more, though several writers
   sleep and wake together. *)
TypeOK ==
    /\ items \in Seq(Item) /\ (Capacity # Nil => Len(items) <= Capacity)
    /\ ended \subseteq Ctx /\ closed \subseteq Ctx
    /\ call \in [Proc -> Calls \cup {Nil}]
    /\ answer \in [Proc -> Item \cup {Nil, "ok", "canceled"}]
    /\ fn \in [Proc -> {"none", "registered", "taken"}]
    /\ pc \in [Proc -> {"idle", "begin", "register", "lock", "asleep", "leave"}]

(* A caller sleeps only while the queue really blocks it, and its wake-up
   function is still registered, or taken and about to run: neither an item
   nor a cancellation between the check and the wait is missed. *)
SleeperHasWaker ==
    \A p \in Proc : pc[p] = "asleep" => Blocked(p) /\ fn[p] # "none"

(* Once no call is under way no after-function is left on any context. *)
FunctionsEnd == \A p \in Proc : pc[p] = "idle" => fn[p] = "none"

(* Every put and get takes effect atomically, in first-in first-out order, and
   gives up only when its own context has ended (CancelableQueue). *)
Implements == AbstractSpec

(* A caller whose context ends returns, whoever else sleeps or keeps the queue
   busy. *)
CanceledReturns ==
    \A p \in Proc : (call[p] # Nil /\ call[p].ctx \in ended) ~> call[p] = Nil
=============================================================================
