-------------------------- MODULE CancelableQueue --------------------------
(***************************************************************************)
(* What DynamicQueue (crates/tsr_lsp/src/dynamic_queue.rs) promises: a     *)
(* FIFO queue whose put and get take effect in one step, or give up        *)
(* without effect, and that only once the caller's context has ended.      *)
(***************************************************************************)
EXTENDS Naturals, Sequences

CONSTANTS Proc, Item, Ctx, Capacity, Nil

VARIABLES items,   \* the queue
          ended,   \* the contexts that have ended
          call,    \* caller -> its call, or Nil
          answer   \* caller -> what its call returns, or Nil before it took effect

queueVars == <<items, ended, call, answer>>

Empty == items = <<>> /\ ended = {} /\ call = [p \in Proc |-> Nil] /\ answer = [p \in Proc |-> Nil]

Calls == [op : {"put"}, ctx : Ctx, item : Item] \cup [op : {"get"}, ctx : Ctx]

Ask(p, request) ==
    /\ call[p] = Nil
    /\ call' = [call EXCEPT ![p] = request]
    /\ UNCHANGED <<items, ended, answer>>

Effect(p, reply) ==
    /\ call[p] # Nil /\ answer[p] = Nil
    /\ answer' = [answer EXCEPT ![p] = reply]
    /\ UNCHANGED <<ended, call>>

Room == Capacity # Nil => Len(items) < Capacity

Push(p) == Effect(p, "ok") /\ call[p].op = "put" /\ Room /\ items' = Append(items, call[p].item)
Pop(p) == items # <<>> /\ Effect(p, Head(items)) /\ call[p].op = "get" /\ items' = Tail(items)
GiveUp(p) == Effect(p, "canceled") /\ call[p].ctx \in ended /\ UNCHANGED items

Reply(p) ==
    /\ answer[p] # Nil
    /\ call' = [call EXCEPT ![p] = Nil]
    /\ answer' = [answer EXCEPT ![p] = Nil]
    /\ UNCHANGED <<items, ended>>

End(x) == ended' = ended \cup {x} /\ UNCHANGED <<items, call, answer>>

Step ==
    \/ \E p \in Proc : Push(p) \/ Pop(p) \/ GiveUp(p) \/ Reply(p)
    \/ \E p \in Proc, request \in Calls : Ask(p, request)
    \/ \E x \in Ctx : End(x)

AbstractSpec == Empty /\ [][Step]_queueVars
=============================================================================
