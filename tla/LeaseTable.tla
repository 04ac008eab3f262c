---------------------------- MODULE LeaseTable ----------------------------
(***************************************************************************)
(* What the reference-counted cache promises its users: one published      *)
(* value per key, shared by every lease on the key, kept exactly as long   *)
(* as a lease is out (or for ever, when deletion is disabled).  No thread, *)
(* lock, waiter or failed producer is visible here.                        *)
(***************************************************************************)
CONSTANTS Key, Call, Nil, Retain

VARIABLES value,     \* value[k]: the published value, named by its producer
          holders,   \* holders[k]: the calls that hold a lease on k
          lease      \* lease[c]: the value the lease of c gives access to

vars == <<value, holders, lease>>

Init ==
    /\ value = [k \in Key |-> Nil]
    /\ holders = [k \in Key |-> {}]
    /\ lease = [c \in Call |-> Nil]

(* A producer succeeded: its call is the first holder of a new value. *)
Publish(c, k) ==
    /\ value[k] = Nil /\ holders[k] = {}
    /\ lease[c] = Nil
    /\ value' = [value EXCEPT ![k] = c]
    /\ holders' = [holders EXCEPT ![k] = {c}]
    /\ lease' = [lease EXCEPT ![c] = c]

(* A later call shares the value there is. *)
Join(c, k) ==
    /\ value[k] # Nil
    /\ lease[c] = Nil
    /\ holders' = [holders EXCEPT ![k] = @ \cup {c}]
    /\ lease' = [lease EXCEPT ![c] = value[k]]
    /\ UNCHANGED value

(* A lease ends; the last one takes the value with it. *)
Leave(c, k) ==
    /\ c \in holders[k]
    /\ holders' = [holders EXCEPT ![k] = @ \ {c}]
    /\ lease' = [lease EXCEPT ![c] = Nil]
    /\ value' = [value EXCEPT ![k] = IF holders[k] = {c} /\ ~Retain THEN Nil ELSE @]

Next == \E c \in Call, k \in Key : Publish(c, k) \/ Join(c, k) \/ Leave(c, k)

Spec == Init /\ [][Next]_vars
=============================================================================
