------------------------ MODULE RefCountRefinement ------------------------
(* The cache implements the lease table. *)
EXTENDS RefCountCache

(* An entry's value exists for others once the entry is Ready. *)
AValue == [k \in Key |-> IF index[k] # Nil /\ status[index[k]] = "ready"
                           THEN index[k] ELSE Nil]
AHolders == [k \in Key |-> {c \in Call : key[c] = k /\ pc[c] \in Claiming}]
ALease == [c \in Call |-> IF pc[c] \in Claiming THEN ent[c] ELSE Nil]

Table == INSTANCE LeaseTable WITH
    Retain <- DisableDeletion,
    value <- AValue, holders <- AHolders, lease <- ALease

(* Locks, waiting, spurious wake-ups, nested producers, failures and panics
   all disappear: what a user of acquire and release sees is a table of shared
   values, each produced once, shared by every lease on its key and dropped
   with the last one. *)
ImplementsLeaseTable == Table!Spec
=============================================================================
