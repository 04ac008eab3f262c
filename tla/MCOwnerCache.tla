---------------------------- MODULE MCOwnerCache ----------------------------
(* Small instances of OwnerCache for TLC. *)
EXTENDS OwnerCache, TLC

CONSTANTS base, app

(* Each of the two configurations extends the other. *)
Circle == [k \in Key |-> Key \ {k}]
CircleNames == [k \in Key |-> Key]

(* Making an owner takes no lock and reads nothing: when it happens makes no
   difference, so both are made before the first call. *)
OwnersFirst == (\E c \in Call : pc[c] # "new") => \A o \in Owner : life[o] # "none"

(* Threads and owners are alike, and so are the two configurations. *)
Symmetry == Permutations(Thread) \cup Permutations(Owner) \cup Permutations(Key)
=============================================================================
