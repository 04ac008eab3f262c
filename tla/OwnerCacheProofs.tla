-------------------------- MODULE OwnerCacheProofs --------------------------
(***************************************************************************)
(* The safety of the cache of extended configurations and of the ownership *)
(* that session snapshots keep in it, for any number of threads, snapshots *)
(* and configurations, however they extend each other.  The invariants     *)
(* come in layers: the shape of the state (Shape), who works for an owner  *)
(* or on a thread (Separate), who is busy with an entry (Busy), which      *)
(* entry the index has (Placed), what is listed, inherited and released    *)
(* (KeysAreOwned, Recorded, Released, Inherited), and why an entry has an  *)
(* owner or none (Accounted, Kept).  Every step of the system is first     *)
(* reduced to one of a few kinds of step of one call (Steps).              *)
(***************************************************************************)
EXTENDS OwnerCache, TLAPS

State == [value : BOOLEAN, owners : SUBSET Owner, busy : Thread \cup {Nil}, removed : BOOLEAN]

(* A call that has claimed its entry, and one that works on its entry. *)
Claiming == {"peek", "parse", "nested", "store", "stored", "finish"}
AtEntry == {"wait", "asleep"} \cup Claiming
Seeking == {"lookup", "wait", "asleep"}
PC == {"new", "done", "next", "lookup", "record", "noOwners"} \cup AtEntry

TypeOK ==
    /\ index \in [Key -> Entry \cup {Nil}] /\ entry \in [Entry -> State]
    /\ life \in [Owner -> {"none", "live", "gone"}] /\ keys \in [Owner -> SUBSET Key]
    /\ pc \in [Call -> PC] /\ job \in [Call -> Job \cup {Nil}]
    /\ cur \in [Call -> Key \cup {Nil}] /\ ent \in [Call -> Entry \cup {Nil}]
    /\ todo \in [Call -> SUBSET Key] /\ panicking \in SUBSET Call

(* What a call knows at each of its steps. *)
Control ==
    \A c \in Call :
        /\ Running(c) => job[c] \in Job
        /\ pc[c] \in AtEntry \cup {"lookup", "record"} => cur[c] \in Key
        /\ pc[c] \in AtEntry \cup {"record"} => ent[c] \in Entry
        /\ pc[c] \in Claiming => job[c].mode = "load"
        /\ pc[c] = "record" => job[c].mode \in {"load", "extend"}

(* A parse that nests a call waits for it, and for no other. *)
Family ==
    /\ \A c \in Call : Running(c) /\ job[c].outer # Nil => pc[job[c].outer] = "nested"
    /\ \A c, d \in Call :
          (/\ Running(c) /\ job[c].outer # Nil
           /\ Running(d) /\ job[d].outer = job[c].outer) => c = d

(* Only an inherit has a second owner. *)
Origin ==
    \A c \in Call :
        Running(c) => IF job[c].mode = "inherit"
                        THEN job[c].from \in Owner \ {job[c].owner} ELSE job[c].from = Nil

Shape == TypeOK /\ Control /\ Family /\ Origin
----------------------------------------------------------------------------
(* An entry is busy for the one call that has claimed it. *)
Busy ==
    /\ \A c \in Call : pc[c] \in Claiming => entry[ent[c]].busy = job[c].thread
    /\ \A c, d \in Call : pc[c] \in Claiming /\ pc[d] \in Claiming /\ ent[c] = ent[d] => c = d
    /\ \A e \in Entry : entry[e].busy # Nil => \E c \in Call : pc[c] \in Claiming /\ ent[c] = e

(* An entry that is not removed is the one the index has for its key. *)
Placed ==
    /\ \A c \in Call : ent[c] # Nil => cur[c] \in Key
    /\ \A c \in Call : ent[c] # Nil /\ ~entry[ent[c]].removed => index[cur[c]] = ent[c]
    /\ \A k, j \in Key : index[k] # Nil /\ index[k] = index[j] => k = j
    /\ \A k \in Key : index[k] # Nil => ~entry[index[k]].removed
    /\ \A c \in Call : pc[c] \in Claiming => ~entry[ent[c]].removed
    /\ RemovedIsUnowned
    /\ \A e \in Entry : entry[e].owners # {} => entry[e].value

(* An owner that is inherited, inherited from or released has one call, and
   so has the thread that does it. *)
Loading == {"load", "extend"}
OnThread(c, t) == Running(c) /\ job[c].thread = t
Separate ==
    \A c, d \in Call :
        c # d => /\ \A o \in Owner : Uses(c, o) /\ Uses(d, o) => job[c].mode \in Loading
                 /\ \A t \in Thread : OnThread(c, t) /\ OnThread(d, t) => job[c].mode \in Loading

(* The owner of an entry, with the name of its key. *)
Owns(o, k) == index[k] # Nil /\ o \in entry[index[k]].owners

(* What was stored or added has its owner until the key is listed. *)
Recorded ==
    \A c \in Call : pc[c] \in {"stored", "record"} =>
        index[cur[c]] = ent[c] /\ job[c].owner \in entry[ent[c]].owners

(* What a release has yet to give up its owner no longer lists, and it works
   on the entry that is owned. *)
Released ==
    \A c \in Call : Running(c) /\ job[c].mode = "release" =>
        /\ todo[c] \cap keys[job[c].owner] = {}
        /\ pc[c] \in Seeking => cur[c] \notin keys[job[c].owner]
        /\ pc[c] \in {"wait", "asleep"} /\ Owns(job[c].owner, cur[c]) => ent[c] = index[cur[c]]

(* An inherit owns the keys it has done, and finds the entries of the others. *)
Inherited ==
    \A c \in Call : Running(c) /\ job[c].mode = "inherit" =>
        /\ todo[c] \subseteq keys[job[c].from]
        /\ pc[c] \in Seeking => cur[c] \in keys[job[c].from]
        /\ pc[c] \in {"wait", "asleep"} => ent[c] = index[cur[c]]
        /\ pc[c] \in Seeking \cup {"next"}
        /\ \A k \in keys[job[c].from] :
              k \in todo[c] \/ (k = cur[c] /\ pc[c] \in Seeking) \/ Owns(job[c].owner, k)

(* Why an owner that owns an entry does not list its key. *)
Accounted ==
    \A k \in Key, o \in Owner :
        Owns(o, k) =>
            \/ k \in keys[o]
            \/ \E c \in Call :
                  /\ Running(c) /\ job[c].owner = o
                  /\ \/ pc[c] \in {"stored", "record"} /\ cur[c] = k
                     \/ job[c].mode = "inherit" /\ k \in keys[job[c].from]
                     \/ job[c].mode = "release" /\ (k \in todo[c] \/ (cur[c] = k /\ pc[c] \in Seeking))

(* An entry without owners is in the index while a load works on it. *)
Kept ==
    \A k \in Key : index[k] # Nil /\ entry[index[k]].owners = {} =>
        \E c \in Call : pc[c] \in AtEntry /\ job[c].mode = "load" /\ ent[c] = index[k]
----------------------------------------------------------------------------
(* Shape *)

(* The fields of what a call was asked to do. *)
LEMMA JobFields ==
    ASSUME NEW j \in Job
    PROVE  /\ j.thread \in Thread /\ j.mode \in {"load", "extend", "inherit", "release"}
           /\ j.owner \in Owner /\ j.from \in Owner \cup {Nil} /\ j.outer \in Call \cup {Nil}
           /\ j # Nil
BY NilAssumption DEF Job

(* Returning to the caller ends the call and resumes the parse around it. *)
LEMMA Returns ==
    ASSUME Shape, NEW c \in Call, Running(c), NEW p \in {"parse", "finish"}
    PROVE  /\ Returned(c, p) \in [Call -> PC]
           /\ Returned(c, p)[c] = "done"
           /\ \A d \in Call \ {c} : \/ Returned(c, p)[d] = pc[d] /\ d # job[c].outer
                                   \/ /\ pc[d] = "nested" /\ d = job[c].outer
                                      /\ Returned(c, p)[d] = p
<1>1. pc \in [Call -> PC]
    BY DEF Shape, TypeOK
<1>2. job[c].outer # Nil => pc[job[c].outer] = "nested"
    BY DEF Shape, Family
<1>3. \A d \in Call : d # Nil
    BY NilAssumption
<1> QED
    BY <1>1, <1>2, <1>3 DEF Returned, PC, AtEntry, Claiming

(* The index keeps its type when an entry is taken out. *)
LEMMA Removes ==
    ASSUME TypeOK, NEW k \in Key, NEW e \in Entry
    PROVE  /\ Removed(k, e) \in [Key -> Entry \cup {Nil}]
           /\ \A j \in Key : Removed(k, e)[j] = IF j = k /\ index[k] = e THEN Nil ELSE index[j]
BY DEF TypeOK, Removed

(* What a call is asked to do has its type, also inside a parse. *)
LEMMA MakesJob ==
    ASSUME NEW t \in Thread, NEW m \in {"load", "inherit", "release"}, NEW o \in Owner,
           NEW from \in Owner \cup {Nil}
    PROVE  [thread |-> t, mode |-> m, owner |-> o, from |-> from, outer |-> Nil,
            stack |-> {}] \in Job
BY DEF Job

(* A load whose key is recorded goes on as an extension, otherwise the same. *)
LEMMA ExtendsJob ==
    ASSUME NEW j \in Job
    PROVE  LET n == [j EXCEPT !.mode = "extend"]
           IN  /\ n \in Job /\ n.mode = "extend"
               /\ n.thread = j.thread /\ n.outer = j.outer /\ n.owner = j.owner /\ n.from = j.from
BY DEF Job

(* A new entry has the type of one. *)
LEMMA Blanks == Blank \in State
BY DEF Blank, State

(* Entries keep their type when their fields are assigned. *)
LEMMA StateWrites ==
    ASSUME NEW f \in [Entry -> State], NEW e \in Entry
    PROVE  /\ Blank \in State
           /\ \A t \in Thread : [f EXCEPT ![e].busy = t] \in [Entry -> State]
           /\ \A r \in BOOLEAN : [f EXCEPT ![e].busy = Nil, ![e].removed = r] \in [Entry -> State]
           /\ \A O \in SUBSET Owner : /\ [f EXCEPT ![e].owners = O] \in [Entry -> State]
                                      /\ [f EXCEPT ![e].value = TRUE, ![e].owners = O] \in [Entry -> State]
           /\ \A O \in SUBSET Owner, r \in BOOLEAN :
                 [f EXCEPT ![e].owners = O, ![e].removed = r] \in [Entry -> State]
<1>1. Blank \in State
    BY DEF Blank, State
<1>2. ASSUME NEW t \in Thread PROVE [f EXCEPT ![e].busy = t] \in [Entry -> State]
    BY DEF State
<1>3. ASSUME NEW r \in BOOLEAN
      PROVE  [f EXCEPT ![e].busy = Nil, ![e].removed = r] \in [Entry -> State]
    BY DEF State
<1>4. ASSUME NEW O \in SUBSET Owner
      PROVE  [f EXCEPT ![e].owners = O] \in [Entry -> State]
    BY DEF State
<1>5. ASSUME NEW O \in SUBSET Owner
      PROVE  [f EXCEPT ![e].value = TRUE, ![e].owners = O] \in [Entry -> State]
    BY DEF State
<1>6. ASSUME NEW O \in SUBSET Owner, NEW r \in BOOLEAN
      PROVE  [f EXCEPT ![e].owners = O, ![e].removed = r] \in [Entry -> State]
    BY DEF State
<1> QED
    BY <1>1, <1>2, <1>3, <1>4, <1>5, <1>6

(* What the start of a call leaves. *)
LEMMA StartEffect ==
    ASSUME Shape, NEW c \in Call, NEW t \in Thread, NEW m \in {"load", "inherit", "release"},
           NEW o \in Owner, NEW from \in Owner \cup {Nil}, NEW K \in SUBSET Key,
           Start(c, t, m, o, from, K),
           IF m = "inherit" THEN from \in Owner \ {o} ELSE from = Nil,
           life' \in [Owner -> {"none", "live", "gone"}], keys' \in [Owner -> SUBSET Key]
    PROVE  /\ pc[c] = "new" /\ pc'[c] = "next" /\ todo'[c] = K
           /\ job'[c].thread = t /\ job'[c].mode = m /\ job'[c].owner = o /\ job'[c].from = from
           /\ \A d \in Call \ {c} : pc'[d] = pc[d] /\ job'[d] = job[d] /\ todo'[d] = todo[d]
           /\ UNCHANGED <<index, entry, cur, ent>>
           /\ Shape'
<1> DEFINE j == [thread |-> t, mode |-> m, owner |-> o, from |-> from, outer |-> Nil,
                 stack |-> {}]
<1>1. j \in Job
    BY MakesJob
<1>2. /\ pc[c] = "new" /\ pc' = [pc EXCEPT ![c] = "next"] /\ job' = [job EXCEPT ![c] = j]
      /\ todo' = [todo EXCEPT ![c] = K] /\ UNCHANGED <<index, entry, cur, ent, panicking>>
    BY DEF Start, Unused, Goto
<1>3. j.thread = t /\ j.mode = m /\ j.owner = o /\ j.from = from /\ j.outer = Nil
    OBVIOUS
<1> HIDE DEF j
<1>4. /\ pc \in [Call -> PC] /\ job \in [Call -> Job \cup {Nil}] /\ todo \in [Call -> SUBSET Key]
      /\ Control /\ Family /\ Origin
    BY DEF Shape, TypeOK
<1>5. TypeOK'
    BY <1>1, <1>2 DEF Shape, TypeOK, PC
<1>6. /\ pc'[c] = "next" /\ job'[c] = j /\ todo'[c] = K
      /\ \A d \in Call \ {c} : pc'[d] = pc[d] /\ job'[d] = job[d] /\ todo'[d] = todo[d]
    BY <1>2, <1>4
<1>7. Control'
    BY <1>1, <1>2, <1>4, <1>6 DEF Control, Running, AtRest, AtEntry, Claiming
<1>8. Family'
    BY <1>2, <1>3, <1>4, <1>6, NilAssumption, JobFields DEF Family, Control, Running, AtRest
<1>9. Origin'
    BY <1>2, <1>3, <1>4, <1>6 DEF Origin, Running, AtRest
<1> QED
    BY <1>2, <1>3, <1>5, <1>6, <1>7, <1>8, <1>9 DEF Shape

(* Calls that stay as they are keep who they run for. *)
LEMMA Quiet ==
    ASSUME Shape, job' = job, pc' \in [Call -> PC],
           \A d \in Call : pc'[d] \notin AtRest => pc[d] \notin AtRest,
           \A d \in Call : pc[d] = "nested" => pc'[d] = "nested"
    PROVE  Family' /\ Origin'
<1>1. \A d \in Call : Running(d) => job[d].outer \in Call \cup {Nil}
    BY JobFields DEF Shape, Control
<1>2. Family /\ Origin
    BY DEF Shape
<1>3. Family'
    BY <1>1, <1>2 DEF Family, Running
<1>4. Origin'
    BY <1>2 DEF Origin, Running
<1> QED
    BY <1>3, <1>4

(* A call that ends leaves the calls around it in shape. *)
LEMMA Ending ==
    ASSUME Shape, NEW c \in Call, pc[c] \in {"next", "wait", "finish"}, Forget(c),
           NEW p \in {"parse", "finish"},
           pc' = Returned(c, p) \/ pc' = WakeAll(ent[c], Returned(c, p)),
           index' \in [Key -> Entry \cup {Nil}], entry' \in [Entry -> State],
           life' \in [Owner -> {"none", "live", "gone"}], keys' \in [Owner -> SUBSET Key],
           panicking' \in SUBSET Call
    PROVE  /\ pc'[c] = "done" /\ job'[c] = Nil /\ cur'[c] = Nil /\ ent'[c] = Nil /\ todo'[c] = {}
           /\ \A d \in Call \ {c} :
                 /\ job'[d] = job[d] /\ cur'[d] = cur[d] /\ ent'[d] = ent[d] /\ todo'[d] = todo[d]
                 /\ \/ pc'[d] = pc[d] /\ d # job[c].outer
                    \/ pc[d] = "nested" /\ d = job[c].outer /\ pc'[d] = p
                    \/ pc[d] = "asleep" /\ pc'[d] = "wait" /\ d # job[c].outer
           /\ Shape'
<1>1. Running(c)
    BY DEF Running, AtRest
<1>2. TypeOK /\ Control /\ Family /\ Origin
    BY DEF Shape
<1>3. /\ job'[c] = Nil /\ cur'[c] = Nil /\ ent'[c] = Nil /\ todo'[c] = {}
      /\ \A d \in Call \ {c} :
            job'[d] = job[d] /\ cur'[d] = cur[d] /\ ent'[d] = ent[d] /\ todo'[d] = todo[d]
      /\ job' \in [Call -> Job \cup {Nil}] /\ cur' \in [Call -> Key \cup {Nil}]
      /\ ent' \in [Call -> Entry \cup {Nil}] /\ todo' \in [Call -> SUBSET Key]
    BY <1>2 DEF TypeOK, Forget
<1> PICK R : R = Returned(c, p)
    OBVIOUS
<1>4. /\ R \in [Call -> PC] /\ R[c] = "done"
      /\ \A d \in Call \ {c} : \/ R[d] = pc[d] /\ d # job[c].outer
                               \/ pc[d] = "nested" /\ d = job[c].outer /\ R[d] = p
    BY <1>1, Returns
<1>5. /\ pc' \in [Call -> PC] /\ pc'[c] = "done"
      /\ \A d \in Call \ {c} : \/ pc'[d] = pc[d] /\ d # job[c].outer
                               \/ pc[d] = "nested" /\ d = job[c].outer /\ pc'[d] = p
                               \/ pc[d] = "asleep" /\ pc'[d] = "wait" /\ d # job[c].outer
  <2>1. CASE pc' = R
    BY <1>4, <2>1
  <2>2. CASE pc' = WakeAll(ent[c], R)
    BY <1>4, <2>2 DEF WakeAll, PC, AtEntry
  <2> QED
    BY <2>1, <2>2
<1>6. TypeOK'
    BY <1>2, <1>3, <1>5 DEF TypeOK
<1>7. Control'
    BY <1>2, <1>3, <1>5 DEF Control, Running, AtRest, AtEntry, Claiming
<1>8. Family'
  <2>1. \A d \in Call : Running(d) => job[d].outer # c
    BY <1>2, NilAssumption DEF Family
  <2>2. \A d \in Call \ {c} : Running(d) /\ job[d].outer # Nil => job[d].outer # job[c].outer
    BY <1>1, <1>2 DEF Family
  <2>3. \A d \in Call : Running(d) => job[d].outer \in Call \cup {Nil}
    BY <1>2, JobFields DEF Control
  <2> QED
    BY <1>2, <1>3, <1>5, <2>1, <2>2, <2>3 DEF Family, Running, AtRest
<1>9. Origin'
    BY <1>2, <1>3, <1>5 DEF Origin, Running, AtRest
<1> QED
    BY <1>3, <1>5, <1>6, <1>7, <1>8, <1>9 DEF Shape

(* Every step keeps the types and what calls know. *)
LEMMA ShapeStep == Shape /\ [Next]_vars => Shape'
<1> SUFFICES ASSUME Shape, [Next]_vars PROVE Shape'
    OBVIOUS
<1> USE NilAssumption DEF PC, AtEntry, Claiming, AtRest, Running
<1>t. TypeOK /\ Control /\ Family /\ Origin
    BY DEF Shape
<1>j. \A d \in Call : Running(d) => job[d] \in Job
    BY <1>t DEF Control
<1>1. ASSUME NEW c \in Call, NEW t \in Thread, NEW o \in Owner, NEW k \in Key, StartLoad(c, t, o, k)
      PROVE  Shape'
  <2>1. Start(c, t, "load", o, Nil, {k}) /\ UNCHANGED <<life, keys>>
    BY <1>1 DEF StartLoad, ownerVars
  <2> QED
    BY <1>t, <2>1, StartEffect DEF TypeOK
<1>2. ASSUME NEW p \in Call, NEW c \in Call, NEW k \in Key, NestedLoad(p, c, k)
      PROVE  Shape'
  <2>s. PICK S : S = job[p].stack \cup {cur[p]}
    OBVIOUS
  <2>n. PICK n : n = [job[p] EXCEPT !.outer = p, !.stack = S]
    OBVIOUS
  <2>1. pc[p] = "parse" /\ job[p] \in Job /\ cur[p] \in Key /\ job[p].mode = "load"
    BY <1>t, <1>j, <1>2 DEF NestedLoad, Control
  <2>2. S \in SUBSET Key
    BY <2>1, <2>s DEF Job
  <2>3. n \in Job /\ n.outer = p /\ n.mode = "load" /\ n.from = job[p].from
    BY <2>1, <2>2, <2>n DEF Job
  <2>4. /\ pc[c] = "new" /\ pc' = [pc EXCEPT ![p] = "nested", ![c] = "next"]
        /\ job' = [job EXCEPT ![c] = n] /\ todo' = [todo EXCEPT ![c] = {k}]
        /\ UNCHANGED <<index, entry, life, keys, cur, ent, panicking>>
    BY <1>2, <2>n, <2>s DEF NestedLoad, Unused, ownerVars
  <2>5. TypeOK'
    BY <1>t, <2>3, <2>4 DEF TypeOK
  <2>6. /\ pc'[c] = "next" /\ pc'[p] = "nested" /\ job'[c] = n /\ p # c
        /\ \A d \in Call \ {c} : job'[d] = job[d]
        /\ \A d \in Call \ {c, p} : pc'[d] = pc[d]
    BY <1>t, <2>1, <2>4 DEF TypeOK
  <2>7. Control'
    <3>1. /\ pc[c] = "new" /\ UNCHANGED <<cur, ent>> /\ ent[p] \in Entry
      BY <1>t, <2>1, <2>4 DEF Control
    <3> QED
      BY <1>t, <2>1, <2>3, <2>6, <3>1 DEF Control
  <2>8. Family'
    <3>1. \A d \in Call : Running(d) /\ d # c => job[d].outer # p
      BY <1>t, <2>1 DEF Family
    <3> QED
      <4>1. \A d \in Call : Running(d) => job[d].outer \in Call \cup {Nil}
        BY <1>j, JobFields
      <4>2. \A d \in Call : Running(d)' <=> (Running(d) \/ d = c)
        BY <2>1, <2>6
      <4>3. \A d \in Call : Running(d)' /\ job'[d].outer # Nil => pc'[job'[d].outer] = "nested"
        <5>1. \A d \in Call : Running(d) /\ job[d].outer # Nil => pc[job[d].outer] = "nested"
          BY <1>t DEF Family
        <5>2. \A q \in Call : pc[q] = "nested" => pc'[q] = "nested"
          BY <2>4, <2>6
        <5>3. ASSUME NEW d \in Call, Running(d)', job'[d].outer # Nil
              PROVE  pc'[job'[d].outer] = "nested"
          <6>1. CASE d = c
            BY <2>3, <2>6, <6>1
          <6>2. CASE d # c
            <7>1. Running(d) /\ job'[d] = job[d]
              BY <2>6, <4>2, <5>3, <6>2
            <7> QED
              BY <4>1, <5>1, <5>2, <5>3, <7>1
          <6> QED
            BY <6>1, <6>2
        <5> QED
          BY <5>3
      <4>4. \A d, q \in Call : Running(d)' /\ job'[d].outer # Nil /\ Running(q)'
                              /\ job'[q].outer = job'[d].outer => d = q
        BY <1>t, <2>3, <2>6, <3>1, <4>2 DEF Family
      <4> QED
        BY <4>3, <4>4 DEF Family
  <2>9. Origin'
    BY <1>t, <2>1, <2>3, <2>4, <2>6 DEF Origin
  <2> QED
    BY <2>5, <2>7, <2>8, <2>9 DEF Shape
<1>3. ASSUME NEW o \in Owner, NewOwner(o)
      PROVE  Shape'
  <2>1. TypeOK'
    BY <1>t, <1>j, <1>3 DEF TypeOK, NewOwner
  <2>2. Control'
    BY <1>t, <1>j, <1>3 DEF TypeOK, Control, NewOwner
  <2>3. Family'
    BY <1>t, <1>j, <1>3 DEF TypeOK, Family, NewOwner
  <2>4. Origin'
    BY <1>t, <1>j, <1>3 DEF TypeOK, Origin, NewOwner
  <2> QED
    BY <2>1, <2>2, <2>3, <2>4 DEF Shape
<1>4. ASSUME NEW c \in Call, NEW t \in Thread, NEW o \in Owner, NEW from \in Owner,
             StartInherit(c, t, o, from)
      PROVE  Shape'
  <2>1. Start(c, t, "inherit", o, from, keys[from]) /\ o # from /\ UNCHANGED <<life, keys>>
    BY <1>4 DEF StartInherit, ownerVars
  <2>2. keys[from] \in SUBSET Key
    BY <1>t DEF TypeOK
  <2> QED
    BY <1>t, <2>1, <2>2, StartEffect DEF TypeOK
<1>5. ASSUME NEW c \in Call, NEW t \in Thread, NEW o \in Owner, NEW kept \in SUBSET keys[o],
             StartRetain(c, t, o, kept)
      PROVE  Shape'
  <2>1. /\ Start(c, t, "release", o, Nil, keys[o] \ kept) /\ UNCHANGED life
        /\ keys' = [keys EXCEPT ![o] = kept]
    BY <1>5 DEF StartRetain
  <2>2. keys[o] \in SUBSET Key /\ keys[o] \ kept \in SUBSET Key
    BY <1>t DEF TypeOK
  <2>3. life' \in [Owner -> {"none", "live", "gone"}] /\ keys' \in [Owner -> SUBSET Key]
    BY <1>t, <2>1, <2>2 DEF TypeOK
  <2> QED
    BY <1>t, <2>1, <2>2, <2>3, StartEffect
<1>6. ASSUME NEW c \in Call, NEW t \in Thread, NEW o \in Owner, StartDrop(c, t, o)
      PROVE  Shape'
  <2>1. /\ Start(c, t, "release", o, Nil, keys[o])
        /\ keys' = [keys EXCEPT ![o] = {}] /\ life' = [life EXCEPT ![o] = "gone"]
    BY <1>6 DEF StartDrop
  <2>2. keys[o] \in SUBSET Key
    BY <1>t DEF TypeOK
  <2>3. life' \in [Owner -> {"none", "live", "gone"}] /\ keys' \in [Owner -> SUBSET Key]
    BY <1>t, <2>1, <2>2 DEF TypeOK
  <2> QED
    BY <1>t, <2>1, <2>2, <2>3, StartEffect
<1>7. ASSUME NEW c \in Call, Next_(c)
      PROVE  Shape'
  <2>0. pc[c] = "next" /\ job[c] \in Job /\ job[c].owner \in Owner
    BY <1>j, <1>7, JobFields DEF Next_
  <2>a. CASE todo[c] # {}
    <3>1. PICK k \in todo[c] :
              /\ cur' = [cur EXCEPT ![c] = k] /\ todo' = [todo EXCEPT ![c] = @ \ {k}]
              /\ pc' = [pc EXCEPT ![c] = IF Known(c, k) THEN "next" ELSE "lookup"]
              /\ ent' = [ent EXCEPT ![c] = Nil] /\ UNCHANGED <<keys, job>>
              /\ UNCHANGED <<index, entry, life, panicking>>
      BY <1>7, <2>a DEF Next_, Goto
    <3>2. k \in Key
      BY <1>t, <3>1 DEF TypeOK
    <3>3. TypeOK'
      BY <1>t, <3>1, <3>2 DEF TypeOK
    <3>4. Control'
      BY <1>t, <2>0, <3>1, <3>2 DEF TypeOK, Control
    <3>5. Family' /\ Origin'
      BY <1>t, <2>0, <3>1 DEF TypeOK, Family, Origin
    <3> QED
      BY <3>3, <3>4, <3>5 DEF Shape
  <2>b. CASE todo[c] = {}
    <3>1. /\ pc' = Returned(c, "parse") /\ Forget(c) /\ UNCHANGED <<index, entry, life, panicking>>
          /\ \/ keys' = keys
             \/ keys' = [keys EXCEPT ![job[c].owner] = @ \cup keys[job[c].from]]
                /\ job[c].mode = "inherit"
      BY <1>7, <2>b DEF Next_
    <3>2. keys' \in [Owner -> SUBSET Key]
      BY <1>t, <2>0, <3>1 DEF TypeOK, Origin
    <3> QED
      BY <1>t, <2>0, <3>1, <3>2, Ending DEF TypeOK
  <2> QED
    BY <2>a, <2>b
<1>8. ASSUME NEW c \in Call, Lookup(c)
      PROVE  Shape'
  <2>0. pc[c] = "lookup" /\ job[c] \in Job /\ cur[c] \in Key
    BY <1>t, <1>j, <1>8 DEF Lookup, Control
  <2>1. /\ index' \in [Key -> Entry \cup {Nil}] /\ entry' \in [Entry -> State]
        /\ ent' \in [Call -> Entry \cup {Nil}] /\ UNCHANGED <<life, keys, job, cur, todo, panicking>>
        /\ \/ ent'[c] \in Entry /\ pc' = [pc EXCEPT ![c] = "wait"]
           \/ pc' = [pc EXCEPT ![c] = "noOwners"] \/ pc' = [pc EXCEPT ![c] = "next"]
        /\ \A d \in Call \ {c} : ent'[d] = ent[d]
    <3>1. index[cur[c]] \in Entry \cup {Nil}
      BY <1>t, <2>0 DEF TypeOK
    <3>2. CASE index[cur[c]] # Nil
      BY <1>t, <1>8, <2>0, <3>1, <3>2 DEF TypeOK, Lookup, Goto, ownerVars
    <3>3. CASE index[cur[c]] = Nil /\ job[c].mode = "load"
      <4>1. PICK e \in Entry : /\ index' = [index EXCEPT ![cur[c]] = e]
                                /\ entry' = [entry EXCEPT ![e] = Blank]
                                /\ ent' = [ent EXCEPT ![c] = e]
                                /\ pc' = [pc EXCEPT ![c] = "wait"]
        BY <1>8, <3>3 DEF Lookup, Free, Goto
      <4>2. UNCHANGED <<life, keys, job, cur, todo, panicking>>
        BY <1>8 DEF Lookup, ownerVars
      <4> QED
        BY <1>t, <2>0, <4>1, <4>2, Blanks DEF TypeOK
    <3>4. CASE index[cur[c]] = Nil /\ job[c].mode # "load"
      BY <1>t, <1>8, <3>4 DEF TypeOK, Lookup, Goto, ownerVars
    <3> QED
      BY <3>2, <3>3, <3>4
  <2>2. TypeOK'
    BY <1>t, <2>1 DEF TypeOK
  <2>3. Control'
    BY <1>t, <2>0, <2>1 DEF TypeOK, Control
  <2>4. Family' /\ Origin'
    BY <2>0, <2>1, <2>2, Quiet DEF TypeOK
  <2> QED
    BY <2>2, <2>3, <2>4 DEF Shape
<1>9. ASSUME NEW c \in Call, Reenter(c)
      PROVE  Shape'
  <2>1. /\ pc[c] = "wait" /\ pc' = Returned(c, "finish") /\ Forget(c)
        /\ panicking' = (panicking \cup {job[c].outer}) \ {Nil}
        /\ UNCHANGED <<index, entry, life, keys>>
    BY <1>9 DEF Reenter, ownerVars
  <2>2. panicking' \in SUBSET Call
    BY <1>t, <1>j, <2>1, JobFields DEF TypeOK
  <2> QED
    BY <1>t, <2>1, <2>2, Ending DEF TypeOK
<1>10. ASSUME NEW c \in Call, Sleep(c)
      PROVE  Shape'
  <2>1. TypeOK'
    BY <1>t, <1>j, <1>10 DEF TypeOK, Sleep, Goto, ownerVars
  <2>2. Control'
    BY <1>t, <1>j, <1>10 DEF TypeOK, Control, Sleep, Goto, ownerVars
  <2>3. Family'
    BY <1>t, <1>j, <1>10 DEF TypeOK, Family, Sleep, Goto, ownerVars
  <2>4. Origin'
    BY <1>t, <1>j, <1>10 DEF TypeOK, Origin, Sleep, Goto, ownerVars
  <2> QED
    BY <2>1, <2>2, <2>3, <2>4 DEF Shape
<1>11. ASSUME NEW c \in Call, SpuriousWake(c)
      PROVE  Shape'
  <2>1. TypeOK'
    BY <1>t, <1>j, <1>11 DEF TypeOK, SpuriousWake, Goto, ownerVars
  <2>2. Control'
    BY <1>t, <1>j, <1>11 DEF TypeOK, Control, SpuriousWake, Goto, ownerVars
  <2>3. Family'
    BY <1>t, <1>j, <1>11 DEF TypeOK, Family, SpuriousWake, Goto, ownerVars
  <2>4. Origin'
    BY <1>t, <1>j, <1>11 DEF TypeOK, Origin, SpuriousWake, Goto, ownerVars
  <2> QED
    BY <2>1, <2>2, <2>3, <2>4 DEF Shape
<1>12. ASSUME NEW c \in Call, Claim(c)
      PROVE  Shape'
  <2>0. pc[c] = "wait" /\ job[c] \in Job /\ cur[c] \in Key /\ ent[c] \in Entry
    BY <1>t, <1>j, <1>12 DEF Claim, Idle, Control
  <2>1. entry' \in [Entry -> State] /\ index' \in [Key -> Entry \cup {Nil}]
    <3>1. entry \in [Entry -> State] /\ job[c].thread \in Thread /\ job[c].owner \in Owner
      BY <1>t, <2>0, JobFields DEF TypeOK
    <3>2. entry[ent[c]].owners \cup {job[c].owner} \in SUBSET Owner /\ entry[ent[c]].owners \in SUBSET Owner
      BY <2>0, <3>1 DEF State
    <3>3. entry' \in [Entry -> State]
      <4>1. \A f \in [Entry -> State], e \in Entry, t \in Thread :
                [f EXCEPT ![e].busy = t] \in [Entry -> State]
        BY StateWrites
      <4>2. entry' = entry \/ entry' = [entry EXCEPT ![ent[c]].busy = job[c].thread]
        BY <1>12 DEF Claim
      <4> QED
        BY <2>0, <3>1, <4>1, <4>2
    <3>4. index' \in [Key -> Entry \cup {Nil}]
      BY <1>t, <1>12, <2>0, Removes DEF TypeOK, Claim, Idle, Goto, ownerVars
    <3> QED
      BY <3>3, <3>4
  <2>2. TypeOK'
    BY <1>t, <1>12, <2>1 DEF TypeOK, Claim, Idle, Goto, ownerVars
  <2>3. Control'
    BY <1>t, <1>12, <2>0 DEF TypeOK, Control, Claim, Idle, Goto, ownerVars
  <2>4. pc' \in [Call -> PC] /\ job' = job
    BY <1>12, <2>2 DEF TypeOK, Claim, Idle, Goto, ownerVars
  <2>5. /\ \A q \in Call : pc'[q] \notin AtRest => pc[q] \notin AtRest
        /\ \A q \in Call : pc[q] = "nested" => pc'[q] = "nested"
    BY <1>t, <1>12, <2>0 DEF TypeOK, Claim, Idle, Goto, ownerVars
  <2>6. Family' /\ Origin'
    BY <2>4, <2>5, Quiet
  <2> QED
    BY <2>2, <2>3, <2>6 DEF Shape
<1>13. ASSUME NEW c \in Call, NEW v \in {"store", "parse", "finish"}, Peek(c, v)
      PROVE  Shape'
  <2>1. TypeOK'
    BY <1>t, <1>j, <1>13 DEF TypeOK, Peek, Goto, ownerVars
  <2>2. Control'
    BY <1>t, <1>j, <1>13 DEF TypeOK, Control, Peek, Goto, ownerVars
  <2>3. Family'
    BY <1>t, <1>j, <1>13 DEF TypeOK, Family, Peek, Goto, ownerVars
  <2>4. Origin'
    BY <1>t, <1>j, <1>13 DEF TypeOK, Origin, Peek, Goto, ownerVars
  <2> QED
    BY <2>1, <2>2, <2>3, <2>4 DEF Shape
<1>14. ASSUME NEW c \in Call, NEW v \in {"ok"} \cup Faults, Parse(c, v)
      PROVE  Shape'
  <2>1. TypeOK'
    BY <1>t, <1>j, <1>14 DEF TypeOK, Parse, Goto, ownerVars
  <2>2. Control'
    BY <1>t, <1>j, <1>14 DEF TypeOK, Control, Parse, Goto, ownerVars
  <2>3. Family'
    BY <1>t, <1>j, <1>14 DEF TypeOK, Family, Parse, Goto, ownerVars
  <2>4. Origin'
    BY <1>t, <1>j, <1>14 DEF TypeOK, Origin, Parse, Goto, ownerVars
  <2> QED
    BY <2>1, <2>2, <2>3, <2>4 DEF Shape
<1>15. ASSUME NEW c \in Call, Store(c)
      PROVE  Shape'
  <2>0. pc[c] = "store" /\ job[c] \in Job /\ cur[c] \in Key /\ ent[c] \in Entry
    BY <1>t, <1>j, <1>15 DEF Store, Idle, Control
  <2>1. entry' \in [Entry -> State] /\ index' \in [Key -> Entry \cup {Nil}]
    <3>1. entry \in [Entry -> State] /\ job[c].thread \in Thread /\ job[c].owner \in Owner
      BY <1>t, <2>0, JobFields DEF TypeOK
    <3>2. entry[ent[c]].owners \cup {job[c].owner} \in SUBSET Owner /\ entry[ent[c]].owners \in SUBSET Owner
      BY <2>0, <3>1 DEF State
    <3>3. entry' \in [Entry -> State]
      <4>1. \A f \in [Entry -> State], e \in Entry, O \in SUBSET Owner :
                [f EXCEPT ![e].value = TRUE, ![e].owners = O] \in [Entry -> State]
        BY StateWrites
      <4>2. entry' = [entry EXCEPT ![ent[c]].value = TRUE,
                                   ![ent[c]].owners = entry[ent[c]].owners \cup {job[c].owner}]
        BY <1>15 DEF Store, WithOwner
      <4> QED
        BY <2>0, <3>1, <3>2, <4>1, <4>2
    <3>4. index' \in [Key -> Entry \cup {Nil}]
      BY <1>t, <1>15, <2>0, Removes DEF TypeOK, Store, WithOwner, Goto, ownerVars
    <3> QED
      BY <3>3, <3>4
  <2>2. TypeOK'
    BY <1>t, <1>15, <2>1 DEF TypeOK, Store, WithOwner, Goto, ownerVars
  <2>3. Control'
    BY <1>t, <1>15, <2>0 DEF TypeOK, Control, Store, WithOwner, Goto, ownerVars
  <2>4. pc' \in [Call -> PC] /\ job' = job
    BY <1>15, <2>2 DEF TypeOK, Store, WithOwner, Goto, ownerVars
  <2>5. /\ \A q \in Call : pc'[q] \notin AtRest => pc[q] \notin AtRest
        /\ \A q \in Call : pc[q] = "nested" => pc'[q] = "nested"
    BY <1>t, <1>15, <2>0 DEF TypeOK, Store, WithOwner, Goto, ownerVars
  <2>6. Family' /\ Origin'
    BY <2>4, <2>5, Quiet
  <2> QED
    BY <2>2, <2>3, <2>6 DEF Shape
<1>16. ASSUME NEW c \in Call, Finish(c)
      PROVE  Shape'
  <2>0. /\ pc[c] \in {"stored", "finish"} /\ job[c] \in Job /\ cur[c] \in Key /\ ent[c] \in Entry
        /\ job[c].mode = "load"
    BY <1>t, <1>j, <1>16 DEF Finish, Control
  <2>1. index' \in [Key -> Entry \cup {Nil}]
    BY <1>t, <1>16, <2>0, Removes DEF TypeOK, Finish
  <2>2. entry' \in [Entry -> State]
    BY <1>t, <1>16, <2>0, StateWrites DEF TypeOK, Finish
  <2>3. UNCHANGED <<life, keys>>
    BY <1>16 DEF Finish, ownerVars
  <2>a. CASE pc[c] = "stored"
    <3>1. pc' = WakeAll(ent[c], [pc EXCEPT ![c] = "record"]) /\ UNCHANGED <<job, cur, ent, todo, panicking>>
      BY <1>16, <2>a DEF Finish, Goto
    <3>2. pc' \in [Call -> PC] /\ pc'[c] = "record"
      BY <1>t, <3>1 DEF TypeOK, WakeAll
    <3>3. \A d \in Call \ {c} : pc'[d] = pc[d] \/ (pc[d] = "asleep" /\ pc'[d] = "wait")
      <4> PICK f : f = [pc EXCEPT ![c] = "record"]
        OBVIOUS
      <4>1. \A d \in Call \ {c} : f[d] = pc[d]
        BY <1>t DEF TypeOK
      <4> QED
        BY <3>1, <4>1 DEF WakeAll
    <3>4. TypeOK'
      BY <1>t, <2>1, <2>2, <2>3, <3>1, <3>2 DEF TypeOK
    <3>5. Control'
      BY <1>t, <2>0, <3>1, <3>2, <3>3 DEF Control
    <3>6. Family' /\ Origin'
      BY <2>a, <3>1, <3>2, <3>3, Quiet
    <3> QED
      BY <3>4, <3>5, <3>6 DEF Shape
  <2>b. CASE pc[c] = "finish"
    <3>1. PICK p \in {"parse", "finish"} : pc' = WakeAll(ent[c], Returned(c, p))
      BY <1>16, <2>b DEF Finish
    <3>2. Forget(c)
      BY <1>16, <2>b DEF Finish
    <3>3. panicking' \in SUBSET Call
      BY <1>t, <1>16, <2>0, <2>b, JobFields DEF TypeOK, Finish
    <3> QED
      BY <1>t, <2>1, <2>2, <2>3, <2>b, <3>1, <3>2, <3>3, Ending DEF TypeOK
  <2> QED
    BY <2>0, <2>a, <2>b
<1>17. ASSUME NEW c \in Call, Record(c)
      PROVE  Shape'
  <2>0. /\ pc[c] = "record" /\ job[c] \in Job /\ cur[c] \in Key /\ job[c].owner \in Owner
        /\ job[c].mode \in {"load", "extend"}
    BY <1>t, <1>j, <1>17, JobFields DEF Record, Control
  <2> DEFINE n == [job[c] EXCEPT !.mode = "extend"]
  <2>1. /\ n \in Job /\ n.mode = "extend" /\ n.outer = job[c].outer /\ n.from = job[c].from
        /\ n.owner = job[c].owner
    BY <2>0, ExtendsJob
  <2>2. job' = [job EXCEPT ![c] = n] /\ pc' = [pc EXCEPT ![c] = "next"]
        /\ UNCHANGED <<index, entry, life, cur, ent, panicking>>
    BY <1>17 DEF Record, Goto
  <2>3. keys' \in [Owner -> SUBSET Key] /\ todo' \in [Call -> SUBSET Key]
    <3>1. keys[job[c].owner] \cup {cur[c]} \in SUBSET Key /\ Names[cur[c]] \in SUBSET Key
      BY <1>t, <2>0, ExtendsAssumption DEF TypeOK
    <3> QED
      BY <1>t, <1>17, <2>0, <3>1 DEF TypeOK, Record, Listed
  <2> HIDE DEF n
  <2>4. TypeOK'
    BY <1>t, <2>1, <2>2, <2>3 DEF TypeOK
  <2>5. /\ pc'[c] = "next" /\ job'[c] = n /\ \A d \in Call \ {c} : pc'[d] = pc[d] /\ job'[d] = job[d]
    BY <1>t, <2>2 DEF TypeOK
  <2>6. Control'
    BY <1>t, <2>1, <2>2, <2>5 DEF Control
  <2>7. Family'
    BY <1>t, <2>0, <2>1, <2>2, <2>5 DEF Family
  <2>8. Origin'
    BY <1>t, <2>0, <2>1, <2>5 DEF Origin
  <2> QED
    BY <2>4, <2>6, <2>7, <2>8 DEF Shape
<1>18. ASSUME NEW c \in Call, AddOwner(c)
      PROVE  Shape'
  <2>0. pc[c] = "wait" /\ job[c] \in Job /\ cur[c] \in Key /\ ent[c] \in Entry
    BY <1>t, <1>j, <1>18 DEF AddOwner, Idle, Control
  <2>1. entry' \in [Entry -> State] /\ index' \in [Key -> Entry \cup {Nil}]
    <3>1. entry \in [Entry -> State] /\ job[c].thread \in Thread /\ job[c].owner \in Owner
      BY <1>t, <2>0, JobFields DEF TypeOK
    <3>2. entry[ent[c]].owners \cup {job[c].owner} \in SUBSET Owner /\ entry[ent[c]].owners \in SUBSET Owner
      BY <2>0, <3>1 DEF State
    <3>3. entry' \in [Entry -> State]
      <4>1. \A f \in [Entry -> State], e \in Entry, O \in SUBSET Owner :
                [f EXCEPT ![e].owners = O] \in [Entry -> State]
        BY StateWrites
      <4> PICK O : O = entry[ent[c]].owners \cup {job[c].owner}
        OBVIOUS
      <4>2. entry' = entry \/ entry' = [entry EXCEPT ![ent[c]].owners = O]
        BY <1>18 DEF AddOwner, WithOwner
      <4>3. [entry EXCEPT ![ent[c]].owners = O] \in [Entry -> State]
        BY <2>0, <3>1, <3>2, <4>1
      <4> QED
        BY <3>1, <4>2, <4>3
    <3>4. index' \in [Key -> Entry \cup {Nil}]
      BY <1>t, <1>18, <2>0, Removes DEF TypeOK, AddOwner, Idle, WithOwner, Goto, ownerVars
    <3> QED
      BY <3>3, <3>4
  <2>2. TypeOK'
    BY <1>t, <1>18, <2>1 DEF TypeOK, AddOwner, Idle, WithOwner, Goto, ownerVars
  <2>3. Control'
    BY <1>t, <1>18, <2>0 DEF TypeOK, Control, AddOwner, Idle, WithOwner, Goto, ownerVars
  <2>4. pc' \in [Call -> PC] /\ job' = job
    BY <1>18, <2>2 DEF TypeOK, AddOwner, Idle, WithOwner, Goto, ownerVars
  <2>5. /\ \A q \in Call : pc'[q] \notin AtRest => pc[q] \notin AtRest
        /\ \A q \in Call : pc[q] = "nested" => pc'[q] = "nested"
    BY <1>t, <1>18, <2>0 DEF TypeOK, AddOwner, Idle, WithOwner, Goto, ownerVars
  <2>6. Family' /\ Origin'
    BY <2>4, <2>5, Quiet
  <2> QED
    BY <2>2, <2>3, <2>6 DEF Shape
<1>19. ASSUME NEW c \in Call, Release(c)
      PROVE  Shape'
  <2>0. pc[c] = "wait" /\ job[c] \in Job /\ cur[c] \in Key /\ ent[c] \in Entry
    BY <1>t, <1>j, <1>19 DEF Release, Idle, Control
  <2>1. entry' \in [Entry -> State] /\ index' \in [Key -> Entry \cup {Nil}]
    <3>1. entry \in [Entry -> State] /\ job[c].thread \in Thread /\ job[c].owner \in Owner
      BY <1>t, <2>0, JobFields DEF TypeOK
    <3>2. entry[ent[c]].owners \cup {job[c].owner} \in SUBSET Owner /\ entry[ent[c]].owners \in SUBSET Owner
      BY <2>0, <3>1 DEF State
    <3>3. entry' \in [Entry -> State]
      <4>1. \A f \in [Entry -> State], e \in Entry, O \in SUBSET Owner, r \in BOOLEAN :
                [f EXCEPT ![e].owners = O, ![e].removed = r] \in [Entry -> State]
        BY StateWrites
      <4> PICK left, r : left = entry[ent[c]].owners \ {job[c].owner} /\ r = (left = {})
        OBVIOUS
      <4>2. entry' = entry \/ entry' = [entry EXCEPT ![ent[c]].owners = left, ![ent[c]].removed = r]
        BY <1>19 DEF Release
      <4>3. left \in SUBSET Owner /\ r \in BOOLEAN
        BY <3>2
      <4>4. [entry EXCEPT ![ent[c]].owners = left, ![ent[c]].removed = r] \in [Entry -> State]
        BY <2>0, <3>1, <4>1, <4>3, Zenon
      <4> QED
        BY <3>1, <4>2, <4>4, Zenon
    <3>4. index' \in [Key -> Entry \cup {Nil}]
      BY <1>t, <1>19, <2>0, Removes DEF TypeOK, Release, Idle, Goto, ownerVars
    <3> QED
      BY <3>3, <3>4
  <2>2. TypeOK'
    BY <1>t, <1>19, <2>1 DEF TypeOK, Release, Idle, Goto, ownerVars
  <2>3. Control'
    BY <1>t, <1>19, <2>0 DEF TypeOK, Control, Release, Idle, Goto, ownerVars
  <2>4. pc' \in [Call -> PC] /\ job' = job
    BY <1>19, <2>2 DEF TypeOK, Release, Idle, Goto, ownerVars
  <2>5. /\ \A q \in Call : pc'[q] \notin AtRest => pc[q] \notin AtRest
        /\ \A q \in Call : pc[q] = "nested" => pc'[q] = "nested"
    BY <1>t, <1>19, <2>0 DEF TypeOK, Release, Idle, Goto, ownerVars
  <2>6. Family' /\ Origin'
    BY <2>4, <2>5, Quiet
  <2> QED
    BY <2>2, <2>3, <2>6 DEF Shape
<1>20. ASSUME Finished \/ UNCHANGED vars
      PROVE  Shape'
  <2>1. TypeOK'
    BY <1>t, <1>j, <1>20 DEF TypeOK, Finished, vars, ownerVars
  <2>2. Control'
    BY <1>t, <1>j, <1>20 DEF TypeOK, Control, Finished, vars, ownerVars
  <2>3. Family'
    BY <1>t, <1>j, <1>20 DEF TypeOK, Family, Finished, vars, ownerVars
  <2>4. Origin'
    BY <1>t, <1>j, <1>20 DEF TypeOK, Origin, Finished, vars, ownerVars
  <2> QED
    BY <2>1, <2>2, <2>3, <2>4 DEF Shape
<1> QED
    BY <1>1, <1>2, <1>3, <1>4, <1>5, <1>6, <1>7, <1>8, <1>9, <1>10, <1>11, <1>12,
       <1>13, <1>14, <1>15, <1>16, <1>17, <1>18, <1>19, <1>20 DEF Next, Internal,
       Parsing

(* The empty cache has its shape. *)
LEMMA ShapeInit == Init => Shape
BY NilAssumption, Blanks DEF Init, Shape, TypeOK, Control, Family, Origin, Running, AtRest, PC, AtEntry, Claiming

(* The cache, its owners and the calls keep their shape: every call has what
   the step it is at reads, and a nested load has the one parse that waits for
   it. *)
THEOREM ShapeHolds == Spec => []Shape
<1>1. Shape /\ [Next]_vars => Shape'
    BY ShapeStep
<1> QED
    BY <1>1, ShapeInit, PTL DEF Spec
----------------------------------------------------------------------------
(* What the steps do, call by call and entry by entry *)

SameCall(d) == job'[d] = job[d] /\ cur'[d] = cur[d] /\ ent'[d] = ent[d] /\ todo'[d] = todo[d]

(* The other calls go on where they are: a sleeper is woken, a parse nests
   a call or goes on after it. *)
Others(c) ==
    \A d \in Call \ {c} :
        /\ SameCall(d)
        /\ \/ pc'[d] = pc[d]
           \/ pc[d] = "asleep" /\ pc'[d] = "wait"
           \/ pc[d] \in {"parse", "nested"} /\ pc'[d] \in {"parse", "nested", "finish"}

Writes(e, value, owners, busy, removed) ==
    /\ entry'[e].value = value /\ entry'[e].owners = owners
    /\ entry'[e].busy = busy /\ entry'[e].removed = removed
    /\ \A x \in Entry \ {e} : entry'[x] = entry[x]

Begins(c, mode) ==
    /\ pc[c] = "new" /\ pc'[c] = "next" /\ job'[c].mode = mode
    /\ UNCHANGED <<index, entry, cur, ent>> /\ Others(c)
BeginsLoad(c) ==
    /\ Begins(c, "load") /\ UNCHANGED keys
    /\ \A d \in Call : Uses(d, job'[c].owner) => job[d].mode \in Loading
    /\ \A d \in Call : OnThread(d, job'[c].thread) => job[d].mode \in Loading
BeginsInherit(c) ==
    /\ Begins(c, "inherit") /\ UNCHANGED keys /\ todo'[c] = keys[job'[c].from]
    /\ \A d \in Call : ~Uses(d, job'[c].owner) /\ ~Uses(d, job'[c].from)
    /\ \A d \in Call : ~OnThread(d, job'[c].thread)
BeginsRelease(c) ==
    /\ Begins(c, "release")
    /\ \A d \in Call : ~Uses(d, job'[c].owner)
    /\ \A d \in Call : ~OnThread(d, job'[c].thread)
    /\ \A o \in Owner \ {job'[c].owner} : keys'[o] = keys[o]
    /\ keys'[job'[c].owner] \subseteq keys[job'[c].owner]
    /\ todo'[c] = keys[job'[c].owner] \ keys'[job'[c].owner]
Takes(c) ==
    /\ pc[c] = "next" /\ pc'[c] \in {"next", "lookup"}
    /\ pc'[c] = "next" => job[c].mode = "extend"
    /\ cur'[c] \in todo[c] /\ todo'[c] = todo[c] \ {cur'[c]} /\ ent'[c] = Nil
    /\ UNCHANGED <<index, entry, keys, job>> /\ Others(c)
Leaves(c) == pc'[c] = "done" /\ ent'[c] = Nil /\ Others(c)
Ends(c) ==
    /\ Leaves(c) /\ UNCHANGED <<index, entry>>
    /\ \/ pc[c] = "wait" /\ entry[ent[c]].busy = job[c].thread /\ UNCHANGED keys
       \/ /\ pc[c] = "next" /\ todo[c] = {} /\ job[c].mode # "inherit" /\ UNCHANGED keys
       \/ /\ pc[c] = "next" /\ todo[c] = {} /\ job[c].mode = "inherit"
          /\ keys'[job[c].owner] = keys[job[c].owner] \cup keys[job[c].from]
          /\ \A o \in Owner \ {job[c].owner} : keys'[o] = keys[o]
Finds(c) ==
    /\ pc[c] = "lookup" /\ pc'[c] = "wait" /\ index[cur[c]] # Nil /\ ent'[c] = index[cur[c]]
    /\ UNCHANGED <<index, entry, keys, job, cur, todo>> /\ Others(c)
Makes(c) ==
    /\ pc[c] = "lookup" /\ pc'[c] = "wait" /\ index[cur[c]] = Nil /\ job[c].mode = "load"
    /\ ent'[c] \in Free /\ index'[cur[c]] = ent'[c]
    /\ \A k \in Key \ {cur[c]} : index'[k] = index[k]
    /\ Writes(ent'[c], FALSE, {}, Nil, FALSE)
    /\ UNCHANGED <<keys, job, cur, todo>> /\ Others(c)
(* Only the call's place changes. *)
Goes(c) == UNCHANGED <<index, entry, keys, job, cur, ent, todo>> /\ Others(c)
Misses(c) ==
    /\ pc[c] = "lookup" /\ index[cur[c]] = Nil /\ job[c].mode # "load"
    /\ pc'[c] \in {"next", "noOwners"} /\ (pc'[c] = "noOwners" => job[c].mode = "inherit")
    /\ Goes(c)
Shifts(c) ==
    /\ \/ pc[c] \in {"wait", "asleep"} /\ pc'[c] \in {"wait", "asleep"}
       \/ pc[c] \in Claiming \ {"stored"} /\ pc'[c] \in Claiming \ {"stored"}
    /\ pc'[c] = "asleep" => entry[ent[c]].busy \in Thread
    /\ Goes(c)
Retries(c) ==
    /\ pc[c] = "wait" /\ pc'[c] = "lookup" /\ job[c].mode = "load" /\ entry[ent[c]].removed
    /\ Goes(c)
Claims(c) ==
    /\ pc[c] = "wait" /\ pc'[c] = "peek" /\ job[c].mode = "load"
    /\ entry[ent[c]].busy = Nil /\ ~entry[ent[c]].removed
    /\ Writes(ent[c], entry[ent[c]].value, entry[ent[c]].owners, job[c].thread, FALSE)
    /\ UNCHANGED <<index, keys, job, cur, ent, todo>> /\ Others(c)
Stores(c) ==
    /\ pc[c] = "store" /\ pc'[c] = "stored"
    /\ Writes(ent[c], TRUE, entry[ent[c]].owners \cup {job[c].owner}, entry[ent[c]].busy,
              entry[ent[c]].removed)
    /\ UNCHANGED <<index, keys, job, cur, ent, todo>> /\ Others(c)
Finishes(c) ==
    /\ Writes(ent[c], entry[ent[c]].value, entry[ent[c]].owners, Nil, entry[ent[c]].owners = {})
    /\ \A k \in Key : index'[k] = IF entry[ent[c]].owners = {} /\ k = cur[c] /\ index[k] = ent[c]
                                    THEN Nil ELSE index[k]
    /\ \A d \in Call \ {c} : ent[d] = ent[c] => pc'[d] # "asleep"
    /\ \/ pc[c] = "stored" /\ pc'[c] = "record" /\ SameCall(c) /\ Others(c)
       \/ pc[c] = "finish" /\ Leaves(c)
    /\ UNCHANGED keys
Records(c) ==
    /\ pc[c] = "record" /\ pc'[c] = "next"
    /\ keys'[job[c].owner] = keys[job[c].owner] \cup {cur[c]}
    /\ \A o \in Owner \ {job[c].owner} : keys'[o] = keys[o]
    /\ job'[c].owner = job[c].owner /\ job'[c].mode = "extend" /\ job'[c].thread = job[c].thread
    /\ UNCHANGED <<index, entry, cur, ent>> /\ Others(c)
Declines(c) ==
    /\ pc[c] = "wait" /\ job[c].mode \in {"extend", "inherit"}
    /\ entry[ent[c]].removed \/ entry[ent[c]].owners = {}
    /\ pc'[c] \in {"next", "noOwners"} /\ (pc'[c] = "noOwners" => job[c].mode = "inherit")
    /\ Goes(c)
Adds(c) ==
    /\ pc[c] = "wait" /\ ~entry[ent[c]].removed /\ entry[ent[c]].owners # {}
    /\ \/ job[c].mode = "inherit" /\ pc'[c] = "next"
       \/ job[c].mode = "extend" /\ pc'[c] = "record"
    /\ Writes(ent[c], entry[ent[c]].value, entry[ent[c]].owners \cup {job[c].owner},
              entry[ent[c]].busy, entry[ent[c]].removed)
    /\ UNCHANGED <<index, keys, job, cur, ent, todo>> /\ Others(c)
Gives(c) ==
    /\ pc[c] = "wait" /\ pc'[c] = "next" /\ job[c].mode = "release"
    /\ entry[ent[c]].busy = Nil
    /\ UNCHANGED <<keys, job, cur, ent, todo>> /\ Others(c)
    /\ \/ entry[ent[c]].removed /\ UNCHANGED <<index, entry>>
       \/ LET left == entry[ent[c]].owners \ {job[c].owner}
          IN  /\ ~entry[ent[c]].removed
              /\ Writes(ent[c], entry[ent[c]].value, left, Nil, left = {})
              /\ \A k \in Key : index'[k] = IF left = {} /\ k = cur[c] /\ index[k] = ent[c]
                                              THEN Nil ELSE index[k]
Rests == UNCHANGED <<index, entry, keys, pc, job, cur, ent, todo>>

(* A step is one of these, of one call. *)
StepOf(c) ==
    \/ BeginsLoad(c) \/ BeginsInherit(c) \/ BeginsRelease(c) \/ Takes(c) \/ Ends(c)
    \/ Finds(c) \/ Makes(c) \/ Misses(c) \/ Shifts(c) \/ Retries(c) \/ Claims(c)
    \/ Stores(c) \/ Finishes(c) \/ Records(c) \/ Declines(c) \/ Adds(c) \/ Gives(c)

(* The step of a call that only moves itself leaves the others alone. *)
LEMMA Alone ==
    ASSUME Shape, NEW c \in Call, NEW x, pc' = [pc EXCEPT ![c] = x],
           UNCHANGED <<job, cur, todo>>, \A d \in Call \ {c} : ent'[d] = ent[d]
    PROVE  Others(c) /\ pc'[c] = x
BY DEF Shape, TypeOK, Others, SameCall

(* Every step of the system is one of these kinds of step of one call, or
   leaves the cache and the calls as they are. *)
LEMMA Steps == Shape /\ Separate /\ [Next]_vars => Rests \/ \E c \in Call : StepOf(c)
<1> SUFFICES ASSUME Shape, Separate, [Next]_vars PROVE Rests \/ \E c \in Call : StepOf(c)
    OBVIOUS
<1> USE DEF Claiming
<1>t. TypeOK /\ Control /\ Origin
    BY DEF Shape
<1>j. \A d \in Call : Running(d) => job[d] \in Job
    BY <1>t DEF Control
<1>p. /\ pc \in [Call -> PC] /\ job \in [Call -> Job \cup {Nil}] /\ cur \in [Call -> Key \cup {Nil}]
      /\ ent \in [Call -> Entry \cup {Nil}] /\ todo \in [Call -> SUBSET Key]
      /\ entry \in [Entry -> State] /\ index \in [Key -> Entry \cup {Nil}]
      /\ keys \in [Owner -> SUBSET Key]
    BY <1>t DEF TypeOK
<1>1. ASSUME NEW c \in Call, NEW t \in Thread, NEW o \in Owner, NEW k \in Key, StartLoad(c, t, o, k)
      PROVE  Rests \/ \E x \in Call : StepOf(x)
  <2>1. /\ Start(c, t, "load", o, Nil, {k}) /\ UNCHANGED <<life, keys>>
        /\ \A d \in Call : Uses(d, o) => job[d].mode \in Loading
        /\ \A d \in Call : ~OnThread(d, t)
    BY <1>1 DEF StartLoad, ownerVars, Start, Occupied, OnThread, Loading
  <2>2. /\ pc[c] = "new" /\ pc'[c] = "next" /\ job'[c].mode = "load" /\ job'[c].owner = o
        /\ job'[c].thread = t
        /\ \A d \in Call \ {c} : pc'[d] = pc[d] /\ job'[d] = job[d] /\ todo'[d] = todo[d]
        /\ UNCHANGED <<index, entry, cur, ent>>
    <3>1. life' \in [Owner -> {"none", "live", "gone"}] /\ keys' \in [Owner -> SUBSET Key]
      BY <1>t, <2>1 DEF TypeOK
    <3> QED
      BY <2>1, <3>1, StartEffect
  <2>3. BeginsLoad(c)
    BY <2>1, <2>2 DEF BeginsLoad, Begins, Others, SameCall
  <2> QED
    BY <2>3 DEF StepOf
<1>2. ASSUME NEW p \in Call, NEW c \in Call, NEW k \in Key, NestedLoad(p, c, k)
      PROVE  Rests \/ \E x \in Call : StepOf(x)
  <2>s. PICK S : S = job[p].stack \cup {cur[p]}
    OBVIOUS
  <2>n. PICK n : n = [job[p] EXCEPT !.outer = p, !.stack = S]
    OBVIOUS
  <2>1. pc[p] = "parse" /\ job[p] \in Job /\ job[p].mode = "load" /\ Running(p)
    BY <1>t, <1>j, <1>2 DEF NestedLoad, Control, Running, AtRest
  <2>2. n.mode = "load" /\ n.owner = job[p].owner /\ n.thread = job[p].thread
    BY <2>1, <2>n DEF Job
  <2>3. /\ pc[c] = "new" /\ pc' = [pc EXCEPT ![p] = "nested", ![c] = "next"]
        /\ job' = [job EXCEPT ![c] = n] /\ todo' = [todo EXCEPT ![c] = {k}]
        /\ UNCHANGED <<index, entry, keys, cur, ent>>
    BY <1>2, <2>n, <2>s DEF NestedLoad, Unused, ownerVars
  <2>4. /\ pc'[c] = "next" /\ pc'[p] = "nested" /\ job'[c] = n /\ p # c
        /\ \A d \in Call \ {c} : job'[d] = job[d] /\ todo'[d] = todo[d]
        /\ \A d \in Call \ {c, p} : pc'[d] = pc[d]
    BY <1>p, <2>1, <2>3
  <2>5. job[p].owner \in Owner /\ job[p].thread \in Thread
    BY <2>1, JobFields
  <2>6. \A d \in Call : /\ Uses(d, job[p].owner) => job[d].mode \in Loading
                        /\ OnThread(d, job[p].thread) => job[d].mode \in Loading
    BY <2>1, <2>5 DEF Separate, Uses, OnThread, Loading
  <2>7. BeginsLoad(c)
    <3>1. Others(c)
      BY <2>1, <2>3, <2>4 DEF Others, SameCall
    <3>2. /\ job'[c].mode = "load" /\ job'[c].owner = job[p].owner
          /\ job'[c].thread = job[p].thread
      BY <2>2, <2>4
    <3> QED
      <4>o. PICK o \in Owner, t \in Thread : o = job[p].owner /\ t = job[p].thread
        BY <2>5
      <4>1. \A d \in Call : /\ Uses(d, o) => job[d].mode \in Loading
                            /\ OnThread(d, t) => job[d].mode \in Loading
        BY <2>6, <4>o
      <4>2. job'[c].owner = o /\ job'[c].thread = t
        BY <3>2, <4>o
      <4>3. /\ \A d \in Call : Uses(d, job'[c].owner) => job[d].mode \in Loading
            /\ \A d \in Call : OnThread(d, job'[c].thread) => job[d].mode \in Loading
        BY <4>1, <4>2, Zenon
      <4>4. UNCHANGED <<index, entry, cur, ent>> /\ UNCHANGED keys /\ pc[c] = "new" /\ pc'[c] = "next"
        BY <2>3, <2>4
      <4> QED
        BY <3>1, <3>2, <4>3, <4>4 DEF BeginsLoad, Begins
  <2> QED
    BY <2>7 DEF StepOf
<1>3. ASSUME NEW o \in Owner, NewOwner(o)
      PROVE  Rests \/ \E x \in Call : StepOf(x)
    BY <1>3 DEF NewOwner, Rests
<1>4. ASSUME NEW c \in Call, NEW t \in Thread, NEW o \in Owner, NEW from \in Owner,
             StartInherit(c, t, o, from)
      PROVE  Rests \/ \E x \in Call : StepOf(x)
  <2>1. /\ Start(c, t, "inherit", o, from, keys[from]) /\ UNCHANGED <<life, keys>> /\ o # from
        /\ \A d \in Call : ~Uses(d, o) /\ ~Uses(d, from) /\ ~OnThread(d, t)
    BY <1>4 DEF StartInherit, ownerVars, Start, Occupied, OnThread
  <2>2. keys[from] \in SUBSET Key
    BY <1>p
  <2>3. /\ pc[c] = "new" /\ pc'[c] = "next" /\ job'[c].mode = "inherit" /\ job'[c].owner = o
        /\ job'[c].thread = t /\ job'[c].from = from /\ todo'[c] = keys[from]
        /\ \A d \in Call \ {c} : pc'[d] = pc[d] /\ job'[d] = job[d] /\ todo'[d] = todo[d]
        /\ UNCHANGED <<index, entry, cur, ent>>
    <3>1. life' \in [Owner -> {"none", "live", "gone"}] /\ keys' \in [Owner -> SUBSET Key]
      BY <1>t, <2>1 DEF TypeOK
    <3> QED
      BY <2>1, <2>2, <3>1, StartEffect
  <2>4. BeginsInherit(c)
    BY <2>1, <2>3 DEF BeginsInherit, Begins, Others, SameCall
  <2> QED
    BY <2>4 DEF StepOf
<1>5. ASSUME NEW c \in Call, NEW t \in Thread, NEW o \in Owner, NEW kept \in SUBSET keys[o],
             StartRetain(c, t, o, kept)
      PROVE  Rests \/ \E x \in Call : StepOf(x)
  <2>1. /\ Start(c, t, "release", o, Nil, keys[o] \ kept) /\ UNCHANGED life
        /\ keys' = [keys EXCEPT ![o] = kept] /\ \A d \in Call : ~Uses(d, o) /\ ~OnThread(d, t)
    BY <1>5 DEF StartRetain, Start, Occupied, OnThread
  <2>2. keys[o] \in SUBSET Key /\ keys[o] \ kept \in SUBSET Key
    BY <1>p
  <2>3. life' \in [Owner -> {"none", "live", "gone"}] /\ keys' \in [Owner -> SUBSET Key]
    BY <1>t, <2>1, <2>2 DEF TypeOK
  <2>4. /\ pc[c] = "new" /\ pc'[c] = "next" /\ job'[c].mode = "release" /\ job'[c].owner = o
        /\ job'[c].thread = t /\ todo'[c] = keys[o] \ kept
        /\ \A d \in Call \ {c} : pc'[d] = pc[d] /\ job'[d] = job[d] /\ todo'[d] = todo[d]
        /\ UNCHANGED <<index, entry, cur, ent>>
    BY <2>1, <2>2, <2>3, StartEffect
  <2>5. keys'[o] = kept /\ \A q \in Owner \ {o} : keys'[q] = keys[q]
    BY <1>p, <2>1
  <2>6. BeginsRelease(c)
    BY <2>1, <2>4, <2>5 DEF BeginsRelease, Begins, Others, SameCall
  <2> QED
    BY <2>6 DEF StepOf
<1>6. ASSUME NEW c \in Call, NEW t \in Thread, NEW o \in Owner, StartDrop(c, t, o)
      PROVE  Rests \/ \E x \in Call : StepOf(x)
  <2>1. /\ Start(c, t, "release", o, Nil, keys[o]) /\ life' = [life EXCEPT ![o] = "gone"]
        /\ keys' = [keys EXCEPT ![o] = {}] /\ \A d \in Call : ~Uses(d, o) /\ ~OnThread(d, t)
    BY <1>6 DEF StartDrop, Start, Occupied, OnThread
  <2>2. keys[o] \in SUBSET Key
    BY <1>p
  <2>3. life' \in [Owner -> {"none", "live", "gone"}] /\ keys' \in [Owner -> SUBSET Key]
    BY <1>t, <2>1, <2>2 DEF TypeOK
  <2>4. /\ pc[c] = "new" /\ pc'[c] = "next" /\ job'[c].mode = "release" /\ job'[c].owner = o
        /\ job'[c].thread = t /\ todo'[c] = keys[o]
        /\ \A d \in Call \ {c} : pc'[d] = pc[d] /\ job'[d] = job[d] /\ todo'[d] = todo[d]
        /\ UNCHANGED <<index, entry, cur, ent>>
    BY <2>1, <2>2, <2>3, StartEffect
  <2>5. keys'[o] = {} /\ \A q \in Owner \ {o} : keys'[q] = keys[q]
    BY <1>p, <2>1
  <2>6. BeginsRelease(c)
    BY <2>1, <2>4, <2>5 DEF BeginsRelease, Begins, Others, SameCall
  <2> QED
    BY <2>6 DEF StepOf
<1>7. ASSUME NEW c \in Call, Next_(c)
      PROVE  Rests \/ \E x \in Call : StepOf(x)
  <2>0. pc[c] = "next" /\ job[c] \in Job /\ job[c].owner \in Owner
    BY <1>j, <1>7, JobFields DEF Next_, Running, AtRest
  <2>a. CASE todo[c] # {}
    <3>1. PICK k \in todo[c] :
              /\ cur' = [cur EXCEPT ![c] = k] /\ todo' = [todo EXCEPT ![c] = @ \ {k}]
              /\ pc' = [pc EXCEPT ![c] = IF Known(c, k) THEN "next" ELSE "lookup"]
              /\ ent' = [ent EXCEPT ![c] = Nil] /\ UNCHANGED <<index, entry, keys, job>>
      BY <1>7, <2>a DEF Next_, Goto
    <3>2. cur'[c] = k /\ todo'[c] = todo[c] \ {k} /\ ent'[c] = Nil
      BY <1>p, <3>1
    <3>3. /\ pc'[c] \in {"next", "lookup"} /\ (pc'[c] = "next" => job[c].mode = "extend")
          /\ Others(c)
      BY <1>p, <3>1 DEF Known, Others, SameCall
    <3>4. Takes(c)
      BY <2>0, <3>1, <3>2, <3>3 DEF Takes
    <3> QED
      BY <3>4 DEF StepOf
  <2>b. CASE todo[c] = {}
    <3>1. /\ pc' = Returned(c, "parse") /\ Forget(c) /\ UNCHANGED <<index, entry, life, panicking>>
          /\ \/ keys' = keys /\ job[c].mode # "inherit"
             \/ keys' = [keys EXCEPT ![job[c].owner] = @ \cup keys[job[c].from]]
                /\ job[c].mode = "inherit"
      BY <1>7, <2>b DEF Next_
    <3>2. keys' \in [Owner -> SUBSET Key]
      BY <1>p, <1>t, <2>0, <3>1 DEF Origin, Running, AtRest
    <3>3. Leaves(c)
      BY <1>t, <2>0, <3>1, <3>2, Ending DEF TypeOK, Leaves, Others, SameCall
    <3>4. Ends(c)
      BY <1>p, <2>0, <2>b, <3>1, <3>3 DEF Ends
    <3> QED
      BY <3>4 DEF StepOf
  <2> QED
    BY <2>a, <2>b
<1>8. ASSUME NEW c \in Call, Lookup(c)
      PROVE  Rests \/ \E x \in Call : StepOf(x)
  <2>0. pc[c] = "lookup" /\ cur[c] \in Key /\ UNCHANGED <<keys, job, cur, todo>>
    BY <1>t, <1>8 DEF Lookup, Control, ownerVars
  <2>1. CASE index[cur[c]] # Nil
    <3>1. /\ ent' = [ent EXCEPT ![c] = index[cur[c]]] /\ pc' = [pc EXCEPT ![c] = "wait"]
          /\ UNCHANGED <<index, entry>>
      BY <1>8, <2>1 DEF Lookup, Goto
    <3>2. ent'[c] = index[cur[c]] /\ \A d \in Call \ {c} : ent'[d] = ent[d]
      BY <1>p, <3>1
    <3>3. Finds(c)
      BY <2>0, <2>1, <3>1, <3>2, Alone DEF Finds
    <3> QED
      BY <3>3 DEF StepOf
  <2>2. CASE index[cur[c]] = Nil /\ job[c].mode = "load"
    <3>1. PICK e \in Free : /\ index' = [index EXCEPT ![cur[c]] = e]
                            /\ entry' = [entry EXCEPT ![e] = Blank]
                            /\ ent' = [ent EXCEPT ![c] = e]
                            /\ pc' = [pc EXCEPT ![c] = "wait"]
      BY <1>8, <2>2 DEF Lookup, Goto
    <3>2. ent'[c] = e /\ \A d \in Call \ {c} : ent'[d] = ent[d]
      BY <1>p, <3>1
    <3>3. index'[cur[c]] = e /\ \A k \in Key \ {cur[c]} : index'[k] = index[k]
      BY <1>p, <2>0, <3>1
    <3>4. entry'[e] = Blank /\ \A x \in Entry \ {e} : entry'[x] = entry[x]
      BY <1>p, <3>1 DEF Free
    <3>5. Writes(e, FALSE, {}, Nil, FALSE)
      BY <3>4 DEF Writes, Blank
    <3>6. Makes(c)
      BY <2>0, <2>2, <3>1, <3>2, <3>3, <3>5, Alone DEF Makes
    <3> QED
      BY <3>6 DEF StepOf
  <2>3. CASE index[cur[c]] = Nil /\ job[c].mode # "load"
    <3>1. /\ UNCHANGED <<index, entry, ent>>
          /\ pc' = [pc EXCEPT ![c] = IF job[c].mode = "inherit" THEN "noOwners" ELSE "next"]
      BY <1>8, <2>3 DEF Lookup, Goto
    <3>2. Misses(c)
      BY <2>0, <2>3, <3>1, Alone DEF Misses, Goes
    <3> QED
      BY <3>2 DEF StepOf
  <2> QED
    BY <2>1, <2>2, <2>3
<1>9. ASSUME NEW c \in Call, Reenter(c)
      PROVE  Rests \/ \E x \in Call : StepOf(x)
  <2>1. /\ pc[c] = "wait" /\ pc' = Returned(c, "finish") /\ Forget(c)
        /\ panicking' = (panicking \cup {job[c].outer}) \ {Nil}
        /\ UNCHANGED <<index, entry, life, keys>> /\ entry[ent[c]].busy = job[c].thread
    BY <1>9 DEF Reenter, ownerVars
  <2>2. job[c].thread \in Thread /\ job[c].outer \in Call \cup {Nil}
    BY <1>j, <2>1, JobFields DEF Running, AtRest
  <2>3. panicking' \in SUBSET Call
    BY <1>t, <2>1, <2>2 DEF TypeOK
  <2>4. Leaves(c)
    BY <1>t, <2>1, <2>3, Ending DEF TypeOK, Leaves, Others, SameCall
  <2>5. Ends(c)
    BY <2>1, <2>2, <2>4, NilAssumption DEF Ends
  <2> QED
    BY <2>5 DEF StepOf
<1>10. ASSUME NEW c \in Call, Sleep(c)
      PROVE  Rests \/ \E x \in Call : StepOf(x)
  <2>1. /\ pc[c] = "wait" /\ pc' = [pc EXCEPT ![c] = "asleep"] /\ entry[ent[c]].busy \in Thread
        /\ UNCHANGED <<index, entry, keys, job, cur, ent, todo>>
    BY <1>10 DEF Sleep, Goto, ownerVars
  <2>2. PICK x : pc' = [pc EXCEPT ![c] = x] /\ x \in {"wait", "asleep", "store", "parse", "finish"}
    BY <2>1
  <2>3. Others(c) /\ pc'[c] = x
    BY <2>1, <2>2, Alone
  <2>4. Shifts(c)
    BY <1>p, <2>1, <2>3 DEF Shifts, Goes
  <2> QED
    BY <2>4 DEF StepOf
<1>11. ASSUME NEW c \in Call, SpuriousWake(c)
      PROVE  Rests \/ \E x \in Call : StepOf(x)
  <2>1. /\ pc[c] = "asleep" /\ pc' = [pc EXCEPT ![c] = "wait"]
        /\ UNCHANGED <<index, entry, keys, job, cur, ent, todo>>
    BY <1>11 DEF SpuriousWake, Goto, ownerVars
  <2>2. PICK x : pc' = [pc EXCEPT ![c] = x] /\ x \in {"wait", "asleep", "store", "parse", "finish"}
    BY <2>1
  <2>3. Others(c) /\ pc'[c] = x
    BY <2>1, <2>2, Alone
  <2>4. Shifts(c)
    BY <1>p, <2>1, <2>3 DEF Shifts, Goes
  <2> QED
    BY <2>4 DEF StepOf
<1>12. ASSUME NEW c \in Call, Claim(c)
      PROVE  Rests \/ \E x \in Call : StepOf(x)
  <2>0. /\ pc[c] = "wait" /\ job[c].mode = "load" /\ entry[ent[c]].busy = Nil /\ ent[c] \in Entry
        /\ UNCHANGED <<index, keys, job, cur, ent, todo>>
    BY <1>t, <1>12 DEF Claim, Idle, ownerVars, Control, AtEntry
  <2>1. CASE entry[ent[c]].removed
    <3>1. pc' = [pc EXCEPT ![c] = "lookup"] /\ entry' = entry
      BY <1>12, <2>1 DEF Claim, Gone, Goto
    <3>2. Retries(c)
      BY <2>0, <2>1, <3>1, Alone DEF Retries, Goes
    <3> QED
      BY <3>2 DEF StepOf
  <2>2. CASE ~entry[ent[c]].removed
    <3>1. pc' = [pc EXCEPT ![c] = "peek"] /\ entry' = [entry EXCEPT ![ent[c]].busy = job[c].thread]
      BY <1>12, <2>2 DEF Claim, Gone, Goto
    <3>2. Writes(ent[c], entry[ent[c]].value, entry[ent[c]].owners, job[c].thread, FALSE)
      BY <1>p, <2>0, <2>2, <3>1 DEF Writes, State
    <3>3. Claims(c)
      BY <2>0, <2>2, <3>1, <3>2, Alone DEF Claims
    <3> QED
      BY <3>3 DEF StepOf
  <2> QED
    BY <2>1, <2>2
<1>13. ASSUME NEW c \in Call, NEW v \in {"store", "parse", "finish"}, Peek(c, v)
      PROVE  Rests \/ \E x \in Call : StepOf(x)
  <2>1. /\ pc[c] = "peek" /\ pc' = [pc EXCEPT ![c] = v]
        /\ UNCHANGED <<index, entry, keys, job, cur, ent, todo>>
    BY <1>13 DEF Peek, Goto, ownerVars
  <2>2. PICK x : pc' = [pc EXCEPT ![c] = x] /\ x \in {"wait", "asleep", "store", "parse", "finish"}
    BY <2>1
  <2>3. Others(c) /\ pc'[c] = x
    BY <2>1, <2>2, Alone
  <2>4. Shifts(c)
    BY <1>p, <2>1, <2>3 DEF Shifts, Goes
  <2> QED
    BY <2>4 DEF StepOf
<1>14. ASSUME NEW c \in Call, NEW v \in {"ok"} \cup Faults, Parse(c, v)
      PROVE  Rests \/ \E x \in Call : StepOf(x)
  <2>1. /\ pc[c] = "parse" /\ pc' = [pc EXCEPT ![c] = IF v = "ok" THEN "store" ELSE "finish"]
        /\ UNCHANGED <<index, entry, keys, job, cur, ent, todo>>
    BY <1>14 DEF Parse, Goto, ownerVars
  <2>2. PICK x : pc' = [pc EXCEPT ![c] = x] /\ x \in {"wait", "asleep", "store", "parse", "finish"}
    BY <2>1
  <2>3. Others(c) /\ pc'[c] = x
    BY <2>1, <2>2, Alone
  <2>4. Shifts(c)
    BY <1>p, <2>1, <2>3 DEF Shifts, Goes
  <2> QED
    BY <2>4 DEF StepOf
<1>15. ASSUME NEW c \in Call, Store(c)
      PROVE  Rests \/ \E x \in Call : StepOf(x)
  <2>0. /\ pc[c] = "store" /\ pc' = [pc EXCEPT ![c] = "stored"] /\ ent[c] \in Entry
        /\ UNCHANGED <<index, keys, job, cur, ent, todo>>
        /\ entry' = [entry EXCEPT ![ent[c]].value = TRUE,
                                  ![ent[c]].owners = entry[ent[c]].owners \cup {job[c].owner}]
    BY <1>t, <1>15 DEF Store, WithOwner, Goto, ownerVars, Control, AtEntry
  <2>1. Writes(ent[c], TRUE, entry[ent[c]].owners \cup {job[c].owner}, entry[ent[c]].busy,
               entry[ent[c]].removed)
    BY <1>p, <2>0 DEF Writes, State
  <2>2. Stores(c)
    BY <2>0, <2>1, Alone DEF Stores
  <2> QED
    BY <2>2 DEF StepOf
<1>16. ASSUME NEW c \in Call, Finish(c)
      PROVE  Rests \/ \E x \in Call : StepOf(x)
  <2>0. /\ pc[c] \in {"stored", "finish"} /\ job[c] \in Job /\ cur[c] \in Key /\ ent[c] \in Entry
        /\ UNCHANGED <<life, keys>>
    BY <1>t, <1>j, <1>16 DEF Finish, ownerVars, Control, AtEntry, Running, AtRest
  <2>a. PICK last : last = (entry[ent[c]].owners = {})
    OBVIOUS
  <2>1. /\ entry' = [entry EXCEPT ![ent[c]].busy = Nil, ![ent[c]].removed = last]
        /\ index' = IF last THEN Removed(cur[c], ent[c]) ELSE index
    BY <1>16, <2>a DEF Finish
  <2>2. Writes(ent[c], entry[ent[c]].value, entry[ent[c]].owners, Nil, last)
    BY <1>p, <2>0, <2>1 DEF Writes, State
  <2>3. \A k \in Key : index'[k] = IF last /\ k = cur[c] /\ index[k] = ent[c]
                                     THEN Nil ELSE index[k]
    BY <1>t, <2>0, <2>1, Removes
  <2>4. /\ \/ pc[c] = "stored" /\ pc'[c] = "record" /\ SameCall(c) /\ Others(c)
           \/ pc[c] = "finish" /\ Leaves(c)
        /\ \A d \in Call \ {c} : ent[d] = ent[c] => pc'[d] # "asleep"
    <3>b. PICK f : pc' = WakeAll(ent[c], f) /\ (pc[c] = "stored" => f = [pc EXCEPT ![c] = "record"])
                   /\ (pc[c] = "finish" => \E p \in {"parse", "finish"} : f = Returned(c, p))
      BY <1>16 DEF Finish, Goto
    <3>1. \A d \in Call \ {c} : ent[d] = ent[c] => pc'[d] # "asleep"
      BY <3>b DEF WakeAll
    <3>2. CASE pc[c] = "stored"
      <4>1. UNCHANGED <<job, cur, ent, todo>> /\ f[c] = "record" /\ \A d \in Call \ {c} : f[d] = pc[d]
        BY <1>p, <1>16, <3>2, <3>b DEF Finish
      <4>2. /\ pc'[c] = "record"
            /\ \A d \in Call \ {c} : pc'[d] = pc[d] \/ (pc[d] = "asleep" /\ pc'[d] = "wait")
        BY <3>b, <4>1 DEF WakeAll
      <4> QED
        BY <3>1, <3>2, <4>1, <4>2 DEF SameCall, Others
    <3>3. CASE pc[c] = "finish"
      <4>1. PICK p \in {"parse", "finish"} : pc' = WakeAll(ent[c], Returned(c, p))
        BY <3>b, <3>3
      <4>2. Forget(c)
        BY <1>16, <3>3 DEF Finish
      <4>3. Shape' /\ TypeOK'
        BY ShapeStep DEF Shape
      <4>4. /\ pc'[c] = "done" /\ ent'[c] = Nil
            /\ \A d \in Call \ {c} :
                 /\ job'[d] = job[d] /\ cur'[d] = cur[d] /\ ent'[d] = ent[d] /\ todo'[d] = todo[d]
                 /\ \/ pc'[d] = pc[d] /\ d # job[c].outer
                    \/ pc[d] = "nested" /\ d = job[c].outer /\ pc'[d] = p
                    \/ pc[d] = "asleep" /\ pc'[d] = "wait" /\ d # job[c].outer
        BY <3>3, <4>1, <4>2, <4>3, Ending DEF TypeOK
      <4>5. Leaves(c)
        BY <4>4 DEF Leaves, Others, SameCall
      <4> QED
        BY <3>1, <3>3, <4>5
    <3> QED
      BY <2>0, <3>2, <3>3
  <2>5. Finishes(c)
    BY <2>0, <2>a, <2>2, <2>3, <2>4, Zenon DEF Finishes
  <2> QED
    BY <2>5 DEF StepOf
<1>17. ASSUME NEW c \in Call, Record(c)
      PROVE  Rests \/ \E x \in Call : StepOf(x)
  <2>0. /\ pc[c] = "record" /\ job[c] \in Job /\ job[c].owner \in Owner
    BY <1>j, <1>17, JobFields DEF Record, Running, AtRest
  <2>n. PICK n : n = [job[c] EXCEPT !.mode = "extend"]
    OBVIOUS
  <2>1. n.mode = "extend" /\ n.owner = job[c].owner /\ n.thread = job[c].thread
    BY <2>0, <2>n DEF Job
  <2>2. /\ job' = [job EXCEPT ![c] = n] /\ pc' = [pc EXCEPT ![c] = "next"]
        /\ UNCHANGED <<index, entry, cur, ent>>
        /\ keys' = [keys EXCEPT ![job[c].owner] = @ \cup {cur[c]}]
    BY <1>17, <2>n DEF Record, Goto, Listed
  <2>3. \A d \in Call \ {c} : todo'[d] = todo[d]
    BY <1>p, <1>17 DEF Record
  <2>4. Others(c) /\ pc'[c] = "next" /\ job'[c] = n
    BY <1>p, <2>2, <2>3 DEF Others, SameCall
  <2>5. /\ keys'[job[c].owner] = keys[job[c].owner] \cup {cur[c]}
        /\ \A o \in Owner \ {job[c].owner} : keys'[o] = keys[o]
    BY <1>p, <2>0, <2>2
  <2>6. Records(c)
    BY <2>0, <2>1, <2>2, <2>4, <2>5 DEF Records
  <2> QED
    BY <2>6 DEF StepOf
<1>18. ASSUME NEW c \in Call, AddOwner(c)
      PROVE  Rests \/ \E x \in Call : StepOf(x)
  <2>0. /\ pc[c] = "wait" /\ job[c].mode \in {"extend", "inherit"} /\ ent[c] \in Entry
        /\ UNCHANGED <<index, keys, job, cur, ent, todo>>
    BY <1>t, <1>18 DEF AddOwner, Idle, ownerVars, Control, AtEntry
  <2>1. CASE entry[ent[c]].removed \/ entry[ent[c]].owners = {}
    <3>1. /\ pc' = [pc EXCEPT ![c] = IF job[c].mode = "inherit" THEN "noOwners" ELSE "next"]
          /\ entry' = entry
      BY <1>18, <2>1 DEF AddOwner, Gone, Goto
    <3>2. Declines(c)
      BY <2>0, <2>1, <3>1, Alone DEF Declines, Goes
    <3> QED
      BY <3>2 DEF StepOf
  <2>2. CASE ~(entry[ent[c]].removed \/ entry[ent[c]].owners = {})
    <3>1. /\ pc' = [pc EXCEPT ![c] = IF job[c].mode = "inherit" THEN "next" ELSE "record"]
          /\ entry' = [entry EXCEPT ![ent[c]].owners = entry[ent[c]].owners \cup {job[c].owner}]
      BY <1>18, <2>2 DEF AddOwner, WithOwner, Gone, Goto
    <3>2. Writes(ent[c], entry[ent[c]].value, entry[ent[c]].owners \cup {job[c].owner},
                 entry[ent[c]].busy, entry[ent[c]].removed)
      BY <1>p, <2>0, <3>1 DEF Writes, State
    <3>3. Adds(c)
      BY <2>0, <2>2, <3>1, <3>2, Alone DEF Adds
    <3> QED
      BY <3>3 DEF StepOf
  <2> QED
    BY <2>1, <2>2
<1>19. ASSUME NEW c \in Call, Release(c)
      PROVE  Rests \/ \E x \in Call : StepOf(x)
  <2>0. /\ pc[c] = "wait" /\ pc' = [pc EXCEPT ![c] = "next"] /\ job[c].mode = "release"
        /\ ent[c] \in Entry /\ cur[c] \in Key /\ entry[ent[c]].busy = Nil
        /\ UNCHANGED <<keys, job, cur, ent, todo>>
    BY <1>t, <1>19 DEF Release, Idle, Goto, ownerVars, Control, AtEntry
  <2>1. CASE entry[ent[c]].removed
    <3>1. UNCHANGED <<index, entry>>
      BY <1>19, <2>1 DEF Release, Gone
    <3>2. Gives(c)
      BY <2>0, <2>1, <3>1, Alone DEF Gives
    <3> QED
      BY <3>2 DEF StepOf
  <2>2. CASE ~entry[ent[c]].removed
    <3>a. PICK left, r : left = entry[ent[c]].owners \ {job[c].owner} /\ r = (left = {})
      OBVIOUS
    <3>1. /\ entry' = [entry EXCEPT ![ent[c]].owners = left, ![ent[c]].removed = r]
          /\ index' = IF left = {} THEN Removed(cur[c], ent[c]) ELSE index
      BY <1>19, <2>2, <3>a DEF Release, Gone
    <3>2. Writes(ent[c], entry[ent[c]].value, left, Nil, r)
      BY <1>p, <2>0, <3>1 DEF Writes, State
    <3>3. \A k \in Key : index'[k] = IF left = {} /\ k = cur[c] /\ index[k] = ent[c]
                                       THEN Nil ELSE index[k]
      BY <1>t, <2>0, <3>1, Removes
    <3>4. Others(c) /\ pc'[c] = "next"
      BY <2>0, Alone
    <3>5. Gives(c)
      BY <2>0, <2>2, <3>a, <3>2, <3>3, <3>4, Zenon DEF Gives
    <3> QED
      BY <3>5 DEF StepOf
  <2> QED
    BY <2>1, <2>2
<1>20. ASSUME Finished \/ UNCHANGED vars
      PROVE  Rests \/ \E x \in Call : StepOf(x)
    BY <1>20 DEF Finished, vars, ownerVars, Rests
<1> QED
    BY <1>1, <1>2, <1>3, <1>4, <1>5, <1>6, <1>7, <1>8, <1>9, <1>10, <1>11, <1>12,
       <1>13, <1>14, <1>15, <1>16, <1>17, <1>18, <1>19, <1>20 DEF Next, Internal,
       Parsing
----------------------------------------------------------------------------
(* Owners and entries are not shared *)

(* No owner is released or inherited while another call uses it. *)
LEMMA SeparateStep ==
    ASSUME Shape, Shape', Separate, Rests \/ \E x \in Call : StepOf(x)
    PROVE  Separate'
<1> USE NilAssumption DEF Running, AtRest
<1>a. /\ \A d \in Call : Running(d) => job[d] \in Job
      /\ pc \in [Call -> PC] /\ job \in [Call -> Job \cup {Nil}]
    BY DEF Shape, TypeOK, Control
<1>b. \A d \in Call : pc[d] \in {"stored", "finish", "record"} =>
          job[d].mode \in {"load", "extend"}
    BY DEF Shape, Control, Claiming
<1>c. \A d \in Call : Running(d)' /\ job'[d].mode # "inherit" => job'[d].from = Nil
    BY DEF Shape, Origin
<1>d. \A d \in Call : Running(d) /\ job[d].mode # "inherit" => job[d].from = Nil
    BY DEF Shape, Origin
<1>1. ASSUME NEW c \in Call, BeginsLoad(c)
      PROVE  Separate'
    BY <1>a, <1>b, <1>c, <1>d, <1>1 DEF BeginsLoad, Begins, Others, SameCall, Separate,
       Uses, OnThread, Loading, Claiming
<1>2. ASSUME NEW c \in Call, BeginsInherit(c)
      PROVE  Separate'
    BY <1>a, <1>b, <1>c, <1>d, <1>2 DEF BeginsInherit, Begins, Others, SameCall, Separate,
       Uses, OnThread, Loading, Claiming
<1>3. ASSUME NEW c \in Call, BeginsRelease(c)
      PROVE  Separate'
    BY <1>a, <1>b, <1>c, <1>d, <1>3 DEF BeginsRelease, Begins, Others, SameCall, Separate,
       Uses, OnThread, Loading, Claiming
<1>4. ASSUME NEW c \in Call, Takes(c)
      PROVE  Separate'
    BY <1>a, <1>b, <1>c, <1>d, <1>4 DEF Takes, Others, SameCall, Separate, Uses, OnThread,
       Loading, Claiming
<1>5. ASSUME NEW c \in Call, Ends(c)
      PROVE  Separate'
    BY <1>a, <1>b, <1>c, <1>d, <1>5 DEF Ends, Leaves, Others, SameCall, Separate, Uses,
       OnThread, Loading, Claiming
<1>6. ASSUME NEW c \in Call, Finds(c)
      PROVE  Separate'
    BY <1>a, <1>b, <1>c, <1>d, <1>6 DEF Finds, Others, SameCall, Separate, Uses, OnThread,
       Loading, Claiming
<1>7. ASSUME NEW c \in Call, Makes(c)
      PROVE  Separate'
    BY <1>a, <1>b, <1>c, <1>d, <1>7 DEF Makes, Writes, Free, Others, SameCall, Separate,
       Uses, OnThread, Loading, Claiming
<1>8. ASSUME NEW c \in Call, Misses(c)
      PROVE  Separate'
    BY <1>a, <1>b, <1>c, <1>d, <1>8 DEF Misses, Goes, Others, SameCall, Separate, Uses,
       OnThread, Loading, Claiming
<1>9. ASSUME NEW c \in Call, Shifts(c)
      PROVE  Separate'
    BY <1>a, <1>b, <1>c, <1>d, <1>9 DEF Shifts, Goes, Others, SameCall, Separate, Uses,
       OnThread, Loading, Claiming
<1>10. ASSUME NEW c \in Call, Retries(c)
      PROVE  Separate'
    BY <1>a, <1>b, <1>c, <1>d, <1>10 DEF Retries, Goes, Others, SameCall, Separate, Uses,
       OnThread, Loading, Claiming
<1>11. ASSUME NEW c \in Call, Claims(c)
      PROVE  Separate'
    BY <1>a, <1>b, <1>c, <1>d, <1>11 DEF Claims, Writes, Others, SameCall, Separate, Uses,
       OnThread, Loading, Claiming
<1>12. ASSUME NEW c \in Call, Stores(c)
      PROVE  Separate'
    BY <1>a, <1>b, <1>c, <1>d, <1>12 DEF Stores, Writes, Others, SameCall, Separate, Uses,
       OnThread, Loading, Claiming
<1>13. ASSUME NEW c \in Call, Finishes(c)
      PROVE  Separate'
    BY <1>a, <1>b, <1>c, <1>d, <1>13 DEF Finishes, Leaves, Writes, Others, SameCall,
       Separate, Uses, OnThread, Loading, Claiming
<1>14. ASSUME NEW c \in Call, Records(c)
      PROVE  Separate'
    BY <1>a, <1>b, <1>c, <1>d, <1>14 DEF Records, Others, SameCall, Separate, Uses,
       OnThread, Loading, Claiming
<1>15. ASSUME NEW c \in Call, Declines(c)
      PROVE  Separate'
    BY <1>a, <1>b, <1>c, <1>d, <1>15 DEF Declines, Goes, Others, SameCall, Separate, Uses,
       OnThread, Loading, Claiming
<1>16. ASSUME NEW c \in Call, Adds(c)
      PROVE  Separate'
    BY <1>a, <1>b, <1>c, <1>d, <1>16 DEF Adds, Writes, Others, SameCall, Separate, Uses,
       OnThread, Loading, Claiming
<1>17. ASSUME NEW c \in Call, Gives(c)
      PROVE  Separate'
    BY <1>a, <1>b, <1>c, <1>d, <1>17 DEF Gives, Writes, Others, SameCall, Separate, Uses,
       OnThread, Loading, Claiming
<1>18. ASSUME Rests
      PROVE  Separate'
    BY <1>a, <1>b, <1>c, <1>d, <1>18 DEF Rests, Separate, Uses, OnThread, Loading,
       Claiming
<1> QED
    BY <1>1, <1>2, <1>3, <1>4, <1>5, <1>6, <1>7, <1>8, <1>9, <1>10, <1>11, <1>12, <1>13,
       <1>14, <1>15, <1>16, <1>17, <1>18 DEF StepOf

(* An entry is claimed by one call at a time, and calls sleep only on claimed ones. *)
LEMMA BusyStep ==
    ASSUME Shape, Shape', Busy, NoLostWakeup, Rests \/ \E x \in Call : StepOf(x)
    PROVE  Busy' /\ NoLostWakeup'
<1> USE NilAssumption DEF Claiming, AtEntry
<1>a. /\ pc \in [Call -> PC] /\ ent \in [Call -> Entry \cup {Nil}] /\ entry \in [Entry -> State]
      /\ \A d \in Call : pc[d] \in AtEntry => ent[d] \in Entry
      /\ \A d \in Call : pc[d] \in Claiming => job[d].thread \in Thread
    BY JobFields DEF Shape, TypeOK, Control, Running, AtRest
<1>b. \A d \in Call : pc[d] = "wait" => job[d].thread \in Thread
    BY JobFields DEF Shape, Control, Running, AtRest
<1>1. ASSUME NEW c \in Call, BeginsLoad(c)
      PROVE  Busy' /\ NoLostWakeup'
    BY <1>a, <1>b, <1>1 DEF BeginsLoad, Begins, Others, SameCall, Busy, NoLostWakeup
<1>2. ASSUME NEW c \in Call, BeginsInherit(c)
      PROVE  Busy' /\ NoLostWakeup'
    BY <1>a, <1>b, <1>2 DEF BeginsInherit, Begins, Others, SameCall, Busy, NoLostWakeup
<1>3. ASSUME NEW c \in Call, BeginsRelease(c)
      PROVE  Busy' /\ NoLostWakeup'
    BY <1>a, <1>b, <1>3 DEF BeginsRelease, Begins, Others, SameCall, Busy, NoLostWakeup
<1>4. ASSUME NEW c \in Call, Takes(c)
      PROVE  Busy' /\ NoLostWakeup'
    BY <1>a, <1>b, <1>4 DEF Takes, Others, SameCall, Busy, NoLostWakeup
<1>5. ASSUME NEW c \in Call, Ends(c)
      PROVE  Busy' /\ NoLostWakeup'
    BY <1>a, <1>b, <1>5 DEF Ends, Leaves, Others, SameCall, Busy, NoLostWakeup
<1>6. ASSUME NEW c \in Call, Finds(c)
      PROVE  Busy' /\ NoLostWakeup'
    BY <1>a, <1>b, <1>6 DEF Finds, Others, SameCall, Busy, NoLostWakeup
<1>7. ASSUME NEW c \in Call, Makes(c)
      PROVE  Busy' /\ NoLostWakeup'
    BY <1>a, <1>b, <1>7 DEF Makes, Writes, Free, Others, SameCall, Busy, NoLostWakeup
<1>8. ASSUME NEW c \in Call, Misses(c)
      PROVE  Busy' /\ NoLostWakeup'
    BY <1>a, <1>b, <1>8 DEF Misses, Goes, Others, SameCall, Busy, NoLostWakeup
<1>9. ASSUME NEW c \in Call, Shifts(c)
      PROVE  Busy' /\ NoLostWakeup'
    BY <1>a, <1>b, <1>9 DEF Shifts, Goes, Others, SameCall, Busy, NoLostWakeup
<1>10. ASSUME NEW c \in Call, Retries(c)
      PROVE  Busy' /\ NoLostWakeup'
    BY <1>a, <1>b, <1>10 DEF Retries, Goes, Others, SameCall, Busy, NoLostWakeup
<1>11. ASSUME NEW c \in Call, Claims(c)
      PROVE  Busy' /\ NoLostWakeup'
    BY <1>a, <1>b, <1>11 DEF Claims, Writes, Others, SameCall, Busy, NoLostWakeup
<1>12. ASSUME NEW c \in Call, Stores(c)
      PROVE  Busy' /\ NoLostWakeup'
    BY <1>a, <1>b, <1>12 DEF Stores, Writes, Others, SameCall, Busy, NoLostWakeup
<1>13. ASSUME NEW c \in Call, Finishes(c)
      PROVE  Busy' /\ NoLostWakeup'
    BY <1>a, <1>b, <1>13 DEF Finishes, Leaves, Writes, Others, SameCall, Busy,
       NoLostWakeup
<1>14. ASSUME NEW c \in Call, Records(c)
      PROVE  Busy' /\ NoLostWakeup'
    BY <1>a, <1>b, <1>14 DEF Records, Others, SameCall, Busy, NoLostWakeup
<1>15. ASSUME NEW c \in Call, Declines(c)
      PROVE  Busy' /\ NoLostWakeup'
    BY <1>a, <1>b, <1>15 DEF Declines, Goes, Others, SameCall, Busy, NoLostWakeup
<1>16. ASSUME NEW c \in Call, Adds(c)
      PROVE  Busy' /\ NoLostWakeup'
    BY <1>a, <1>b, <1>16 DEF Adds, Writes, Others, SameCall, Busy, NoLostWakeup
<1>17. ASSUME NEW c \in Call, Gives(c)
      PROVE  Busy' /\ NoLostWakeup'
    BY <1>a, <1>b, <1>17 DEF Gives, Writes, Others, SameCall, Busy, NoLostWakeup
<1>18. ASSUME Rests
      PROVE  Busy' /\ NoLostWakeup'
    BY <1>a, <1>b, <1>18 DEF Rests, Busy, NoLostWakeup
<1> QED
    BY <1>1, <1>2, <1>3, <1>4, <1>5, <1>6, <1>7, <1>8, <1>9, <1>10, <1>11, <1>12, <1>13,
       <1>14, <1>15, <1>16, <1>17, <1>18 DEF StepOf

(* Call c, finishing a load or giving up an entry, takes the entry out of the
   index when no owner is left. *)
Out(c, gone) ==
    /\ ent[c] \in Entry /\ cur[c] \in Key
    /\ index[cur[c]] = ent[c] /\ ~entry[ent[c]].removed
    /\ gone = (entry'[ent[c]].owners = {}) /\ entry'[ent[c]].removed = gone
    /\ entry'[ent[c]].value = entry[ent[c]].value
    /\ entry'[ent[c]].owners = IF Finishes(c) THEN entry[ent[c]].owners
                               ELSE entry[ent[c]].owners \ {job[c].owner}
    /\ \A x \in Entry \ {ent[c]} : entry'[x] = entry[x]
    /\ \A k \in Key : index'[k] = IF gone /\ k = cur[c] THEN Nil ELSE index[k]
    /\ Others(c) /\ UNCHANGED keys
    /\ \/ pc[c] \in {"stored", "wait"} /\ pc'[c] \in {"record", "next"} /\ SameCall(c)
       \/ pc[c] = "finish" /\ pc'[c] = "done" /\ ent'[c] = Nil

(* Both steps do that to an entry that is not out already. *)
LEMMA OutEffect ==
    ASSUME Shape, Placed, NEW c \in Call,
           Finishes(c) \/ (Gives(c) /\ ~entry[ent[c]].removed)
    PROVE  \E gone \in BOOLEAN : Out(c, gone)
<1>1. pc[c] \in {"stored", "finish", "wait"}
    BY DEF Finishes, Gives
<1>2. ent[c] \in Entry /\ cur[c] \in Key
    BY <1>1 DEF Shape, Control, AtEntry, Claiming
<1>3. ~entry[ent[c]].removed
    BY DEF Finishes, Placed, Claiming
<1>4. index[cur[c]] = ent[c]
    BY <1>2, <1>3, NilAssumption DEF Placed
<1>5. CASE Finishes(c)
  <2>1. /\ \A x \in Entry \ {ent[c]} : entry'[x] = entry[x]
        /\ entry'[ent[c]].value = entry[ent[c]].value /\ entry'[ent[c]].owners = entry[ent[c]].owners
        /\ entry'[ent[c]].removed = (entry[ent[c]].owners = {})
    BY <1>5 DEF Finishes, Writes
  <2>2. \A k \in Key : index'[k] = IF entry[ent[c]].owners = {} /\ k = cur[c] /\ index[k] = ent[c]
                                     THEN Nil ELSE index[k]
    BY <1>5 DEF Finishes
  <2>3. /\ Others(c) /\ UNCHANGED keys
        /\ \/ pc[c] = "stored" /\ pc'[c] = "record" /\ SameCall(c)
           \/ pc[c] = "finish" /\ pc'[c] = "done" /\ ent'[c] = Nil
    BY <1>5 DEF Finishes, Leaves
  <2> WITNESS (entry[ent[c]].owners = {}) \in BOOLEAN
  <2> QED
    BY <1>2, <1>3, <1>4, <1>5, <2>1, <2>2, <2>3 DEF Out
<1>6. CASE ~Finishes(c)
  <2>l. PICK left : left = entry[ent[c]].owners \ {job[c].owner}
    OBVIOUS
  <2>1. Writes(ent[c], entry[ent[c]].value, left, Nil, left = {})
    BY <1>3, <1>6, <2>l DEF Gives
  <2>2. \A k \in Key : index'[k] = IF left = {} /\ k = cur[c] /\ index[k] = ent[c]
                                     THEN Nil ELSE index[k]
    BY <1>3, <1>6, <2>l DEF Gives
  <2>3. /\ Others(c) /\ UNCHANGED keys /\ pc[c] = "wait" /\ pc'[c] = "next" /\ SameCall(c)
    BY <1>6 DEF Gives, SameCall
  <2>4. /\ \A x \in Entry \ {ent[c]} : entry'[x] = entry[x]
        /\ entry'[ent[c]].value = entry[ent[c]].value /\ entry'[ent[c]].owners = left
        /\ entry'[ent[c]].removed = (left = {})
    BY <2>1 DEF Writes
  <2> WITNESS (left = {}) \in BOOLEAN
  <2> QED
    BY <1>2, <1>3, <1>4, <1>6, <2>l, <2>2, <2>3, <2>4 DEF Out
<1> QED
    BY <1>5, <1>6

(* An entry that is not removed stays the one the index has for its key. *)
LEMMA PlacedStep ==
    ASSUME Shape, Shape', Busy, Placed, Rests \/ \E x \in Call : StepOf(x)
    PROVE  Placed'
<1> USE NilAssumption DEF Claiming, AtEntry
<1>a. /\ pc \in [Call -> PC] /\ ent \in [Call -> Entry \cup {Nil}] /\ entry \in [Entry -> State]
      /\ index \in [Key -> Entry \cup {Nil}]
      /\ \A d \in Call : pc[d] \in AtEntry \cup {"record"} => ent[d] \in Entry /\ cur[d] \in Key
      /\ \A d \in Call : pc[d] = "lookup" => cur[d] \in Key
      /\ \A d \in Call : todo[d] \subseteq Key
    BY DEF Shape, TypeOK, Control
<1>b. \A e \in Entry : entry[e].busy # Nil \/ (\A d \in Call : pc[d] \in Claiming => ent[d] # e)
    BY JobFields DEF Busy, Shape, Control, Running, AtRest
<1>c. \A d, x \in Call : pc[d] \in Claiming /\ pc[x] \in Claiming /\ ent[d] = ent[x] => d = x
    BY DEF Busy
<1>d. Placed
    OBVIOUS
<1>1. ASSUME NEW c \in Call, BeginsLoad(c)
      PROVE  Placed'
    BY <1>a, <1>b, <1>c, <1>d, <1>1 DEF BeginsLoad, Begins, Others, SameCall, Placed,
       RemovedIsUnowned
<1>2. ASSUME NEW c \in Call, BeginsInherit(c)
      PROVE  Placed'
    BY <1>a, <1>b, <1>c, <1>d, <1>2 DEF BeginsInherit, Begins, Others, SameCall, Placed,
       RemovedIsUnowned
<1>3. ASSUME NEW c \in Call, BeginsRelease(c)
      PROVE  Placed'
    BY <1>a, <1>b, <1>c, <1>d, <1>3 DEF BeginsRelease, Begins, Others, SameCall, Placed,
       RemovedIsUnowned
<1>4. ASSUME NEW c \in Call, Takes(c)
      PROVE  Placed'
    BY <1>a, <1>b, <1>c, <1>d, <1>4 DEF Takes, Others, SameCall, Placed, RemovedIsUnowned
<1>5. ASSUME NEW c \in Call, Ends(c)
      PROVE  Placed'
    BY <1>a, <1>b, <1>c, <1>d, <1>5 DEF Ends, Leaves, Others, SameCall, Placed,
       RemovedIsUnowned
<1>6. ASSUME NEW c \in Call, Finds(c)
      PROVE  Placed'
    BY <1>a, <1>b, <1>c, <1>d, <1>6 DEF Finds, Others, SameCall, Placed, RemovedIsUnowned
<1>7. ASSUME NEW c \in Call, Makes(c)
      PROVE  Placed'
    BY <1>a, <1>b, <1>c, <1>d, <1>7 DEF Makes, Writes, Free, Others, SameCall, Placed,
       RemovedIsUnowned
<1>8. ASSUME NEW c \in Call, Misses(c)
      PROVE  Placed'
    BY <1>a, <1>b, <1>c, <1>d, <1>8 DEF Misses, Goes, Others, SameCall, Placed,
       RemovedIsUnowned
<1>9. ASSUME NEW c \in Call, Shifts(c)
      PROVE  Placed'
    BY <1>a, <1>b, <1>c, <1>d, <1>9 DEF Shifts, Goes, Others, SameCall, Placed,
       RemovedIsUnowned
<1>10. ASSUME NEW c \in Call, Retries(c)
      PROVE  Placed'
    BY <1>a, <1>b, <1>c, <1>d, <1>10 DEF Retries, Goes, Others, SameCall, Placed,
       RemovedIsUnowned
<1>11. ASSUME NEW c \in Call, Claims(c)
      PROVE  Placed'
    BY <1>a, <1>b, <1>c, <1>d, <1>11 DEF Claims, Writes, Others, SameCall, Placed,
       RemovedIsUnowned
<1>12. ASSUME NEW c \in Call, Stores(c)
      PROVE  Placed'
    BY <1>a, <1>b, <1>c, <1>d, <1>12 DEF Stores, Writes, Others, SameCall, Placed,
       RemovedIsUnowned
<1>13. ASSUME NEW c \in Call, Finishes(c)
      PROVE  Placed'
  <2>1. PICK gone \in BOOLEAN : Out(c, gone)
    BY <1>13, OutEffect
  <2> USE DEF Out
  <2>2. \A d \in Call : ent'[d] # Nil => ent'[d] = ent[d] /\ cur'[d] = cur[d] /\ ent[d] \in Entry
    BY <1>a, <2>1 DEF Others, SameCall
  <2>3. \A d \in Call : ent'[d] # Nil => cur'[d] \in Key
    BY <1>d, <2>2 DEF Placed
  <2>4. \A d \in Call : ent'[d] # Nil /\ ~entry'[ent'[d]].removed => index'[cur'[d]] = ent'[d]
    BY <1>d, <2>1, <2>2, <2>3 DEF Placed
  <2>5. /\ \A k, j \in Key : index'[k] # Nil /\ index'[k] = index'[j] => k = j
        /\ \A k \in Key : index'[k] # Nil => ~entry'[index'[k]].removed
    BY <1>a, <1>d, <2>1 DEF Placed
  <2>6. \A d \in Call : pc'[d] \in Claiming => ~entry'[ent'[d]].removed
    <3>1. ASSUME NEW d \in Call, pc'[d] \in Claiming PROVE ~entry'[ent'[d]].removed
      <4>1. d # c /\ pc[d] \in Claiming /\ ent'[d] = ent[d] /\ ent[d] # ent[c] /\ ent[d] \in Entry
        <5>1. pc[c] \in Claiming /\ pc'[c] \notin Claiming
          BY <1>13, <2>1 DEF Finishes
        <5>2. d # c /\ pc[d] \in Claiming /\ ent'[d] = ent[d]
          BY <2>1, <3>1, <5>1 DEF Others, SameCall
        <5> QED
          BY <1>a, <1>c, <3>1, <5>1, <5>2
      <4> QED
        BY <1>d, <2>1, <4>1 DEF Placed
    <3> QED
      BY <3>1
  <2>7. /\ \A e \in Entry : entry'[e].removed => entry'[e].owners = {}
        /\ \A e \in Entry : entry'[e].owners # {} => entry'[e].value
    BY <1>d, <2>1 DEF Placed, RemovedIsUnowned
  <2> QED
    BY <2>3, <2>4, <2>5, <2>6, <2>7, Zenon DEF Placed, RemovedIsUnowned
<1>14. ASSUME NEW c \in Call, Records(c)
      PROVE  Placed'
    BY <1>a, <1>b, <1>c, <1>d, <1>14 DEF Records, Others, SameCall, Placed,
       RemovedIsUnowned
<1>15. ASSUME NEW c \in Call, Declines(c)
      PROVE  Placed'
    BY <1>a, <1>b, <1>c, <1>d, <1>15 DEF Declines, Goes, Others, SameCall, Placed,
       RemovedIsUnowned
<1>16. ASSUME NEW c \in Call, Adds(c)
      PROVE  Placed'
    BY <1>a, <1>b, <1>c, <1>d, <1>16 DEF Adds, Writes, Others, SameCall, Placed,
       RemovedIsUnowned
<1>17. ASSUME NEW c \in Call, Gives(c)
      PROVE  Placed'
  <2>a. CASE entry[ent[c]].removed
    <3>1. UNCHANGED <<index, entry>> /\ UNCHANGED <<cur, ent>> /\ Others(c)
          /\ pc[c] = "wait" /\ pc'[c] = "next"
      BY <1>17, <2>a DEF Gives
    <3> QED
      BY <1>d, <3>1 DEF Placed, RemovedIsUnowned, Others, SameCall
  <2>b. CASE ~entry[ent[c]].removed
    <3>1. PICK gone \in BOOLEAN : Out(c, gone)
      BY <1>17, OutEffect, <2>b
    <3> USE DEF Out
    <3>2. \A d \in Call : ent'[d] # Nil => ent'[d] = ent[d] /\ cur'[d] = cur[d] /\ ent[d] \in Entry
      BY <1>a, <3>1 DEF Others, SameCall
    <3>3. \A d \in Call : ent'[d] # Nil => cur'[d] \in Key
      BY <1>d, <3>2 DEF Placed
    <3>4. \A d \in Call : ent'[d] # Nil /\ ~entry'[ent'[d]].removed => index'[cur'[d]] = ent'[d]
      BY <1>d, <3>1, <3>2, <3>3 DEF Placed
    <3>5. /\ \A k, j \in Key : index'[k] # Nil /\ index'[k] = index'[j] => k = j
          /\ \A k \in Key : index'[k] # Nil => ~entry'[index'[k]].removed
      BY <1>a, <1>d, <3>1 DEF Placed
    <3>6. \A d \in Call : pc'[d] \in Claiming => ~entry'[ent'[d]].removed
      <4>1. ASSUME NEW d \in Call, pc'[d] \in Claiming PROVE ~entry'[ent'[d]].removed
        <5>1. d # c /\ pc[d] \in Claiming /\ ent'[d] = ent[d] /\ ent[d] # ent[c] /\ ent[d] \in Entry
          BY <1>a, <1>b, <1>17, <3>1, <4>1 DEF Others, SameCall, Gives
        <5> QED
          BY <1>d, <3>1, <5>1 DEF Placed
      <4> QED
        BY <4>1
    <3>7. /\ \A e \in Entry : entry'[e].removed => entry'[e].owners = {}
          /\ \A e \in Entry : entry'[e].owners # {} => entry'[e].value
      BY <1>d, <3>1 DEF Placed, RemovedIsUnowned
    <3> QED
      BY <3>3, <3>4, <3>5, <3>6, <3>7, Zenon DEF Placed, RemovedIsUnowned
  <2> QED
    BY <2>a, <2>b
<1>18. ASSUME Rests
      PROVE  Placed'
    BY <1>a, <1>b, <1>c, <1>d, <1>18 DEF Rests, Placed, RemovedIsUnowned
<1> QED
    BY <1>1, <1>2, <1>3, <1>4, <1>5, <1>6, <1>7, <1>8, <1>9, <1>10, <1>11, <1>12, <1>13,
       <1>14, <1>15, <1>16, <1>17, <1>18 DEF StepOf

(* What an owner lists it owns. *)
LEMMA KeysAreOwnedStep ==
    ASSUME Shape, Shape', Placed, Separate, Recorded, Released, Inherited, KeysAreOwned,
           Rests \/ \E x \in Call : StepOf(x)
    PROVE  KeysAreOwned'
<1> USE NilAssumption DEF Claiming, AtEntry, Seeking, Running, AtRest
<1>a. /\ pc \in [Call -> PC] /\ ent \in [Call -> Entry \cup {Nil}] /\ entry \in [Entry -> State]
      /\ index \in [Key -> Entry \cup {Nil}] /\ keys \in [Owner -> SUBSET Key]
      /\ \A d \in Call : pc[d] \in AtEntry \cup {"record"} => ent[d] \in Entry /\ cur[d] \in Key
      /\ \A d \in Call : pc[d] = "lookup" => cur[d] \in Key
      /\ \A d \in Call : todo[d] \subseteq Key
    BY DEF Shape, TypeOK, Control
<1>b. \A d \in Call : Running(d) => /\ job[d].owner \in Owner
                                    /\ job[d].mode = "inherit" => job[d].from \in Owner \ {job[d].owner}
    BY JobFields DEF Shape, Control, Origin
<1>c. \A d \in Call : /\ pc[d] \in Claiming => job[d].mode = "load"
                      /\ pc[d] = "record" => job[d].mode \in {"load", "extend"}
    BY DEF Shape, Control
<1>d. Placed /\ Separate /\ Recorded /\ Released /\ Inherited /\ KeysAreOwned
    OBVIOUS
<1>1. ASSUME NEW c \in Call, BeginsLoad(c)
      PROVE  KeysAreOwned'
    BY <1>a, <1>b, <1>c, <1>d, <1>1 DEF BeginsLoad, Begins, Others, SameCall, Placed,
       Separate, Uses, Loading, Recorded, Released, Inherited, KeysAreOwned, Owns
<1>2. ASSUME NEW c \in Call, BeginsInherit(c)
      PROVE  KeysAreOwned'
    BY <1>a, <1>b, <1>c, <1>d, <1>2 DEF BeginsInherit, Begins, Others, SameCall, Placed,
       Separate, Uses, Loading, Recorded, Released, Inherited, KeysAreOwned, Owns
<1>3. ASSUME NEW c \in Call, BeginsRelease(c)
      PROVE  KeysAreOwned'
    BY <1>a, <1>b, <1>c, <1>d, <1>3 DEF BeginsRelease, Begins, Others, SameCall, Placed,
       Separate, Uses, Loading, Recorded, Released, Inherited, KeysAreOwned, Owns
<1>4. ASSUME NEW c \in Call, Takes(c)
      PROVE  KeysAreOwned'
    BY <1>a, <1>b, <1>c, <1>d, <1>4 DEF Takes, Others, SameCall, Placed, Separate, Uses,
       Loading, Recorded, Released, Inherited, KeysAreOwned, Owns
<1>5. ASSUME NEW c \in Call, Ends(c)
      PROVE  KeysAreOwned'
    BY <1>a, <1>b, <1>c, <1>d, <1>5 DEF Ends, Leaves, Others, SameCall, Placed, Separate,
       Uses, Loading, Recorded, Released, Inherited, KeysAreOwned, Owns
<1>6. ASSUME NEW c \in Call, Finds(c)
      PROVE  KeysAreOwned'
    BY <1>a, <1>b, <1>c, <1>d, <1>6 DEF Finds, Others, SameCall, Placed, Separate, Uses,
       Loading, Recorded, Released, Inherited, KeysAreOwned, Owns
<1>7. ASSUME NEW c \in Call, Makes(c)
      PROVE  KeysAreOwned'
    BY <1>a, <1>b, <1>c, <1>d, <1>7 DEF Makes, Writes, Free, Others, SameCall, Placed,
       Separate, Uses, Loading, Recorded, Released, Inherited, KeysAreOwned, Owns
<1>8. ASSUME NEW c \in Call, Misses(c)
      PROVE  KeysAreOwned'
    BY <1>a, <1>b, <1>c, <1>d, <1>8 DEF Misses, Goes, Others, SameCall, Placed, Separate,
       Uses, Loading, Recorded, Released, Inherited, KeysAreOwned, Owns
<1>9. ASSUME NEW c \in Call, Shifts(c)
      PROVE  KeysAreOwned'
    BY <1>a, <1>b, <1>c, <1>d, <1>9 DEF Shifts, Goes, Others, SameCall, Placed, Separate,
       Uses, Loading, Recorded, Released, Inherited, KeysAreOwned, Owns
<1>10. ASSUME NEW c \in Call, Retries(c)
      PROVE  KeysAreOwned'
    BY <1>a, <1>b, <1>c, <1>d, <1>10 DEF Retries, Goes, Others, SameCall, Placed,
       Separate, Uses, Loading, Recorded, Released, Inherited, KeysAreOwned, Owns
<1>11. ASSUME NEW c \in Call, Claims(c)
      PROVE  KeysAreOwned'
    BY <1>a, <1>b, <1>c, <1>d, <1>11 DEF Claims, Writes, Others, SameCall, Placed,
       Separate, Uses, Loading, Recorded, Released, Inherited, KeysAreOwned, Owns
<1>12. ASSUME NEW c \in Call, Stores(c)
      PROVE  KeysAreOwned'
    BY <1>a, <1>b, <1>c, <1>d, <1>12 DEF Stores, Writes, Others, SameCall, Placed,
       Separate, Uses, Loading, Recorded, Released, Inherited, KeysAreOwned, Owns
<1>13. ASSUME NEW c \in Call, Finishes(c)
      PROVE  KeysAreOwned'
  <2>1. PICK gone \in BOOLEAN : Out(c, gone)
    BY <1>13, OutEffect
  <2> USE DEF Out
  <2>2. ASSUME NEW o \in Owner, NEW k \in keys'[o]
        PROVE  /\ index'[k] # Nil /\ o \in entry'[index'[k]].owners
               /\ entry'[index'[k]].value /\ ~entry'[index'[k]].removed
    <3>1. /\ k \in Key /\ index[k] \in Entry /\ o \in entry[index[k]].owners
          /\ entry[index[k]].value /\ ~entry[index[k]].removed /\ k \in keys[o]
      BY <1>a, <1>d, <2>1, <2>2 DEF KeysAreOwned
    <3>2. CASE index[k] # ent[c]
      BY <2>1, <3>1, <3>2
    <3>3. CASE index[k] = ent[c]
      <4>1. k = cur[c]
        BY <1>d, <2>1, <3>1, <3>3 DEF Placed
      <4>2. o \in entry'[ent[c]].owners
        BY <1>13, <2>1, <3>1, <3>3
      <4>3. gone = FALSE
        BY <2>1, <4>2
      <4>4. /\ index'[k] = ent[c] /\ entry'[ent[c]].removed = FALSE
            /\ entry'[ent[c]].value = entry[ent[c]].value
        BY <2>1, <3>1, <3>3, <4>3
      <4> QED
        BY <3>1, <3>3, <4>2, <4>4, NilAssumption
    <3> QED
      BY <3>2, <3>3
  <2> QED
    BY <2>2 DEF KeysAreOwned
<1>14. ASSUME NEW c \in Call, Records(c)
      PROVE  KeysAreOwned'
    BY <1>a, <1>b, <1>c, <1>d, <1>14 DEF Records, Others, SameCall, Placed, Separate,
       Uses, Loading, Recorded, Released, Inherited, KeysAreOwned, Owns
<1>15. ASSUME NEW c \in Call, Declines(c)
      PROVE  KeysAreOwned'
    BY <1>a, <1>b, <1>c, <1>d, <1>15 DEF Declines, Goes, Others, SameCall, Placed,
       Separate, Uses, Loading, Recorded, Released, Inherited, KeysAreOwned, Owns
<1>16. ASSUME NEW c \in Call, Adds(c)
      PROVE  KeysAreOwned'
    BY <1>a, <1>b, <1>c, <1>d, <1>16 DEF Adds, Writes, Others, SameCall, Placed, Separate,
       Uses, Loading, Recorded, Released, Inherited, KeysAreOwned, Owns
<1>17. ASSUME NEW c \in Call, Gives(c)
      PROVE  KeysAreOwned'
  <2>a. CASE entry[ent[c]].removed
    <3>1. UNCHANGED <<index, entry, keys>>
      BY <1>17, <2>a DEF Gives
    <3> QED
      BY <1>d, <3>1 DEF KeysAreOwned
  <2>b. CASE ~entry[ent[c]].removed
    <3>0. cur[c] \notin keys[job[c].owner]
      BY <1>d, <1>17 DEF Gives, Released
    <3>1. PICK gone \in BOOLEAN : Out(c, gone)
      BY <1>17, OutEffect, <2>b
    <3> USE DEF Out
    <3>2. ASSUME NEW o \in Owner, NEW k \in keys'[o]
          PROVE  /\ index'[k] # Nil /\ o \in entry'[index'[k]].owners
                 /\ entry'[index'[k]].value /\ ~entry'[index'[k]].removed
      <4>1. /\ k \in Key /\ index[k] \in Entry /\ o \in entry[index[k]].owners
            /\ entry[index[k]].value /\ ~entry[index[k]].removed /\ k \in keys[o]
        BY <1>a, <1>d, <3>1, <3>2 DEF KeysAreOwned
      <4>2. CASE index[k] # ent[c]
        BY <3>1, <4>1, <4>2
      <4>3. CASE index[k] = ent[c]
        <5>1. k = cur[c]
          BY <1>d, <3>1, <4>1, <4>3 DEF Placed
        <5>2. o \in entry'[ent[c]].owners
          BY <3>0, <3>1, <4>1, <4>3, <5>1
        <5>3. gone = FALSE
          BY <3>1, <5>2
        <5>4. /\ index'[k] = ent[c] /\ entry'[ent[c]].removed = FALSE
              /\ entry'[ent[c]].value = entry[ent[c]].value
          BY <3>1, <4>1, <4>3, <5>3
        <5> QED
          BY <4>1, <4>3, <5>2, <5>4, NilAssumption
      <4> QED
        BY <4>2, <4>3
    <3> QED
      BY <3>2 DEF KeysAreOwned
  <2> QED
    BY <2>a, <2>b
<1>18. ASSUME Rests
      PROVE  KeysAreOwned'
    BY <1>a, <1>b, <1>c, <1>d, <1>18 DEF Rests, Placed, Separate, Uses, Loading, Recorded,
       Released, Inherited, KeysAreOwned, Owns
<1> QED
    BY <1>1, <1>2, <1>3, <1>4, <1>5, <1>6, <1>7, <1>8, <1>9, <1>10, <1>11, <1>12, <1>13,
       <1>14, <1>15, <1>16, <1>17, <1>18 DEF StepOf

(* An owner stays with an entry until it gives it up, and the entry in the index. *)
LEMMA OwnsKept ==
    ASSUME Shape, Placed, NEW c \in Call, StepOf(c)
    PROVE  \A o \in Owner, k \in Key :
               Owns(o, k) /\ ~(Gives(c) /\ job[c].owner = o /\ cur[c] = k) =>
                   index'[k] = index[k] /\ o \in entry'[index[k]].owners
<1> USE NilAssumption DEF Claiming, AtEntry
<1>a. /\ entry \in [Entry -> State] /\ index \in [Key -> Entry \cup {Nil}]
      /\ pc[c] \in AtEntry => ent[c] \in Entry /\ cur[c] \in Key
    BY DEF Shape, TypeOK, Control
<1>b. pc[c] = "lookup" => cur[c] \in Key
    BY DEF Shape, Control
<1>d. Placed
    OBVIOUS
<1>1. CASE BeginsLoad(c)
    BY <1>a, <1>b, <1>d, <1>1 DEF BeginsLoad, Begins, Placed, Owns
<1>2. CASE BeginsInherit(c)
    BY <1>a, <1>b, <1>d, <1>2 DEF BeginsInherit, Begins, Placed, Owns
<1>3. CASE BeginsRelease(c)
    BY <1>a, <1>b, <1>d, <1>3 DEF BeginsRelease, Begins, Placed, Owns
<1>4. CASE Takes(c)
    BY <1>a, <1>b, <1>d, <1>4 DEF Takes, Placed, Owns
<1>5. CASE Ends(c)
    BY <1>a, <1>b, <1>d, <1>5 DEF Ends, Leaves, Placed, Owns
<1>6. CASE Finds(c)
    BY <1>a, <1>b, <1>d, <1>6 DEF Finds, Placed, Owns
<1>7. CASE Makes(c)
    BY <1>a, <1>b, <1>d, <1>7 DEF Makes, Writes, Free, Placed, Owns
<1>8. CASE Misses(c)
    BY <1>a, <1>b, <1>d, <1>8 DEF Misses, Goes, Placed, Owns
<1>9. CASE Shifts(c)
    BY <1>a, <1>b, <1>d, <1>9 DEF Shifts, Goes, Placed, Owns
<1>10. CASE Retries(c)
    BY <1>a, <1>b, <1>d, <1>10 DEF Retries, Goes, Placed, Owns
<1>11. CASE Claims(c)
    BY <1>a, <1>b, <1>d, <1>11 DEF Claims, Writes, Placed, Owns
<1>12. CASE Stores(c)
    BY <1>a, <1>b, <1>d, <1>12 DEF Stores, Writes, Placed, Owns
<1>13. CASE Finishes(c)
  <2>1. PICK gone \in BOOLEAN : Out(c, gone)
    BY <1>13, OutEffect
  <2> USE DEF Out
  <2>2. ASSUME NEW o \in Owner, NEW k \in Key, Owns(o, k)
        PROVE  index'[k] = index[k] /\ o \in entry'[index[k]].owners
    <3>1. index[k] \in Entry /\ o \in entry[index[k]].owners
      BY <1>a, <2>2 DEF Owns
    <3>2. CASE index[k] # ent[c]
      BY <2>1, <3>1, <3>2
    <3>3. CASE index[k] = ent[c]
      <4>1. k = cur[c]
        BY <1>d, <2>1, <3>1, <3>3 DEF Placed
      <4>2. entry'[ent[c]].owners = entry[ent[c]].owners
        BY <1>13, <2>1
      <4> QED
        BY <2>1, <3>1, <3>3, <4>1, <4>2
    <3> QED
      BY <3>2, <3>3
  <2> QED
    BY <2>2
<1>14. CASE Records(c)
    BY <1>a, <1>b, <1>d, <1>14 DEF Records, Placed, Owns
<1>15. CASE Declines(c)
    BY <1>a, <1>b, <1>d, <1>15 DEF Declines, Goes, Placed, Owns
<1>16. CASE Adds(c)
    BY <1>a, <1>b, <1>d, <1>16 DEF Adds, Writes, Placed, Owns
<1>17. CASE Gives(c)
  <2>a. CASE entry[ent[c]].removed
    BY <1>17, <2>a DEF Gives, Owns
  <2>b. CASE ~entry[ent[c]].removed
    <3>1. PICK gone \in BOOLEAN : Out(c, gone)
      BY <1>17, OutEffect, <2>b
    <3> USE DEF Out
    <3>2. ASSUME NEW o \in Owner, NEW k \in Key, Owns(o, k), job[c].owner # o \/ cur[c] # k
          PROVE  index'[k] = index[k] /\ o \in entry'[index[k]].owners
      <4>1. index[k] \in Entry /\ o \in entry[index[k]].owners
        BY <1>a, <3>2 DEF Owns
      <4>2. CASE index[k] # ent[c]
        BY <3>1, <4>1, <4>2
      <4>3. CASE index[k] = ent[c]
        <5>1. k = cur[c] /\ ~Finishes(c)
          BY <1>17, <1>d, <3>1, <4>1, <4>3 DEF Placed, Finishes, Gives
        <5>2. o \in entry'[ent[c]].owners
          BY <3>1, <3>2, <4>1, <4>3, <5>1
        <5> QED
          BY <3>1, <4>3, <5>1, <5>2
      <4> QED
        BY <4>2, <4>3
    <3> QED
      BY <1>17, <3>2
  <2> QED
    BY <2>a, <2>b
<1> QED
    BY <1>1, <1>2, <1>3, <1>4, <1>5, <1>6, <1>7, <1>8, <1>9, <1>10, <1>11, <1>12, <1>13,
       <1>14, <1>15, <1>16, <1>17 DEF StepOf

(* It becomes an owner by storing a value or being added. *)
LEMMA OwnsMade ==
    ASSUME Shape, Placed, NEW c \in Call, StepOf(c)
    PROVE  \A o \in Owner, k \in Key :
               Owns(o, k)' => \/ Owns(o, k)
                              \/ (Stores(c) \/ Adds(c)) /\ job[c].owner = o /\ cur[c] = k
<1> USE NilAssumption DEF Claiming, AtEntry
<1>a. /\ entry \in [Entry -> State] /\ index \in [Key -> Entry \cup {Nil}]
      /\ pc[c] \in AtEntry => ent[c] \in Entry /\ cur[c] \in Key
    BY DEF Shape, TypeOK, Control
<1>b. pc[c] = "lookup" => cur[c] \in Key
    BY DEF Shape, Control
<1>d. Placed
    OBVIOUS
<1>1. CASE BeginsLoad(c)
    BY <1>a, <1>b, <1>d, <1>1 DEF BeginsLoad, Begins, Placed, Owns
<1>2. CASE BeginsInherit(c)
    BY <1>a, <1>b, <1>d, <1>2 DEF BeginsInherit, Begins, Placed, Owns
<1>3. CASE BeginsRelease(c)
    BY <1>a, <1>b, <1>d, <1>3 DEF BeginsRelease, Begins, Placed, Owns
<1>4. CASE Takes(c)
    BY <1>a, <1>b, <1>d, <1>4 DEF Takes, Placed, Owns
<1>5. CASE Ends(c)
    BY <1>a, <1>b, <1>d, <1>5 DEF Ends, Leaves, Placed, Owns
<1>6. CASE Finds(c)
    BY <1>a, <1>b, <1>d, <1>6 DEF Finds, Placed, Owns
<1>7. CASE Makes(c)
    BY <1>a, <1>b, <1>d, <1>7 DEF Makes, Writes, Free, Placed, Owns
<1>8. CASE Misses(c)
    BY <1>a, <1>b, <1>d, <1>8 DEF Misses, Goes, Placed, Owns
<1>9. CASE Shifts(c)
    BY <1>a, <1>b, <1>d, <1>9 DEF Shifts, Goes, Placed, Owns
<1>10. CASE Retries(c)
    BY <1>a, <1>b, <1>d, <1>10 DEF Retries, Goes, Placed, Owns
<1>11. CASE Claims(c)
    BY <1>a, <1>b, <1>d, <1>11 DEF Claims, Writes, Placed, Owns
<1>12. CASE Stores(c)
    BY <1>a, <1>b, <1>d, <1>12 DEF Stores, Writes, Placed, Owns
<1>13. CASE Finishes(c)
  <2>1. PICK gone \in BOOLEAN : Out(c, gone)
    BY <1>13, OutEffect
  <2> USE DEF Out
  <2> QED
    BY <1>13, <2>1, <1>a, <1>d DEF Placed, Owns
<1>14. CASE Records(c)
    BY <1>a, <1>b, <1>d, <1>14 DEF Records, Placed, Owns
<1>15. CASE Declines(c)
    BY <1>a, <1>b, <1>d, <1>15 DEF Declines, Goes, Placed, Owns
<1>16. CASE Adds(c)
    BY <1>a, <1>b, <1>d, <1>16 DEF Adds, Writes, Placed, Owns
<1>17. CASE Gives(c)
  <2>a. CASE entry[ent[c]].removed
    BY <1>17, <2>a DEF Gives, Owns
  <2>b. CASE ~entry[ent[c]].removed
    <3>1. PICK gone \in BOOLEAN : Out(c, gone)
      BY <1>17, OutEffect, <2>b
    <3> USE DEF Out
    <3> QED
      BY <3>1, <1>a, <1>d DEF Placed, Owns
  <2> QED
    BY <2>a, <2>b
<1> QED
    BY <1>1, <1>2, <1>3, <1>4, <1>5, <1>6, <1>7, <1>8, <1>9, <1>10, <1>11, <1>12, <1>13,
       <1>14, <1>15, <1>16, <1>17 DEF StepOf

(* A step of one call leaves what the others work on. *)
LEMMA StepOthers ==
    ASSUME NEW c \in Call, StepOf(c)
    PROVE  Others(c)
BY DEF StepOf, BeginsLoad, Begins, BeginsInherit, BeginsRelease, Takes, Ends, Leaves,
   Finds, Makes, Misses, Goes, Shifts, Retries, Claims, Stores, Finishes, Records,
   Declines, Adds, Gives

(* The owner of what was stored or added stays until the key is listed. *)
LEMMA RecordedStep ==
    ASSUME Shape, Placed, Separate, Recorded, Rests \/ \E x \in Call : StepOf(x)
    PROVE  Recorded'
<1> USE NilAssumption DEF Claiming, AtEntry, Running, AtRest
<1>a. /\ \A d \in Call : pc[d] \in AtEntry \cup {"record"} => ent[d] \in Entry /\ cur[d] \in Key
      /\ \A d \in Call : Running(d) => job[d].owner \in Owner
      /\ \A d \in Call : pc[d] \in {"stored", "record"} => job[d].mode \in {"load", "extend"}
    BY JobFields DEF Shape, Control
<1>1. CASE Rests
    BY <1>1 DEF Rests, Recorded
<1>2. ASSUME NEW c \in Call, StepOf(c)
      PROVE  Recorded'
  <2>1. Others(c)
    BY <1>2, StepOthers
  <2>2. \A o \in Owner, k \in Key :
            Owns(o, k) /\ ~(Gives(c) /\ job[c].owner = o /\ cur[c] = k) =>
                index'[k] = index[k] /\ o \in entry'[index[k]].owners
    BY <1>2, OwnsKept
  <2>3. ASSUME NEW d \in Call \ {c}, pc'[d] \in {"stored", "record"}
        PROVE  index'[cur'[d]] = ent'[d] /\ job'[d].owner \in entry'[ent'[d]].owners
    <3>1. pc[d] \in {"stored", "record"} /\ SameCall(d)
      BY <2>1, <2>3 DEF Others
    <3>2. /\ index[cur[d]] = ent[d] /\ Owns(job[d].owner, cur[d])
          /\ cur[d] \in Key /\ job[d].owner \in Owner
      BY <1>a, <3>1 DEF Recorded, Owns
    <3>3. ~(Gives(c) /\ job[c].owner = job[d].owner)
      BY <1>a, <2>3, <3>1, <3>2 DEF Gives, Separate, Uses, Loading
    <3> QED
      BY <2>2, <3>1, <3>2, <3>3 DEF SameCall
  <2>4. ASSUME pc'[c] \in {"stored", "record"}
        PROVE  index'[cur'[c]] = ent'[c] /\ job'[c].owner \in entry'[ent'[c]].owners
    <3>1. Stores(c) \/ (Finishes(c) /\ pc[c] = "stored") \/ Adds(c)
      BY <1>2, <2>4 DEF StepOf, BeginsLoad, Begins, BeginsInherit, BeginsRelease, Takes,
         Ends, Leaves, Finds, Makes, Misses, Goes, Shifts, Retries, Claims, Finishes,
         Records, Declines, Adds, Gives
    <3>2. CASE Stores(c)
      BY <1>a, <3>2 DEF Stores, Writes, Placed
    <3>3. CASE Finishes(c) /\ pc[c] = "stored"
      <4>1. SameCall(c) /\ ~Gives(c)
        BY <3>3 DEF Finishes, Gives
      <4> QED
        BY <1>a, <2>2, <3>3, <4>1 DEF Recorded, SameCall, Owns
    <3>4. CASE Adds(c)
      BY <1>a, <3>4 DEF Adds, Writes, Placed
    <3> QED
      BY <3>1, <3>2, <3>3, <3>4
  <2> QED
    BY <2>3, <2>4 DEF Recorded
<1> QED
    BY <1>1, <1>2

(* What is being released is not listed, and found as long as it is owned. *)
LEMMA ReleasedStep ==
    ASSUME Shape, Shape', Placed, Separate, Released, Rests \/ \E x \in Call : StepOf(x)
    PROVE  Released'
<1> USE NilAssumption DEF Claiming, AtEntry, Running, AtRest, Seeking
<1>a. /\ \A d \in Call : pc[d] \in AtEntry \cup {"lookup", "record"} => cur[d] \in Key
      /\ \A d \in Call : Running(d) => job[d].owner \in Owner
      /\ \A d \in Call : pc[d] \in Claiming \cup {"record"} => job[d].mode \in {"load", "extend"}
    BY JobFields DEF Shape, Control
<1>1. CASE Rests
    BY <1>1 DEF Rests, Released, Owns
<1>2. ASSUME NEW c \in Call, StepOf(c)
      PROVE  Released'
  <2>1. Others(c)
    BY <1>2, StepOthers
  <2>2. \A o \in Owner, k \in Key :
            Owns(o, k)' => Owns(o, k) \/ ((Stores(c) \/ Adds(c)) /\ job[c].owner = o /\ cur[c] = k)
    BY <1>2, OwnsMade
  <2>3. \A o \in Owner, k \in Key :
            Owns(o, k) /\ ~(Gives(c) /\ job[c].owner = o /\ cur[c] = k) => index'[k] = index[k]
    BY <1>2, OwnsKept
  <2>4. ASSUME NEW d \in Call \ {c}, pc'[d] \notin AtRest, job'[d].mode = "release"
        PROVE  /\ todo'[d] \cap keys'[job'[d].owner] = {}
               /\ pc'[d] \in Seeking => cur'[d] \notin keys'[job'[d].owner]
               /\ pc'[d] \in {"wait", "asleep"} /\ Owns(job[d].owner, cur[d])' => ent'[d] = index'[cur'[d]]
    <3>1. /\ SameCall(d) /\ pc[d] \notin AtRest /\ job[d].mode = "release" /\ job[d].owner \in Owner
          /\ pc'[d] \in Seeking => pc[d] \in Seeking /\ cur[d] \in Key
          /\ pc'[d] \in {"wait", "asleep"} => pc[d] \in {"wait", "asleep"}
      BY <1>a, <2>1, <2>4 DEF Others, SameCall
    <3>2. pc[c] \in AtRest \/ job[c].owner # job[d].owner
      BY <1>a, <2>4, <3>1 DEF Separate, Uses, Loading
    <3>3. keys'[job[d].owner] \subseteq keys[job[d].owner]
      <4>1. CASE Records(c) \/ Ends(c)
        BY <3>1, <3>2, <4>1 DEF Records, Ends
      <4>2. CASE BeginsLoad(c) \/ BeginsInherit(c) \/ BeginsRelease(c)
        BY <3>1, <4>2 DEF BeginsLoad, BeginsInherit, BeginsRelease, Begins
      <4>3. CASE Takes(c) \/ Finds(c) \/ Makes(c) \/ Misses(c) \/ Shifts(c) \/ Retries(c) \/ Claims(c)
        BY <4>3 DEF Takes, Finds, Makes, Misses, Goes, Shifts, Retries, Claims
      <4>4. CASE Stores(c) \/ Finishes(c) \/ Declines(c) \/ Adds(c) \/ Gives(c)
        BY <4>4 DEF Stores, Finishes, Declines, Goes, Adds, Gives
      <4> QED
        BY <1>2, <4>1, <4>2, <4>3, <4>4 DEF StepOf
    <3>4. ~(Stores(c) \/ Adds(c)) \/ job[c].owner # job[d].owner
      BY <3>2 DEF Stores, Adds
    <3>5. ~Gives(c) \/ job[c].owner # job[d].owner
      BY <3>2 DEF Gives
    <3> QED
      BY <2>2, <2>3, <3>1, <3>3, <3>4, <3>5 DEF Released, SameCall
  <2>5. ASSUME pc'[c] \notin AtRest, job'[c].mode = "release"
        PROVE  /\ todo'[c] \cap keys'[job'[c].owner] = {}
               /\ pc'[c] \in Seeking => cur'[c] \notin keys'[job'[c].owner]
               /\ pc'[c] \in {"wait", "asleep"} /\ Owns(job[c].owner, cur[c])' => ent'[c] = index'[cur'[c]]
    <3>1. \/ BeginsRelease(c) \/ Takes(c) \/ Finds(c) \/ Misses(c) \/ Gives(c)
          \/ (Shifts(c) /\ pc[c] \in {"wait", "asleep"})
      <4>1. ~BeginsLoad(c) /\ ~BeginsInherit(c) /\ ~Ends(c) /\ ~Makes(c) /\ ~Retries(c)
        BY <2>5 DEF BeginsLoad, BeginsInherit, Begins, Ends, Leaves, Makes, Retries, Goes
      <4>2. ~Claims(c) /\ ~Stores(c) /\ ~Records(c) /\ ~Declines(c) /\ ~Adds(c)
        BY <1>a, <2>5 DEF Claims, Stores, Records, Declines, Goes, Adds
      <4>3. ~Finishes(c)
        BY <1>a, <2>5 DEF Finishes, Leaves, SameCall
      <4>4. Shifts(c) => pc[c] \in {"wait", "asleep"}
        BY <1>a, <2>5 DEF Shifts, Goes
      <4> QED
        BY <1>2, <4>1, <4>2, <4>3, <4>4 DEF StepOf
    <3>2. CASE BeginsRelease(c)
      BY <3>2 DEF BeginsRelease, Begins
    <3>3. CASE Takes(c)
      BY <2>5, <3>3 DEF Takes, Released
    <3>4. CASE Finds(c)
      BY <2>5, <3>4 DEF Finds, Released
    <3>5. CASE Misses(c)
      BY <2>5, <3>5 DEF Misses, Goes, Released
    <3>6. CASE Gives(c)
      BY <2>5, <3>6 DEF Gives, Released
    <3>7. CASE Shifts(c) /\ pc[c] \in {"wait", "asleep"}
      BY <2>5, <3>7 DEF Shifts, Goes, Released, Owns
    <3> QED
      BY <3>1, <3>2, <3>3, <3>4, <3>5, <3>6, <3>7
  <2> QED
    BY <2>4, <2>5 DEF Released
<1> QED
    BY <1>1, <1>2

(* An inherit finds every entry of the snapshot it inherits from, and comes to
   own them all. *)
LEMMA InheritedStep ==
    ASSUME Shape, Shape', Placed, Separate, KeysAreOwned, Inherited, InheritFindsOwners,
           Rests \/ \E x \in Call : StepOf(x)
    PROVE  Inherited' /\ InheritFindsOwners'
<1> USE NilAssumption DEF Claiming, AtEntry, Running, AtRest, Seeking
<1>a. /\ \A d \in Call : pc[d] \in AtEntry \cup {"lookup", "record"} => cur[d] \in Key
      /\ \A d \in Call : pc[d] \in AtEntry => ent[d] \in Entry
      /\ \A d \in Call : Running(d) => job[d].owner \in Owner
      /\ \A d \in Call : pc[d] \in Claiming \cup {"record"} => job[d].mode \in {"load", "extend"}
      /\ \A o \in Owner : keys[o] \subseteq Key
    BY JobFields DEF Shape, TypeOK, Control
<1>b. \A d \in Call : Running(d) /\ job[d].mode = "inherit" =>
          job[d].from \in Owner /\ job[d].from # job[d].owner
    BY DEF Shape, Origin
<1>c. \A o \in Owner : \A k \in keys[o] : /\ Owns(o, k)
                                          /\ entry[index[k]].owners # {} /\ ~entry[index[k]].removed
    BY <1>a DEF KeysAreOwned, Owns
<1>1. CASE Rests
    BY <1>1 DEF Rests, Inherited, InheritFindsOwners, Owns
<1>2. ASSUME NEW c \in Call, StepOf(c)
      PROVE  Inherited' /\ InheritFindsOwners'
  <2>1. Others(c)
    BY <1>2, StepOthers
  <2>2. \A o \in Owner, k \in Key :
            Owns(o, k) /\ ~(Gives(c) /\ job[c].owner = o /\ cur[c] = k) =>
                index'[k] = index[k] /\ Owns(o, k)'
    BY <1>2, OwnsKept DEF Owns
  <2>3. \A d \in Call \ {c} : pc'[d] # "noOwners"
    BY <2>1 DEF Others, InheritFindsOwners
  <2>4. ASSUME NEW d \in Call \ {c}, pc'[d] \notin AtRest, job'[d].mode = "inherit"
        PROVE  (/\ todo[d] \subseteq keys[job[d].from]
                /\ pc[d] \in Seeking => cur[d] \in keys[job[d].from]
                /\ pc[d] \in {"wait", "asleep"} => ent[d] = index[cur[d]]
                /\ pc[d] \in Seeking \cup {"next"}
                /\ \A k \in keys[job[d].from] :
                      k \in todo[d] \/ (k = cur[d] /\ pc[d] \in Seeking) \/ Owns(job[d].owner, k))'
    <3>1. /\ SameCall(d) /\ pc[d] \notin AtRest /\ job[d].mode = "inherit" /\ job[d].owner \in Owner
          /\ job[d].from \in Owner
      BY <1>a, <1>b, <2>1, <2>4 DEF Others, SameCall
    <3>2. /\ todo[d] \subseteq keys[job[d].from]
          /\ pc[d] \in Seeking => cur[d] \in keys[job[d].from]
          /\ pc[d] \in {"wait", "asleep"} => ent[d] = index[cur[d]]
          /\ pc[d] \in Seeking \cup {"next"}
          /\ \A k \in keys[job[d].from] :
                k \in todo[d] \/ (k = cur[d] /\ pc[d] \in Seeking) \/ Owns(job[d].owner, k)
      BY <3>1 DEF Inherited
    <3>3. pc[c] \in AtRest \/ (job[c].owner # job[d].owner /\ job[c].owner # job[d].from)
      BY <1>a, <2>4, <3>1 DEF Separate, Uses, Loading
    <3>4. keys'[job[d].from] = keys[job[d].from]
      BY <1>a, <1>2, <2>4, <3>1, <3>3 DEF StepOf, Uses, BeginsLoad, Begins, BeginsInherit,
         BeginsRelease, Takes, Ends, Leaves, Finds, Makes, Misses, Goes, Shifts, Retries,
         Claims, Stores, Finishes, Records, Declines, Adds, Gives
    <3>5. ~Gives(c) \/ (job[c].owner # job[d].owner /\ job[c].owner # job[d].from)
      BY <3>3 DEF Gives
    <3>6. \A k \in keys[job[d].from] : /\ k \in Key /\ index'[k] = index[k]
                                       /\ Owns(job[d].owner, k) => Owns(job[d].owner, k)'
      <4>o. PICK o, f \in Owner : o = job[d].owner /\ f = job[d].from /\ o = job'[d].owner
        BY <3>1 DEF SameCall
      <4>1. \A k \in keys[f] : k \in Key /\ Owns(f, k)
        BY <1>a, <1>c
      <4>2. \A k \in keys[f] : index'[k] = index[k]
        BY <2>2, <3>5, <4>o, <4>1
      <4>3. \A k \in keys[f] : Owns(o, k) => Owns(o, k)'
        BY <2>2, <3>5, <4>o, <4>1
      <4> QED
        BY <4>o, <4>1, <4>2, <4>3 DEF Owns
    <3>7. pc'[d] = pc[d] \/ (pc[d] = "asleep" /\ pc'[d] = "wait")
      BY <2>1, <3>2 DEF Others
    <3> QED
      BY <3>1, <3>2, <3>4, <3>6, <3>7 DEF SameCall, Owns
  <2>5. ~(pc[c] \notin AtRest /\ job[c].mode = "inherit" /\ (Misses(c) \/ Declines(c)))
    <3>1. ASSUME pc[c] \in {"lookup", "wait"}, job[c].mode = "inherit"
          PROVE  /\ index[cur[c]] # Nil /\ entry[index[cur[c]]].owners # {}
                 /\ ~entry[index[cur[c]]].removed /\ (pc[c] = "wait" => ent[c] = index[cur[c]])
      BY <1>b, <1>c, <3>1 DEF Inherited, Owns
    <3> QED
      BY <3>1 DEF Misses, Declines
  <2>6. pc'[c] # "noOwners"
    BY <1>2, <2>5 DEF StepOf, InheritFindsOwners, BeginsLoad, Begins, BeginsInherit,
       BeginsRelease, Takes, Ends, Leaves, Finds, Makes, Misses, Goes, Shifts, Retries,
       Claims, Stores, Finishes, Records, Declines, Adds, Gives
  <2>7. ASSUME pc'[c] \notin AtRest, job'[c].mode = "inherit"
        PROVE  (/\ todo[c] \subseteq keys[job[c].from]
                /\ pc[c] \in Seeking => cur[c] \in keys[job[c].from]
                /\ pc[c] \in {"wait", "asleep"} => ent[c] = index[cur[c]]
                /\ pc[c] \in Seeking \cup {"next"}
                /\ \A k \in keys[job[c].from] :
                      k \in todo[c] \/ (k = cur[c] /\ pc[c] \in Seeking) \/ Owns(job[c].owner, k))'
    <3>1. \/ BeginsInherit(c) \/ Takes(c) \/ Finds(c) \/ Adds(c)
          \/ (Shifts(c) /\ pc[c] \in {"wait", "asleep"})
      <4>1. ~BeginsLoad(c) /\ ~BeginsRelease(c) /\ ~Ends(c) /\ ~Makes(c) /\ ~Retries(c)
        BY <2>7 DEF BeginsLoad, BeginsRelease, Begins, Ends, Leaves, Makes, Retries, Goes
      <4>2. ~Claims(c) /\ ~Stores(c) /\ ~Records(c) /\ ~Gives(c)
        BY <1>a, <2>7 DEF Claims, Stores, Records, Gives
      <4>3. ~Misses(c) /\ ~Declines(c)
        BY <2>5, <2>7 DEF Misses, Declines, Goes
      <4>4. ~Finishes(c)
        BY <1>a, <2>7 DEF Finishes, Leaves, SameCall
      <4>5. Shifts(c) => pc[c] \in {"wait", "asleep"}
        BY <1>a, <2>7 DEF Shifts, Goes
      <4> QED
        BY <1>2, <4>1, <4>2, <4>3, <4>4, <4>5 DEF StepOf
    <3>2. CASE BeginsInherit(c)
      BY <3>2 DEF BeginsInherit, Begins
    <3>3. CASE Takes(c)
      BY <2>7, <3>3 DEF Takes, Inherited, Owns
    <3>4. CASE Finds(c)
      BY <2>7, <3>4 DEF Finds, Inherited, Owns
    <3>5. CASE Adds(c)
      <4>1. /\ pc[c] = "wait" /\ job[c].mode = "inherit" /\ pc'[c] = "next" /\ SameCall(c)
            /\ UNCHANGED <<index, keys>> /\ job[c].owner \in entry'[ent[c]].owners /\ ~Gives(c)
        BY <1>a, <2>7, <3>5 DEF Adds, Writes, SameCall, Gives
      <4>2. /\ todo[c] \subseteq keys[job[c].from] /\ cur[c] \in keys[job[c].from]
            /\ ent[c] = index[cur[c]] /\ job[c].owner \in Owner /\ job[c].from \in Owner
            /\ \A k \in keys[job[c].from] : k \in todo[c] \/ k = cur[c] \/ Owns(job[c].owner, k)
        BY <1>a, <1>b, <4>1 DEF Inherited
      <4>3. Owns(job[c].owner, cur[c])'
        BY <1>a, <4>1, <4>2 DEF Owns, SameCall
      <4>4. \A k \in keys[job[c].from] : Owns(job[c].owner, k) => Owns(job[c].owner, k)'
        BY <1>a, <2>2, <4>1, <4>2 DEF SameCall, Owns
      <4> QED
        BY <4>1, <4>2, <4>3, <4>4 DEF SameCall, Owns
    <3>6. CASE Shifts(c) /\ pc[c] \in {"wait", "asleep"}
      BY <2>7, <3>6 DEF Shifts, Goes, Inherited, Owns
    <3> QED
      BY <3>1, <3>2, <3>3, <3>4, <3>5, <3>6
  <2> QED
    BY <2>3, <2>4, <2>6, <2>7 DEF Inherited, InheritFindsOwners
<1> QED
    BY <1>1, <1>2

(* A release or an inherit does not run into a parse of its own thread. *)
LEMMA NoReentry ==
    ASSUME Shape, Busy, Separate, NEW c \in Call, pc[c] = "wait", job[c].mode \notin Loading
    PROVE  entry[ent[c]].busy # job[c].thread
<1> SUFFICES ASSUME entry[ent[c]].busy = job[c].thread PROVE FALSE
    OBVIOUS
<1>1. job[c].thread \in Thread /\ ent[c] \in Entry /\ Running(c)
    BY JobFields DEF Shape, Control, AtEntry, Running, AtRest
<1>2. PICK x \in Call : pc[x] \in Claiming /\ ent[x] = ent[c]
    BY <1>1, NilAssumption DEF Busy
<1>3. x # c /\ Running(x) /\ job[x].thread = job[c].thread
    BY <1>2 DEF Busy, Claiming, Running, AtRest
<1> QED
    BY <1>1, <1>3 DEF Separate, OnThread

(* An owner that does not list what it owns still has the call that will, or
   that gives it up. *)
LEMMA AccountedStep ==
    ASSUME Shape, Shape', Busy, Placed, Separate, Recorded, Released, Inherited, Accounted,
           Rests \/ \E x \in Call : StepOf(x)
    PROVE  Accounted'
<1> USE NilAssumption DEF Claiming, AtEntry, Running, AtRest, Seeking
<1>a. /\ \A d \in Call : pc[d] \in AtEntry \cup {"lookup", "record"} => cur[d] \in Key
      /\ \A d \in Call : pc[d] \in AtEntry => ent[d] \in Entry
      /\ \A d \in Call : Running(d) => job[d].owner \in Owner
      /\ \A d \in Call : pc[d] \in Claiming \cup {"record"} => job[d].mode \in Loading
    BY JobFields DEF Shape, TypeOK, Control, Loading
<1>b. \A d \in Call : Running(d) /\ job[d].mode = "inherit" => job[d].from \in Owner
    BY DEF Shape, Origin
<1>1. CASE Rests
    BY <1>1 DEF Rests, Accounted, Owns
<1>2. ASSUME NEW c \in Call, StepOf(c)
      PROVE  Accounted'
  <2> DEFINE Why(d, o, k) ==
                 /\ Running(d) /\ job[d].owner = o
                 /\ \/ pc[d] \in {"stored", "record"} /\ cur[d] = k
                    \/ job[d].mode = "inherit" /\ k \in keys[job[d].from]
                    \/ job[d].mode = "release" /\ (k \in todo[d] \/ (cur[d] = k /\ pc[d] \in Seeking))
  <2> SUFFICES ASSUME NEW k \in Key, NEW o \in Owner, Owns(o, k)'
               PROVE  k \in keys'[o] \/ \E d \in Call : Why(d, o, k)'
    BY DEF Accounted
  <2>1. Others(c)
    BY <1>2, StepOthers
  <2>2. CASE ~Owns(o, k)
    <3>1. (Stores(c) \/ Adds(c)) /\ job[c].owner = o /\ cur[c] = k
      BY <1>2, <2>2, OwnsMade
    <3>2. CASE Stores(c)
      BY <3>1, <3>2 DEF Stores
    <3>3. CASE Adds(c)
      BY <3>1, <3>3 DEF Adds, Inherited
    <3> QED
      BY <3>1, <3>2, <3>3
  <2>3. CASE k \in keys[o]
    <3>1. CASE BeginsRelease(c)
      BY <2>3, <3>1 DEF BeginsRelease, Begins
    <3>2. CASE ~BeginsRelease(c)
      <4>1. keys[o] \subseteq keys'[o]
        BY <1>a, <1>2, <3>2
           DEF StepOf, BeginsLoad, Begins, BeginsInherit, Takes, Ends, Leaves, Finds, Makes, Misses, Goes, Shifts, Retries, Claims, Stores, Finishes, Records, Declines, Adds, Gives
      <4> QED
        BY <2>3, <4>1
    <3> QED
      BY <3>1, <3>2
  <2>4. ASSUME NEW d \in Call, Why(d, o, k), Owns(o, k), k \notin keys[o]
        PROVE  k \in keys'[o] \/ \E x \in Call : Why(x, o, k)'
    <3>1. CASE d # c
      <4>1. SameCall(d) /\ (pc[d] \in {"stored", "record"} => pc'[d] = pc[d])
            /\ pc'[d] \notin AtRest /\ (pc[d] \in Seeking => pc'[d] \in Seeking)
        BY <2>1, <2>4, <3>1 DEF Others
      <4>2. job[d].mode = "inherit" => keys[job[d].from] \subseteq keys'[job[d].from]
        <5>1. CASE BeginsRelease(c)
          BY <1>b, <2>4, <5>1 DEF BeginsRelease, Uses
        <5>2. CASE ~BeginsRelease(c)
          BY <1>a, <1>b, <1>2, <2>4, <5>2
             DEF StepOf, BeginsLoad, Begins, BeginsInherit, Takes, Ends, Leaves, Finds, Makes, Misses, Goes, Shifts, Retries, Claims, Stores, Finishes, Records, Declines, Adds, Gives
        <5> QED
          BY <5>1, <5>2
      <4> QED
        BY <2>4, <3>1, <4>1, <4>2 DEF SameCall
    <3>2. CASE d = c
      <4>1. CASE pc[c] \in {"stored", "record"} /\ cur[c] = k
        <5>1. (Finishes(c) /\ pc[c] = "stored") \/ Records(c)
          <6>1. Finishes(c) => pc[c] = "stored"
            BY <4>1 DEF Finishes
          <6>2. ~BeginsLoad(c) /\ ~BeginsInherit(c) /\ ~BeginsRelease(c) /\ ~Takes(c) /\ ~Ends(c)
            BY <4>1 DEF BeginsLoad, BeginsInherit, BeginsRelease, Begins, Takes, Ends
          <6>3. ~Finds(c) /\ ~Makes(c) /\ ~Misses(c) /\ ~Shifts(c) /\ ~Retries(c) /\ ~Claims(c)
            BY <4>1 DEF Finds, Makes, Misses, Shifts, Retries, Claims
          <6>4. ~Stores(c) /\ ~Declines(c) /\ ~Adds(c) /\ ~Gives(c)
            BY <4>1 DEF Stores, Declines, Adds, Gives
          <6> QED
            BY <1>2, <6>1, <6>2, <6>3, <6>4 DEF StepOf
        <5>2. CASE Finishes(c) /\ pc[c] = "stored"
          BY <2>4, <3>2, <4>1, <5>2 DEF Finishes, SameCall
        <5>3. CASE Records(c)
          BY <2>4, <3>2, <4>1, <5>3 DEF Records
        <5> QED
          BY <5>1, <5>2, <5>3
      <4>2. CASE job[c].mode = "inherit" /\ k \in keys[job[c].from]
        <5>1. ~Finishes(c) /\ ~Records(c) /\ ~Begins(c, "load") /\ ~Begins(c, "inherit") /\ ~Begins(c, "release")
          BY <1>a, <2>4, <3>2, <4>2 DEF Finishes, Records, Begins, Loading
        <5>2. CASE Ends(c)
          <6>1. pc[c] # "wait"
            BY <4>2, <5>2, NoReentry DEF Ends, Loading
          <6> QED
            BY <2>4, <3>2, <4>2, <5>2, <6>1 DEF Ends
        <5>3. CASE ~Ends(c)
          <6>1. UNCHANGED keys /\ job'[c] = job[c] /\ pc'[c] \notin AtRest
            BY <1>2, <5>1, <5>3 DEF StepOf, BeginsLoad, BeginsInherit, BeginsRelease, Takes, Finds, Makes,
               Misses, Goes, Shifts, Retries, Claims, Stores, Declines, Adds, Gives
          <6> QED
            BY <2>4, <3>2, <4>2, <6>1
        <5> QED
          BY <5>2, <5>3
      <4>3. CASE job[c].mode = "release" /\ (k \in todo[c] \/ (cur[c] = k /\ pc[c] \in Seeking))
        <5>1. Takes(c) \/ Finds(c) \/ Misses(c) \/ Shifts(c) \/ Gives(c)
          <6>1. ~Finishes(c) /\ ~Records(c) /\ ~Stores(c)
            BY <1>a, <4>3 DEF Finishes, Records, Stores, Loading
          <6>2. ~BeginsLoad(c) /\ ~BeginsInherit(c) /\ ~BeginsRelease(c)
            BY <2>4, <3>2 DEF BeginsLoad, BeginsInherit, BeginsRelease, Begins
          <6>3. ~Makes(c) /\ ~Retries(c) /\ ~Claims(c) /\ ~Declines(c) /\ ~Adds(c)
            BY <4>3 DEF Makes, Retries, Claims, Declines, Adds
          <6>4. ~Ends(c)
            BY <4>3, NoReentry DEF Ends, Loading
          <6> QED
            BY <1>2, <6>1, <6>2, <6>3, <6>4 DEF StepOf
        <5>2. CASE Takes(c)
          BY <2>4, <3>2, <4>3, <5>2 DEF Takes
        <5>3. CASE Finds(c)
          BY <2>4, <3>2, <4>3, <5>3 DEF Finds
        <5>4. CASE Misses(c)
          BY <2>4, <3>2, <4>3, <5>4 DEF Misses, Goes, Owns
        <5>5. CASE Shifts(c)
          BY <1>a, <2>4, <3>2, <4>3, <5>5 DEF Shifts, Goes, Loading
        <5>6. CASE Gives(c)
          <6>1. job'[c] = job[c] /\ todo'[c] = todo[c] /\ pc'[c] = "next" /\ pc[c] = "wait"
            BY <5>6 DEF Gives
          <6>2. CASE k \in todo[c]
            BY <2>4, <3>2, <4>3, <6>1, <6>2
          <6>3. CASE cur[c] = k
            <7>1. ent[c] = index[k] /\ job[c].owner = o
              BY <2>4, <3>2, <4>3, <6>1, <6>3 DEF Released
            <7>2. ~entry[ent[c]].removed /\ ent[c] \in Entry
              BY <1>a, <2>4, <6>1, <7>1 DEF Placed, Owns
            <7>3. entry'[ent[c]].owners = entry[ent[c]].owners \ {o} /\ index'[k] \in {Nil, ent[c]}
              BY <5>6, <7>1, <7>2 DEF Gives, Writes
            <7> QED
              BY <7>3 DEF Owns
          <6> QED
            BY <4>3, <6>2, <6>3
        <5> QED
          BY <5>1, <5>2, <5>3, <5>4, <5>5, <5>6
      <4> QED
        BY <2>4, <3>2, <4>1, <4>2, <4>3
    <3> QED
      BY <3>1, <3>2
  <2> QED
    BY <2>2, <2>3, <2>4 DEF Accounted
<1> QED
    BY <1>1, <1>2

(* An entry without owners has a load that will store it or take it out. *)
LEMMA KeptStep ==
    ASSUME Shape, Shape', Busy, Placed, Kept, Rests \/ \E x \in Call : StepOf(x)
    PROVE  Kept'
<1> USE NilAssumption DEF Claiming, AtEntry
<1>a. /\ \A d \in Call : pc[d] \in AtEntry \cup {"lookup", "record"} => cur[d] \in Key
      /\ \A d \in Call : pc[d] \in AtEntry => ent[d] \in Entry
      /\ \A d \in Call : pc[d] \in Claiming => job[d].mode = "load"
      /\ entry \in [Entry -> State] /\ index \in [Key -> Entry \cup {Nil}]
    BY DEF Shape, TypeOK, Control
<1>1. CASE Rests
    BY <1>1 DEF Rests, Kept
<1>2. ASSUME NEW c \in Call, StepOf(c)
      PROVE  Kept'
  <2> SUFFICES ASSUME NEW k \in Key, index'[k] # Nil, entry'[index'[k]].owners = {}
               PROVE  \E d \in Call : pc'[d] \in AtEntry /\ job'[d].mode = "load" /\ ent'[d] = index'[k]
    BY DEF Kept
  <2>1. Others(c)
    BY <1>2, StepOthers
  <2>2. CASE Makes(c) /\ k = cur[c]
    BY <2>2 DEF Makes
  <2>3. CASE ~(Makes(c) /\ k = cur[c])
    <3>1. index'[k] = index[k] /\ entry[index[k]].owners = {}
      <4>1. ~Finishes(c) /\ ~Gives(c) => index'[k] = index[k]
        BY <1>2, <2>3 DEF StepOf, BeginsLoad, Begins, BeginsInherit, BeginsRelease, Takes, Ends, Leaves, Finds, Makes, Misses, Goes, Shifts, Retries, Claims, Stores, Records, Declines, Adds
      <4>2. CASE Finishes(c) \/ (Gives(c) /\ ~entry[ent[c]].removed)
        <5>1. PICK gone \in BOOLEAN : Out(c, gone)
          BY <4>2, OutEffect
        <5> USE DEF Out
        <5>2. index'[k] = index[k] /\ index[k] \in Entry
          BY <1>a, <5>1
        <5>3. index[k] = ent[c] => k = cur[c]
          BY <5>1, <5>2 DEF Placed
        <5> QED
          BY <5>1, <5>2, <5>3
      <4>3. CASE Gives(c) /\ entry[ent[c]].removed
        BY <4>3 DEF Gives
      <4>4. CASE ~Finishes(c) /\ ~Gives(c)
        <5>1. index[k] \in Entry
          BY <1>a, <4>1, <4>4
        <5>2. CASE Makes(c)
          <6>1. ent'[c] \in Free /\ \A x \in Entry \ {ent'[c]} : entry'[x] = entry[x]
            BY <5>2 DEF Makes, Writes
          <6> QED
            BY <4>1, <4>4, <5>1, <6>1 DEF Free
        <5>3. CASE Claims(c) \/ Stores(c) \/ Adds(c)
          <6>1. ent[c] \in Entry
            BY <1>a, <5>3 DEF Claims, Stores, Adds
          <6>2. /\ entry[ent[c]].owners \subseteq entry'[ent[c]].owners
                /\ \A x \in Entry \ {ent[c]} : entry'[x] = entry[x]
            BY <5>3 DEF Claims, Stores, Adds, Writes
          <6> QED
            BY <4>1, <4>4, <5>1, <6>1, <6>2
        <5>4. CASE ~Makes(c) /\ ~Claims(c) /\ ~Stores(c) /\ ~Adds(c)
          <6>1. entry' = entry
            BY <1>2, <4>4, <5>4 DEF StepOf, BeginsLoad, Begins, BeginsInherit, BeginsRelease, Takes, Ends, Leaves, Finds, Misses, Goes, Shifts, Retries, Records, Declines
          <6> QED
            BY <4>1, <4>4, <6>1
        <5> QED
          BY <5>2, <5>3, <5>4
      <4> QED
        BY <4>2, <4>3, <4>4
    <3>2. PICK d \in Call : pc[d] \in AtEntry /\ job[d].mode = "load" /\ ent[d] = index[k]
      BY <3>1 DEF Kept
    <3>3. CASE d # c
      BY <2>1, <3>1, <3>2, <3>3 DEF Others, SameCall
    <3>4. CASE d = c
      <4>1. Ends(c) \/ Shifts(c) \/ Claims(c)
        <5>1. pc[c] \in AtEntry /\ job[c].mode = "load" /\ ent[c] = index[k] /\ ent[c] \in Entry
          BY <1>a, <3>2, <3>4
        <5>2. ~BeginsLoad(c) /\ ~BeginsInherit(c) /\ ~BeginsRelease(c) /\ ~Takes(c) /\ ~Records(c)
          BY <5>1 DEF BeginsLoad, BeginsInherit, BeginsRelease, Begins, Takes, Records
        <5>3. ~Finds(c) /\ ~Makes(c) /\ ~Misses(c) /\ ~Declines(c) /\ ~Adds(c) /\ ~Gives(c)
          BY <5>1 DEF Finds, Makes, Misses, Declines, Adds, Gives
        <5>4. ~Retries(c)
          BY <3>1, <5>1 DEF Retries, Placed
        <5>5. ~Stores(c)
          BY <3>1, <5>1 DEF Stores, Writes
        <5>6. ~Finishes(c)
          <6> SUFFICES ASSUME Finishes(c) PROVE FALSE
            OBVIOUS
          <6>1. PICK gone \in BOOLEAN : Out(c, gone)
            BY OutEffect
          <6> USE DEF Out
          <6>2. k = cur[c]
            BY <3>1, <5>1, <6>1 DEF Placed
          <6>3. entry'[ent[c]].owners = {}
            BY <3>1, <5>1
          <6>4. index'[k] = Nil
            BY <6>1, <6>2, <6>3
          <6> QED
            BY <6>4
        <5> QED
          BY <1>2, <5>2, <5>3, <5>4, <5>5, <5>6 DEF StepOf
      <4>2. CASE Ends(c)
        <5>1. pc[c] = "wait" /\ entry[ent[c]].busy = job[c].thread /\ job[c].thread \in Thread
          BY <3>2, <3>4, <4>2, JobFields DEF Ends, Shape, Control, Running, AtRest
        <5>2. PICK x \in Call : pc[x] \in Claiming /\ ent[x] = ent[c]
          BY <1>a, <5>1 DEF Busy
        <5>3. x # c /\ job[x].mode = "load"
          BY <1>a, <5>1, <5>2
        <5> QED
          BY <2>1, <3>1, <3>2, <3>4, <5>2, <5>3 DEF Others, SameCall
      <4>3. CASE Shifts(c)
        BY <3>1, <3>2, <3>4, <4>3 DEF Shifts, Goes
      <4>4. CASE Claims(c)
        BY <3>1, <3>2, <3>4, <4>4 DEF Claims
      <4> QED
        BY <4>1, <4>2, <4>3, <4>4
    <3> QED
      BY <3>3, <3>4
  <2> QED
    BY <2>2, <2>3
<1> QED
    BY <1>1, <1>2

----------------------------------------------------------------------------
(* The theorems *)

(* The layers together: the inductive invariant over the shape. *)
Ownership ==
    /\ Separate /\ Busy /\ NoLostWakeup /\ Placed
    /\ KeysAreOwned /\ Recorded /\ Released /\ Inherited /\ InheritFindsOwners
    /\ Accounted /\ Kept

(* The empty cache is owned by nobody. *)
LEMMA OwnershipInit == Init => Ownership
<1> SUFFICES ASSUME Init PROVE Ownership
    OBVIOUS
<1>1. \A c \in Call : pc[c] = "new" /\ ent[c] = Nil
    BY DEF Init
<1>2. \A k \in Key : index[k] = Nil
    BY DEF Init
<1>3. \A e \in Entry : entry[e] = Blank
    BY DEF Init
<1>4. \A o \in Owner : keys[o] = {}
    BY DEF Init
<1>5. Blank.value = FALSE /\ Blank.owners = {} /\ Blank.busy = Nil /\ Blank.removed = FALSE
    BY DEF Blank
<1>6. Separate /\ Recorded /\ Released /\ Inherited /\ InheritFindsOwners
    BY <1>1 DEF Separate, Uses, OnThread, Recorded, Released, Inherited, InheritFindsOwners, Running, AtRest
<1>7. Busy /\ NoLostWakeup
    BY <1>1, <1>3, <1>5 DEF Busy, NoLostWakeup, Claiming
<1>8. Placed
    BY <1>1, <1>2, <1>3, <1>5 DEF Placed, RemovedIsUnowned, Claiming
<1>9. KeysAreOwned /\ Accounted /\ Kept
    BY <1>2, <1>4 DEF KeysAreOwned, Accounted, Owns, Kept
<1> QED
    BY <1>6, <1>7, <1>8, <1>9 DEF Ownership

(* Every step keeps the books of ownership, layer by layer. *)
LEMMA OwnershipStep == Shape /\ Ownership /\ [Next]_vars => Ownership'
<1> SUFFICES ASSUME Shape, Ownership, [Next]_vars PROVE Ownership'
    OBVIOUS
<1>1. /\ Separate /\ Busy /\ NoLostWakeup /\ Placed
      /\ KeysAreOwned /\ Recorded /\ Released /\ Inherited /\ InheritFindsOwners
      /\ Accounted /\ Kept
    BY DEF Ownership
<1>2. Shape'
    BY ShapeStep
<1>3. Rests \/ \E x \in Call : StepOf(x)
    BY <1>1, Steps
<1>4. Separate' /\ Busy' /\ NoLostWakeup' /\ Placed'
    BY <1>1, <1>2, <1>3, SeparateStep, BusyStep, PlacedStep
<1>5. KeysAreOwned' /\ Recorded' /\ Released'
    BY <1>1, <1>2, <1>3, KeysAreOwnedStep, RecordedStep, ReleasedStep
<1>6. Inherited' /\ InheritFindsOwners'
    BY <1>1, <1>2, <1>3, InheritedStep
<1>7. Accounted' /\ Kept'
    BY <1>1, <1>2, <1>3, AccountedStep, KeptStep
<1> QED
    BY <1>4, <1>5, <1>6, <1>7 DEF Ownership

(* The inductive invariant of the cache: its shape and the books of who owns
   what hold in every state. *)
THEOREM OwnershipHolds == Spec => [](Shape /\ Ownership)
<1>1. Init => Shape /\ Ownership
    BY ShapeInit, OwnershipInit
<1>2. Shape /\ Ownership /\ [Next]_vars => (Shape /\ Ownership)'
    BY ShapeStep, OwnershipStep
<1> QED
    BY <1>1, <1>2, PTL DEF Spec

(* What a snapshot lists among its keys it owns in the cache, with a value and
   in the index, for any number of threads, snapshots and configurations. *)
THEOREM ListedKeysAreOwned == Spec => []KeysAreOwned
<1>1. Shape /\ Ownership => KeysAreOwned
    BY DEF Ownership
<1> QED
    BY <1>1, OwnershipHolds, PTL

(* What a snapshot owns it knows of, what nobody owns is taken out, and what
   it inherits is there. *)
THEOREM OwnershipStaysExact == Spec => []OwnershipIsExact
<1>1. Shape /\ Ownership => OwnershipIsExact
  <2> SUFFICES ASSUME Shape, Ownership PROVE OwnershipIsExact
    OBVIOUS
  <2>1. Accounted /\ Kept /\ InheritFindsOwners /\ RemovedIsUnowned
    BY DEF Ownership, Placed
  <2>2. /\ index \in [Key -> Entry \cup {Nil}] /\ entry \in [Entry -> State]
        /\ \A c \in Call : pc[c] \in AtEntry => Running(c)
    BY DEF Shape, TypeOK, AtEntry, Claiming, Running, AtRest
  <2>3. OwnersKnow
    <3>1. ASSUME NEW k \in Key, index[k] # Nil, NEW o \in entry[index[k]].owners
          PROVE  \/ k \in keys[o]
                 \/ \E c \in Call : Uses(c, o) /\ (cur[c] = k \/ k \in todo[c])
                 \/ \E c \in Call : Uses(c, o) /\ job[c].mode = "inherit"
      <4>1. o \in Owner
        BY <2>2, <3>1 DEF State
      <4> QED
        BY <2>1, <3>1, <4>1 DEF Accounted, Owns, Uses
    <3> QED
      BY <3>1 DEF OwnersKnow
  <2>4. NothingLeaks
    BY <2>1, <2>2 DEF Kept, NothingLeaks
  <2> QED
    BY <2>1, <2>3, <2>4 DEF OwnershipIsExact
<1> QED
    BY <1>1, OwnershipHolds, PTL

(* A call sleeps only on an entry that a thread is busy with. *)
THEOREM SleepersAreWoken == Spec => []NoLostWakeup
<1>1. Shape /\ Ownership => NoLostWakeup
    BY DEF Ownership
<1> QED
    BY <1>1, OwnershipHolds, PTL
=============================================================================
