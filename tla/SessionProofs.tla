--------------------------- MODULE SessionProofs ---------------------------
(***************************************************************************)
(* The safety of a project session, for any threads, files, faults, calls  *)
(* and timers.  The invariants come in layers: the lists of steps that the *)
(* threads can have (Shape), who holds the locks (Locks), what a close has *)
(* done so far (Counted, Names, Closes), and what is known of the changes  *)
(* and of the options on their way (Late, Comes, Options).  The lock and   *)
(* the close layers see of a thread's list only its place.                 *)
(***************************************************************************)
EXTENDS Session, Integers, FiniteSetTheorems, SequenceTheorems, TLAPS

Bare == {"apply", "unread", "match", "spawn", "run", "deliver", "build", "publish", "announce",
         "restore", "lock", "shut", "clear", "stop", "unlock", "wait", "closed"}
Timed == {"schedule", "arm", "cancel"}
Edits == {"open", "change", "close"}
Steps ==
    {<<o>> : o \in Bare} \cup (Timed \X Kind) \cup ({"store"} \X Kind \X Nat)
    \cup ({"enqueue", "push"} \X Edits \X File) \cup ({"watched"} \X File)
    \cup ({"look", "take"} \X (Timer \cup {Nil})) \cup ({"finish"} \X BOOLEAN)
    \cup ({"settle", "rollback"} \X Nat \X (Nat \cup {Nil}))

Update_ == {"look", "take", "build", "publish", "announce"}

(* What may come behind a step. *)
Follows(a, b) ==
    \/ a[1] \in {"enqueue", "apply"} /\ b[1] = "look"
    \/ a[1] = "push" /\ b[1] = "schedule"
    \/ a[1] \in {"schedule", "arm", "store"} /\ b[1] \in {"schedule", "push", "unread", "look"}
    \/ a[1] \in Update_ /\ b[1] \in {"settle", "finish"}
    \/ a[1] = "restore" /\ b[1] \in {"rollback", "finish"}
    \/ a[1] = "deliver" /\ b[1] = "finish"
    \/ a[1] = "cancel" /\ a[2] = "update" /\ b[1] = "take"
    \/ a[1] = "cancel" /\ a[2] = "update" /\ b[1] = "cancel" /\ b[2] = "idle"
    \/ a[1] = "cancel" /\ a[2] = "idle" /\ b[1] = "cancel" /\ b[2] = "refresh"
    \/ a[1] = "cancel" /\ a[2] = "refresh" /\ b[1] \in {"push", "unlock"}
    \/ a[1] = "lock" /\ b[1] = "shut"
    \/ a[1] = "shut" /\ b[1] = "clear"
    \/ a[1] = "clear" /\ b[1] = "stop"
    \/ a[1] = "stop" /\ b[1] = "cancel" /\ b[2] = "update"
    \/ a[1] = "unlock" /\ b[1] = "wait"
    \/ a[1] = "wait" /\ b[1] = "closed"
Linked(s) == \A i \in 1 .. Len(s) : i < Len(s) => Follows(s[i], s[i + 1])

(* Whose steps these are. *)
Fits(p, x) ==
    /\ x[1] \in {"look", "take"} => x[2] = IF p \in Thread THEN Nil ELSE p
    /\ x[1] = "deliver" => p[1] = "refresh"
    /\ x[1] \in {"match", "spawn", "run", "deliver", "finish"} => p \notin Thread
    /\ x[1] \in {"apply", "settle", "rollback"} => p \in Thread /\ "apply" \in Does[p]
Fitting(p, s) == \A i \in 1 .. Len(s) : Fits(p, s[i])

Reading == {"push", "unread"}
Once(s) == \A i, j \in 1 .. Len(s) : s[i][1] \in Reading /\ s[j][1] \in Reading => i = j
(* Closing a document asks for an update, a cancelled update timer is not the
   end of a list, and an update begins with its two steps. *)
Asking(s) ==
    \A i \in 1 .. Len(s) : s[i][1] = "push" /\ s[i][2] = "close" =>
        \E j \in 1 .. Len(s) : j > i /\ s[j][1] = "schedule" /\ s[j][2] = "update"
Going(s) ==
    \A i \in 1 .. Len(s) : /\ s[i][1] = "cancel" /\ s[i][2] = "update" => i < Len(s)
                           /\ s[i][1] = "take" => i = 1 \/ (i = 2 /\ s[1][1] = "cancel")
                           /\ s[i][1] = "apply" => i = 1 /\ Len(s) = 2
Plan(p, s) == Linked(s) /\ Fitting(p, s) /\ Once(s) /\ Asking(s) /\ Going(s)

Slot == [epoch : Nat, timer : Nat \cup {Nil}, delivery : Nat \cup {Nil}]
TypeOK ==
    /\ snapshot \in Snapshot \cup {Nil} /\ update \in Thread \cup Timer \cup {Nil}
    /\ pending \in Pending /\ taken \in Pending \cup {Nil}
    /\ slot \in [Kind -> Slot] /\ token \in BOOLEAN
    /\ queue \in [closed : BOOLEAN, active : Int, panics : Int]
    /\ armed \in SUBSET Timer
    /\ count \in [calls : Nat, fires : Nat, changes : Nat, options : Nat]
    /\ excused \in SUBSET Nat /\ acked \in SUBSET Nat
    /\ ends \in [sent : BOOLEAN, late : BOOLEAN]
Planned ==
    /\ Thread \subseteq DOMAIN todo /\ DOMAIN todo \subseteq Thread \cup Timer
    /\ todo \in [DOMAIN todo -> Seq(Steps)]
    /\ \A p \in DOMAIN todo : Plan(p, todo[p])
Shape == TypeOK /\ Planned

----------------------------------------------------------------------------
(* Where a thread is: its first step, where a cancellation tells by what
   comes behind it whether it belongs to an update or to a close. *)
Second(s, op) == Len(s) > 1 /\ s[2][1] = op
Ending(k) == CASE k = "update" -> "endUpdate" [] k = "idle" -> "endIdle" [] OTHER -> "endRefresh"
PlaceOf(s) ==
    IF s = <<>> THEN "idle"
    ELSE IF s[1][1] # "cancel" THEN s[1][1]
    ELSE IF Second(s, "take") THEN "begin"
    ELSE IF Second(s, "cancel") \/ Second(s, "unlock") THEN Ending(s[1][2])
    ELSE "cancel"
Place(p) == PlaceOf(todo[p])

Builds == {"build", "publish", "restore"}
Holds == Builds \cup {"begin", "take", "announce"}
PastRefresh == {"unlock", "wait", "closed"}
PastIdle == PastRefresh \cup {"endRefresh"}
PastUpdate == PastIdle \cup {"endIdle"}
PastStop == PastUpdate \cup {"endUpdate"}
PastClear == PastStop \cup {"stop"}
PastShut == PastClear \cup {"clear"}
Locked == (PastShut \cup {"shut"}) \ {"wait", "closed"}
ReadsOf(s) == \E i \in 1 .. Len(s) : s[i][1] \in Reading
Reads(p) == ReadsOf(todo[p])

Locks ==
    /\ \A p \in DOMAIN todo : Place(p) \in Holds => update = p /\ snapshot # Nil
    /\ \A p \in DOMAIN todo : Place(p) \in Locked => update = p
    /\ \A p \in DOMAIN todo : Place(p) \in Builds => taken # Nil
    /\ taken # Nil => update \in DOMAIN todo /\ Place(update) \in Builds
    /\ \A p \in DOMAIN todo : Reads(p) => p \in readers
    /\ readers # {} => snapshot # Nil

----------------------------------------------------------------------------
(* The tasks that run are counted. *)
Running == {t \in DOMAIN todo \ Thread : Place(t) \notin {"match", "spawn"}}
Counted == IsFiniteSet(Running) /\ queue.active = Cardinality(Running)
Names ==
    /\ \A t \in armed : t[2] <= slot[t[1]].epoch
    /\ \A t \in DOMAIN todo \ Thread : t[2] <= slot[t[1]].epoch
    /\ armed \cap DOMAIN todo = {}

(* What a close has done stays done. *)
Quiet(k) == token /\ slot[k].timer = Nil /\ (k = "refresh" => live = {})
Closes ==
    /\ \A p \in DOMAIN todo :
          /\ Place(p) \in PastShut => snapshot = Nil
          /\ Place(p) \in PastClear => pending = Empty
          /\ Place(p) \in PastStop => token
          /\ Place(p) \in PastUpdate => Quiet("update")
          /\ Place(p) \in PastIdle => Quiet("idle")
          /\ Place(p) \in PastRefresh => Quiet("refresh")
          /\ Place(p) \in {"wait", "closed"} => queue.closed
          /\ Place(p) = "closed" => queue.active = 0
    /\ ends.sent => /\ snapshot = Nil /\ pending = Empty /\ queue.closed /\ queue.active = 0
                    /\ \A k \in Kind : Quiet(k)
    /\ ~ends.late
    /\ token => snapshot = Nil

----------------------------------------------------------------------------
(* A task that updates has ended its own timer. *)
Late ==
    \A t \in DOMAIN todo \ Thread :
        t[1] = "update" /\ Place(t) \in Holds \ {"begin"} => t[2] < slot["update"].epoch

----------------------------------------------------------------------------
Applied == {"settle", "rollback"}
(* An option in hand is one that was given out, and not older than those
   acknowledged. *)
Known(o) == o # Nil => o <= count.options /\ \A a \in acked : a <= o
(* The options of the only call under way are pending, in the update under way
   or published, and no others are behind them. *)
Early == {"look", "begin", "take"}
Underway(p, o) ==
    \/ pending.inferred = o /\ Place(p) \in Early
    \/ /\ pending.inferred = Nil /\ taken # Nil /\ taken.inferred = o
       /\ Place(p) \in Builds \cup {"look"}
    \/ pending.inferred = Nil /\ (taken # Nil => taken.inferred = Nil) /\ snapshot.inferred = o
ChoiceOf(s, x) == x[1] \in Applied /\ \E i \in 1 .. Len(s) : s[i] = x
Chosen(p, x) ==
    /\ x[2] = count.options /\ Known(x[3])
    /\ x[1] = "settle" => Underway(p, x[2])
Choices == \A p \in Thread : \A x \in Steps : ChoiceOf(todo[p], x) => Chosen(p, x)
Options ==
    snapshot # Nil => /\ Known(pending.inferred) /\ Known(snapshot.inferred)
                      /\ taken # Nil => Known(taken.inferred)
                      /\ Choices

----------------------------------------------------------------------------
(* The lists of steps *)

(* The parts of a step have the types its name calls for. *)
LEMMA StepKinds ==
    ASSUME NEW x \in Steps
    PROVE  /\ x[1] \in Timed => x[2] \in Kind
           /\ x[1] = "store" => x[2] \in Kind /\ x[3] \in Nat
           /\ x[1] \in {"enqueue", "push"} => x[2] \in Edits /\ x[3] \in File
           /\ x[1] = "watched" => x[2] \in File
           /\ x[1] \in {"look", "take"} => x[2] \in Timer \cup {Nil}
           /\ x[1] = "finish" => x[2] \in BOOLEAN
           /\ x[1] \in Applied => x[2] \in Nat /\ x[3] \in Nat \cup {Nil}
  <1>1. CASE x \in {<<o>> : o \in Bare}
    BY <1>1 DEF Bare, Timed, Applied
  <1>2. CASE x \in Timed \X Kind
    BY <1>2 DEF Timed, Applied
  <1>3. CASE x \in {"store"} \X Kind \X Nat
    BY <1>3 DEF Timed, Applied
  <1>4. CASE x \in {"enqueue", "push"} \X Edits \X File
    BY <1>4 DEF Timed, Applied
  <1>5. CASE x \in {"watched"} \X File
    BY <1>5 DEF Timed, Applied
  <1>6. CASE x \in {"look", "take"} \X (Timer \cup {Nil})
    BY <1>6 DEF Timed, Applied
  <1>7. CASE x \in {"finish"} \X BOOLEAN
    BY <1>7 DEF Timed, Applied
  <1>8. CASE x \in {"settle", "rollback"} \X Nat \X (Nat \cup {Nil})
    BY <1>8 DEF Timed, Applied
  <1> QED BY <1>1, <1>2, <1>3, <1>4, <1>5, <1>6, <1>7, <1>8 DEF Steps

(* The first step, and the others, of a list. *)
LEMMA Behind_ ==
    ASSUME NEW S, NEW s \in Seq(S), NEW t \in Seq(S), t # <<>>
    PROVE  /\ Head(t) = t[1] /\ t[1] \in S /\ Len(t) \in Nat /\ Len(t) >= 1
           /\ s \o Tail(t) \in Seq(S) /\ Len(s) \in Nat
           /\ Len(s \o Tail(t)) = Len(s) + Len(t) - 1
           /\ \A i \in 1 .. Len(s) : (s \o Tail(t))[i] = s[i]
           /\ \A i \in 2 .. Len(t) : (s \o Tail(t))[Len(s) + i - 1] = t[i]
           /\ \A i \in 1 .. Len(s) + Len(t) - 1 :
                 i \in 1 .. Len(s) \/ (i - Len(s) + 1 \in 2 .. Len(t) /\ i = Len(s) + (i - Len(s) + 1) - 1)
  OBVIOUS

(* What makes a list that stands for the first step of another one fit. *)
Replaces(new, s) ==
    /\ new # <<>> /\ Len(s) > 1 => Follows(new[Len(new)], s[2])
    /\ new # <<>> => s[1][1] # "cancel"
    /\ \A i \in 1 .. Len(new) : new[i][1] # "apply"
    /\ (\E i \in 1 .. Len(new) : new[i][1] \in Reading) =>
          \A i \in 2 .. Len(s) : s[i][1] \notin Reading

(* The first step of a list is replaced by steps that fit before the rest. *)
LEMMA PlanReplaced ==
    ASSUME NEW p, NEW new \in Seq(Steps), NEW s \in Seq(Steps), s # <<>>,
           Plan(p, new), Plan(p, s), Replaces(new, s)
    PROVE  Plan(p, new \o Tail(s))
  <1> PICK z : z = new \o Tail(s)
    OBVIOUS
  <1> PICK m, k : m = Len(new) /\ k = Len(s)
    OBVIOUS
  <1>1. /\ m \in Nat /\ k \in Nat /\ k >= 1 /\ Len(z) = m + k - 1
        /\ \A i \in 1 .. m : z[i] = new[i]
        /\ \A i \in 2 .. k : z[m + i - 1] = s[i]
        /\ \A i \in 1 .. m + k - 1 : i \in 1 .. m \/ (i - m + 1 \in 2 .. k /\ i = m + (i - m + 1) - 1)
    BY Behind_
  <1>l. Len(z) = m + k - 1
    BY <1>1
  <1>e. (new = <<>> <=> m = 0) /\ (\A i \in 2 .. k : z[m + i - 1] = s[i])
    BY <1>1
  <1>2. Linked(z)
    <2> SUFFICES ASSUME NEW i \in 1 .. m + k - 1, i < m + k - 1
                 PROVE  Follows(z[i], z[i + 1])
      BY <1>1 DEF Linked
    <2>1. CASE i < m
      <3>1. z[i] = new[i] /\ z[i + 1] = new[i + 1] /\ i \in 1 .. Len(new) /\ i < Len(new)
        BY <2>1, <1>1
      <3> QED BY <3>1 DEF Plan, Linked
    <2>2. CASE i = m
      <3>1. z[i] = new[m] /\ z[i + 1] = s[2] /\ new # <<>> /\ Len(s) > 1
        BY <2>2, <1>1, <1>e
      <3> QED BY <3>1 DEF Replaces
    <2>3. CASE i > m
      <3>1. i - m + 1 \in 2 .. k /\ i - m + 2 \in 2 .. k
            /\ i = m + (i - m + 1) - 1 /\ i + 1 = m + (i - m + 2) - 1
        BY <2>3, <1>1
      <3>2. PICK a : a = i - m + 1
        OBVIOUS
      <3>3. z[i] = s[a] /\ z[i + 1] = s[a + 1] /\ a \in 1 .. k /\ a < k
        BY <3>1, <3>2, <1>1
      <3> QED BY <3>3 DEF Plan, Linked
    <2> QED BY <2>1, <2>2, <2>3, <1>1
  <1>3. Fitting(p, z)
    <2> SUFFICES ASSUME NEW i \in 1 .. m + k - 1
                 PROVE  Fits(p, z[i])
      BY <1>1 DEF Fitting
    <2>1. CASE i \in 1 .. m
      BY <2>1, <1>1 DEF Plan, Fitting
    <2>2. CASE i - m + 1 \in 2 .. k
      BY <2>2, <1>1 DEF Plan, Fitting
    <2> QED BY <2>1, <2>2, <1>1
  <1>4. Once(z)
    <2> SUFFICES ASSUME NEW i \in 1 .. m + k - 1, NEW j \in 1 .. m + k - 1,
                        z[i][1] \in Reading, z[j][1] \in Reading
                 PROVE  i = j
      BY <1>1 DEF Once
    <2>1. CASE i \in 1 .. m /\ j \in 1 .. m
      BY <2>1, <1>1 DEF Plan, Once
    <2>2. CASE i - m + 1 \in 2 .. k /\ j - m + 1 \in 2 .. k
      <3>1. z[i] = s[i - m + 1] /\ z[j] = s[j - m + 1]
        BY <2>2, <1>1
      <3>2. i - m + 1 = j - m + 1
        <4>1. PICK a, b : a = i - m + 1 /\ b = j - m + 1
          OBVIOUS
        <4>2. a \in 1 .. Len(s) /\ b \in 1 .. Len(s)
          BY <4>1, <2>2, <1>1
        <4>3. s[a][1] \in Reading /\ s[b][1] \in Reading
          BY <4>1, <3>1
        <4>4. a = b
          BY <4>2, <4>3 DEF Plan, Once
        <4> QED BY <4>1, <4>4
      <3> QED BY <3>2, <1>1
    <2>3. CASE i \in 1 .. m /\ j - m + 1 \in 2 .. k
      BY <2>3, <1>1 DEF Replaces
    <2>4. CASE j \in 1 .. m /\ i - m + 1 \in 2 .. k
      BY <2>4, <1>1 DEF Replaces
    <2> QED BY <2>1, <2>2, <2>3, <2>4, <1>1
  <1>5. Asking(z)
    <2> SUFFICES ASSUME NEW i \in 1 .. Len(z), z[i][1] = "push", z[i][2] = "close"
                 PROVE  \E j \in 1 .. Len(z) : j > i /\ z[j][1] = "schedule" /\ z[j][2] = "update"
      BY Zenon DEF Asking
    <2>1. CASE i \in 1 .. m
      <3>1. PICK j \in 1 .. m : j > i /\ new[j][1] = "schedule" /\ new[j][2] = "update"
        BY <2>1, <1>1 DEF Plan, Asking
      <3> QED BY <3>1, <1>1
    <2>2. CASE i - m + 1 \in 2 .. k
      <3>1. z[i] = s[i - m + 1]
        BY <2>2, <1>1
      <3>2. PICK j \in 1 .. k : j > i - m + 1 /\ s[j][1] = "schedule" /\ s[j][2] = "update"
        BY <3>1, <2>2, <1>1 DEF Plan, Asking
      <3>3. m + j - 1 \in 1 .. m + k - 1 /\ m + j - 1 > i /\ z[m + j - 1] = s[j]
        BY <3>2, <2>2, <1>1
      <3> QED BY <3>2, <3>3, <1>l
    <2> QED BY <2>1, <2>2, <1>1
  <1>6. Going(z)
    <2> SUFFICES ASSUME NEW i \in 1 .. m + k - 1
                 PROVE  /\ z[i][1] = "cancel" /\ z[i][2] = "update" => i < m + k - 1
                        /\ z[i][1] = "take" => i = 1 \/ (i = 2 /\ z[1][1] = "cancel")
                        /\ z[i][1] = "apply" => i = 1 /\ m + k - 1 = 2
      BY <1>1 DEF Going
    <2>1. CASE i \in 1 .. m
      <3>1. z[i] = new[i] /\ z[1] = new[1] /\ i \in 1 .. Len(new)
        BY <2>1, <1>1
      <3>2. new[i][1] = "cancel" /\ new[i][2] = "update" => i < m
        BY <3>1 DEF Plan, Going
      <3>3. new[i][1] = "take" => i = 1 \/ (i = 2 /\ new[1][1] = "cancel")
        BY <3>1 DEF Plan, Going
      <3>4. new[i][1] # "apply"
        BY <3>1 DEF Replaces
      <3> QED BY <3>1, <3>2, <3>3, <3>4, <1>1
    <2>2. CASE i - m + 1 \in 2 .. k
      <3>1. z[i] = s[i - m + 1] /\ i - m + 1 \in 1 .. Len(s)
        BY <2>2, <1>1
      <3>2. s[i - m + 1][1] = "cancel" /\ s[i - m + 1][2] = "update" => i - m + 1 < k
        BY <3>1 DEF Plan, Going
      <3>3. s[i - m + 1][1] = "take" => i - m + 1 = 2 /\ s[1][1] = "cancel"
        BY <3>1, <2>2, <1>1 DEF Plan, Going
      <3>4. s[1][1] = "cancel" => m = 0
        BY <1>e DEF Replaces
      <3>5. s[i - m + 1][1] # "apply"
        BY <3>1, <2>2, <1>1 DEF Plan, Going
      <3> QED BY <3>1, <3>2, <3>3, <3>4, <3>5, <2>2, <1>1
    <2> QED BY <2>1, <2>2, <1>1
  <1> QED BY <1>2, <1>3, <1>4, <1>5, <1>6 DEF Plan

(* A thread whose list becomes a plan has one; so has every other. *)
LEMMA PlannedNew ==
    ASSUME Planned, NEW p \in DOMAIN todo, NEW new \in Seq(Steps), Plan(p, new),
           todo' = [todo EXCEPT ![p] = new]
    PROVE  Planned'
  <1>1. todo \in [DOMAIN todo -> Seq(Steps)] /\ Thread \subseteq DOMAIN todo
        /\ DOMAIN todo \subseteq Thread \cup Timer /\ \A q \in DOMAIN todo : Plan(q, todo[q])
    BY DEF Planned
  <1>2. /\ DOMAIN todo' = DOMAIN todo /\ todo'[p] = new
        /\ \A q \in DOMAIN todo : q # p => todo'[q] = todo[q]
        /\ todo' \in [DOMAIN todo' -> Seq(Steps)]
    BY <1>1
  <1>3. ASSUME NEW q \in DOMAIN todo
        PROVE  Plan(q, todo'[q])
    <2>1. CASE q = p
      BY <2>1, <1>2
    <2>2. CASE q # p
      BY <2>2, <1>1, <1>2
    <2> QED BY <2>1, <2>2
  <1>4. \A q \in DOMAIN todo' : Plan(q, todo'[q])
    BY <1>2, <1>3
  <1>5. Thread \subseteq DOMAIN todo' /\ DOMAIN todo' \subseteq Thread \cup Timer
    BY <1>1, <1>2
  <1> QED BY <1>2, <1>4, <1>5 DEF Planned, Plan, Linked, Fitting, Once, Asking, Going

(* The same, for the list of a thread.                                     *)
LEMMA PlannedThen ==
    ASSUME Planned, NEW p \in DOMAIN todo, todo[p] # <<>>, NEW new \in Seq(Steps), Plan(p, new),
           Replaces(new, todo[p]), Then(p, new)
    PROVE  Planned'
  <1>1. todo[p] \in Seq(Steps) /\ Plan(p, todo[p])
    BY DEF Planned
  <1>2. PICK z : z = new \o Tail(todo[p])
    OBVIOUS
  <1>3. z \in Seq(Steps) /\ Plan(p, z)
    BY <1>1, <1>2, PlanReplaced, Behind_
  <1>4. todo' = [todo EXCEPT ![p] = z]
    BY <1>2 DEF Then
  <1> QED BY <1>3, <1>4, PlannedNew

(* A step that is only removed leaves a legal list.                        *)
LEMMA NoPlan ==
    ASSUME NEW p, NEW s
    PROVE  <<>> \in Seq(Steps) /\ Plan(p, <<>>) /\ Replaces(<<>>, s)
  <1>1. <<>> \in Seq(Steps) /\ Len(<<>>) = 0
    OBVIOUS
  <1> QED BY <1>1 DEF Plan, Linked, Fitting, Once, Asking, Going, Replaces

(* One step is a legal list, where it needs nothing behind it.             *)
LEMMA OnePlan ==
    ASSUME NEW p, NEW x \in Steps, Fits(p, x), x[1] \notin {"apply", "push"},
           x[1] = "cancel" => x[2] # "update"
    PROVE  <<x>> \in Seq(Steps) /\ Len(<<x>>) = 1 /\ <<x>>[1] = x /\ <<x>> # <<>> /\ Plan(p, <<x>>)
  <1>1. <<x>> \in Seq(Steps) /\ Len(<<x>>) = 1 /\ <<x>>[1] = x /\ <<x>> # <<>>
    OBVIOUS
  <1>2. \A i \in 1 .. 1 : i = 1
    OBVIOUS
  <1> QED BY <1>1, <1>2 DEF Plan, Linked, Fitting, Once, Asking, Going

(* How a list ends *)
LEMMA Ends ==
    ASSUME NEW p, NEW s \in Seq(Steps), s # <<>>, Plan(p, s)
    PROVE  /\ s[1] \in Steps /\ Head(s) = s[1] /\ Fits(p, s[1]) /\ Len(s) \in Nat /\ Len(s) >= 1
           /\ Len(s) > 1 => Follows(s[1], s[2]) /\ s[2] \in Steps /\ Fits(p, s[2])
           /\ s[1][1] \in {"settle", "rollback", "finish", "watched", "unread", "match", "spawn",
                           "run", "closed"} => Len(s) = 1
           /\ s[1][1] \in Update_ \cup {"restore", "wait", "deliver"} => Len(s) <= 2
           /\ s[1][1] = "apply" => Len(s) = 2
           /\ s[1][1] \in {"enqueue"} => \A i \in 2 .. Len(s) : s[i][1] \notin Reading \cup {"schedule", "arm"}
  <1>1. s[1] \in Steps /\ Head(s) = s[1] /\ Len(s) \in Nat /\ Len(s) >= 1
    BY Behind_
  <1>2. Fits(p, s[1])
    BY <1>1 DEF Plan, Fitting
  <1>3. Len(s) > 1 => Follows(s[1], s[2]) /\ s[2] \in Steps /\ Fits(p, s[2])
    BY <1>1 DEF Plan, Linked, Fitting
  <1>4. Len(s) > 2 => Follows(s[2], s[3])
    BY <1>1 DEF Plan, Linked
  <1>5. Len(s) > 3 => Follows(s[3], s[4])
    BY <1>1 DEF Plan, Linked
  <1>6. s[1][1] \in {"settle", "rollback", "finish", "watched", "unread", "match", "spawn",
                     "run", "closed"} => Len(s) = 1
    <2>1. SUFFICES ASSUME s[1][1] \in {"settle", "rollback", "finish", "watched", "unread", "match",
                                       "spawn", "run", "closed"}, Len(s) # 1
                   PROVE  FALSE
      OBVIOUS
    <2>2. ~Follows(s[1], s[2])
      BY <2>1 DEF Follows, Update_
    <2>3. PICK n \in Nat : n = Len(s) /\ n >= 1
      BY <1>1
    <2>4. n = 1 \/ n > 1
      BY <2>3
    <2> QED BY <2>1, <2>2, <2>3, <2>4, <1>3
  <1>7. s[1][1] \in Update_ \cup {"restore", "wait", "deliver"} => Len(s) <= 2
    BY <1>1, <1>3, <1>4 DEF Follows, Update_
  <1>8. s[1][1] = "apply" => Len(s) = 2
    BY <1>1 DEF Plan, Going
  <1>9. ASSUME s[1][1] \in {"enqueue"}, NEW i \in 2 .. Len(s)
        PROVE  s[i][1] \notin Reading \cup {"schedule", "arm"}
    <2>1. s[2][1] = "look" /\ (Len(s) > 2 => s[3][1] \in {"settle", "finish"})
      BY <1>9, <1>1, <1>3, <1>4 DEF Follows, Update_
    <2>2. Len(s) <= 3
      BY <2>1, <1>1, <1>5 DEF Follows, Update_
    <2>3. i = 2 \/ (i = 3 /\ Len(s) > 2)
      BY <2>2, <1>1
    <2> QED BY <2>1, <2>3 DEF Reading
  <1> QED BY <1>1, <1>2, <1>3, <1>6, <1>7, <1>8, <1>9

(* A step that is done goes; a step may make place for another one. *)
LEMMA PlannedDone ==
    ASSUME Planned, NEW p \in DOMAIN todo, todo[p] # <<>>, Then(p, <<>>)
    PROVE  Planned'
  BY NoPlan, PlannedThen

(* A step gives way to one other.                                          *)
LEMMA PlannedOne ==
    ASSUME Planned, NEW p \in DOMAIN todo, todo[p] # <<>>, NEW x \in Steps, Fits(p, x),
           x[1] \notin {"apply", "push", "unread"}, x[1] = "cancel" => x[2] # "update",
           todo[p][1][1] # "cancel", Len(todo[p]) > 1 => Follows(x, todo[p][2]),
           Then(p, <<x>>)
    PROVE  Planned'
  <1>1. /\ <<x>> \in Seq(Steps) /\ Len(<<x>>) = 1 /\ <<x>>[1] = x /\ <<x>> # <<>> /\ Plan(p, <<x>>)
    BY OnePlan
  <1>2. \A i \in 1 .. 1 : <<x>>[i] = x
    OBVIOUS
  <1>3. Replaces(<<x>>, todo[p])
    BY <1>1, <1>2 DEF Replaces, Reading
  <1> QED BY <1>1, <1>3, PlannedThen

(* A call returns before its end.                                          *)
LEMMA PlannedReturn ==
    ASSUME Planned, NEW p \in DOMAIN todo, Return(p)
    PROVE  Planned'
  BY NoPlan, PlannedNew DEF Return

(* A task that ends leaves no list behind.                                 *)
LEMMA PlannedGone ==
    ASSUME Planned, NEW p \in DOMAIN todo, p \notin Thread, Gone(p)
    PROVE  Planned'
  <1>1. todo \in [DOMAIN todo -> Seq(Steps)] /\ Thread \subseteq DOMAIN todo
        /\ DOMAIN todo \subseteq Thread \cup Timer /\ \A q \in DOMAIN todo : Plan(q, todo[q])
    BY DEF Planned
  <1>2. /\ DOMAIN todo' = DOMAIN todo \ {p}
        /\ \A q \in DOMAIN todo' : todo'[q] = todo[q]
        /\ todo' \in [DOMAIN todo' -> Seq(Steps)]
    BY <1>1 DEF Gone
  <1>3. \A q \in DOMAIN todo' : Plan(q, todo'[q])
    BY <1>1, <1>2
  <1>4. Thread \subseteq DOMAIN todo' /\ DOMAIN todo' \subseteq Thread \cup Timer
    BY <1>1, <1>2
  <1> QED BY <1>2, <1>3, <1>4 DEF Planned, Plan, Linked, Fitting, Once, Asking, Going

(* The first step of a thread that takes one *)
LEMMA HeadOf ==
    ASSUME Planned, NEW p \in DOMAIN todo, todo[p] # <<>>
    PROVE  /\ todo[p] \in Seq(Steps) /\ Plan(p, todo[p]) /\ Head(todo[p]) = todo[p][1]
           /\ todo[p][1] \in Steps /\ Fits(p, todo[p][1]) /\ Len(todo[p]) \in Nat /\ Len(todo[p]) >= 1
           /\ Len(todo[p]) > 1 => /\ Follows(todo[p][1], todo[p][2]) /\ todo[p][2] \in Steps
                                  /\ Fits(p, todo[p][2])
           /\ p \in Thread \cup Timer
  <1>1. todo[p] \in Seq(Steps) /\ Plan(p, todo[p]) /\ p \in Thread \cup Timer
    BY DEF Planned
  <1> QED BY <1>1, Ends

(* Short lists put together *)
LEMMA Join ==
    ASSUME NEW x, NEW y
    PROVE  <<x>> \o <<y>> = <<x, y>>
  <1>0. PICK S : x \in S /\ y \in S
    <2>1. x \in {x, y} /\ y \in {x, y}
      OBVIOUS
    <2> QED BY <2>1, Zenon
  <1>1. /\ <<x>> \o <<y>> \in Seq(S) /\ <<x, y>> \in Seq(S)
        /\ Len(<<x>> \o <<y>>) = 2 /\ Len(<<x, y>>) = 2
    BY <1>0
  <1>2. \A i \in 1 .. 2 : (<<x>> \o <<y>>)[i] = <<x, y>>[i]
    <2>1. (<<x>> \o <<y>>)[1] = x
      BY <1>0
    <2>2. (<<x>> \o <<y>>)[2] = y
      BY <1>0
    <2> QED BY <2>1, <2>2
  <1> QED BY <1>1, <1>2, SeqEqual

(* The rest of a list of two.                                              *)
LEMMA TailOfTwo ==
    ASSUME NEW S, NEW s \in Seq(S), Len(s) = 2
    PROVE  Tail(s) = <<s[2]>>
  <1>1. s # <<>> /\ s[2] \in S
    OBVIOUS
  <1>5. Tail(s) \in Seq(S) /\ Len(Tail(s)) = Len(s) - 1
        /\ \A i \in 1 .. Len(Tail(s)) : Tail(s)[i] = s[i + 1]
    BY <1>1, HeadTailProperties
  <1>6. Len(Tail(s)) = 1
    BY <1>5
  <1>2. Tail(s) \in Seq(S) /\ Len(Tail(s)) = 1 /\ Tail(s)[1] = s[2]
    BY <1>5, <1>6
  <1>3. <<s[2]>> \in Seq(S) /\ Len(<<s[2]>>) = 1 /\ <<s[2]>>[1] = s[2]
    BY <1>1
  <1>4. \A i \in 1 .. 1 : Tail(s)[i] = <<s[2]>>[i]
    BY <1>2
  <1> QED BY <1>2, <1>3, <1>4, SeqEqual

(* The steps of the lists that the actions write.                          *)
LEMMA InSteps ==
    /\ \A o \in Bare : <<o>> \in Steps
    /\ \A o \in Timed, k \in Kind : <<o, k>> \in Steps
    /\ \A k \in Kind, n \in Nat : <<"store", k, n>> \in Steps
    /\ \A o \in {"enqueue", "push"}, c \in Edits, f \in File : <<o, c, f>> \in Steps
    /\ \A f \in File : <<"watched", f>> \in Steps
    /\ \A o \in {"look", "take"}, t \in Timer \cup {Nil} : <<o, t>> \in Steps
    /\ \A b \in BOOLEAN : <<"finish", b>> \in Steps
    /\ \A o \in Applied, n \in Nat, m \in Nat \cup {Nil} : <<o, n, m>> \in Steps
  BY DEF Steps, Applied

(* The timers' steps *)
LEMMA TimingPlanned ==
    ASSUME Planned, TypeOK, NEW p \in DOMAIN todo, Timing(p)
    PROVE  Planned'
  <1>1. CASE Cancel(p)
    BY <1>1, PlannedDone DEF Cancel, At
  <1>2. CASE Schedule(p)
    <2>1. todo[p] # <<>> /\ Head(todo[p])[1] = "schedule"
      BY <1>2 DEF Schedule, At
    <2>2. /\ todo[p][1][1] = "schedule" /\ todo[p][1][2] \in Kind /\ Head(todo[p]) = todo[p][1]
      BY <2>1, HeadOf, StepKinds DEF Timed
    <2>3. CASE token
      <3>1. Then(p, <<>>)
        BY <1>2, <2>3 DEF Schedule
      <3> QED BY <3>1, <2>1, PlannedDone
    <2>4. CASE ~token
      <3>1. Then(p, << <<"arm", todo[p][1][2]>> >>)
        BY <1>2, <2>4, <2>2 DEF Schedule, Arg
      <3>2. <<"arm", todo[p][1][2]>> \in Steps
        BY <2>2, InSteps DEF Timed
      <3>3. Fits(p, <<"arm", todo[p][1][2]>>)
        BY DEF Fits
      <3>4. Len(todo[p]) > 1 => Follows(<<"arm", todo[p][1][2]>>, todo[p][2])
        BY <2>1, <2>2, HeadOf DEF Follows, Update_
      <3> QED BY <3>1, <3>2, <3>3, <3>4, <2>1, <2>2, PlannedOne
    <2> QED BY <2>3, <2>4
  <1>3. CASE Arm(p)
    <2>1. todo[p] # <<>> /\ Head(todo[p])[1] = "arm"
      BY <1>3 DEF Arm, At
    <2>2. /\ todo[p][1][1] = "arm" /\ todo[p][1][2] \in Kind /\ Head(todo[p]) = todo[p][1]
      BY <2>1, HeadOf, StepKinds DEF Timed
    <2>3. PICK k, e : k = todo[p][1][2] /\ e = slot[k].epoch + 1
      OBVIOUS
    <2>4. e \in Nat /\ k \in Kind
      BY <2>2, <2>3 DEF TypeOK, Slot
    <2>5. Then(p, << <<"store", k, e>> >>)
      BY <1>3, <2>2, <2>3 DEF Arm, Arg
    <2>6. <<"store", k, e>> \in Steps
      BY <2>4, InSteps
    <2>7. Fits(p, <<"store", k, e>>)
      BY DEF Fits
    <2>8. Len(todo[p]) > 1 => Follows(<<"store", k, e>>, todo[p][2])
      BY <2>1, <2>2, HeadOf DEF Follows, Update_
    <2> QED BY <2>5, <2>6, <2>7, <2>8, <2>1, <2>2, PlannedOne
  <1>4. CASE Store(p)
    BY <1>4, PlannedDone DEF Store, At
  <1> QED BY <1>1, <1>2, <1>3, <1>4 DEF Timing

(* The steps of a close *)
LEMMA ClosingPlanned ==
    ASSUME Planned, NEW p \in DOMAIN todo, ClosingStep(p)
    PROVE  Planned'
  <1>1. CASE Wait(p)
    BY <1>1, PlannedDone, PlannedReturn DEF Wait, At
  <1>2. CASE ~Wait(p)
    BY <1>2, PlannedDone DEF ClosingStep, Lock, Shut, Clear, Stop, Unlock, Closed, At
  <1> QED BY <1>1, <1>2

(* The steps of a task *)
LEMMA TaskingPlanned ==
    ASSUME Planned, SessionAssumption, NEW p \in DOMAIN todo, Tasking(p)
    PROVE  Planned'
  <1>0. ASSUME todo[p] # <<>>
        PROVE  todo[p][1][1] \in {"match", "spawn", "run", "deliver", "finish"} =>
                   /\ p \in Timer \ Thread
                   /\ todo[p][1][1] # "deliver" => Len(todo[p]) = 1
    <2>1. Fits(p, todo[p][1]) /\ p \in Thread \cup Timer /\ todo[p] \in Seq(Steps) /\ Plan(p, todo[p])
      BY <1>0, HeadOf
    <2> QED BY <2>1, <1>0, Ends DEF Fits
  <1>1. CASE Match(p)
    <2>1. todo[p] # <<>> /\ todo[p][1][1] = "match" /\ p \notin Thread /\ Len(todo[p]) = 1
      BY <1>1, <1>0, HeadOf DEF Match, At
    <2>2. CASE Gone(p)
      BY <2>1, <2>2, PlannedGone
    <2>3. CASE Then(p, << <<"spawn">> >>)
      <3>1. <<"spawn">> \in Steps /\ Fits(p, <<"spawn">>)
        BY <2>1, InSteps DEF Bare, Fits
      <3> QED BY <3>1, <2>1, <2>3, PlannedOne
    <2> QED BY <1>1, <2>2, <2>3 DEF Match
  <1>2. CASE Spawn(p)
    <2>1. todo[p] # <<>> /\ todo[p][1][1] = "spawn" /\ p \notin Thread /\ Len(todo[p]) = 1
      BY <1>2, <1>0, HeadOf DEF Spawn, At
    <2>2. CASE Gone(p)
      BY <2>1, <2>2, PlannedGone
    <2>3. CASE Then(p, << <<"run">> >>)
      <3>1. <<"run">> \in Steps /\ Fits(p, <<"run">>)
        BY <2>1, InSteps DEF Bare, Fits
      <3> QED BY <3>1, <2>1, <2>3, PlannedOne
    <2> QED BY <1>2, <2>2, <2>3 DEF Spawn
  <1>3. CASE Run(p)
    <2>1. todo[p] # <<>> /\ todo[p][1][1] = "run" /\ p \in Timer \ Thread /\ Len(todo[p]) = 1
      BY <1>3, <1>0, HeadOf DEF Run, At
    <2>2. PICK f : f = <<"finish", FALSE>>
      OBVIOUS
    <2>3. f \in Steps /\ Fits(p, f) /\ f[1] = "finish"
      BY <2>1, <2>2, InSteps DEF Fits
    <2>4. CASE token
      <3>1. Then(p, <<>> \o <<f>>)
        BY <1>3, <2>2, <2>4 DEF Run
      <3>2. <<>> \o <<f>> = <<f>>
        OBVIOUS
      <3>3. Then(p, <<f>>)
        BY <3>1, <3>2
      <3> QED BY <2>1, <2>3, <3>3, PlannedOne
    <2>5. CASE ~token
      <3>1. PICK x : x = IF p[1] = "refresh" THEN <<"deliver">> ELSE <<"look", p>>
        OBVIOUS
      <3>2. x \in Steps /\ Fits(p, x) /\ x[1] \in {"deliver", "look"}
        BY <2>1, <3>1, InSteps DEF Bare, Fits
      <3>3. Then(p, <<x>> \o <<f>>)
        BY <1>3, <2>2, <2>5, <3>1 DEF Run, Updating
      <3>4. <<x>> \o <<f>> = <<x, f>>
        BY <2>3, <3>2, Join
      <3>5. <<x, f>> \in Seq(Steps) /\ Len(<<x, f>>) = 2 /\ <<x, f>>[1] = x /\ <<x, f>>[2] = f
            /\ <<x, f>> # <<>>
        BY <2>3, <3>2
      <3>6. \A i \in 1 .. 2 : i = 1 \/ i = 2
        OBVIOUS
      <3>7. Follows(x, f)
        BY <2>3, <3>2 DEF Follows, Update_
      <3>8. Plan(p, <<x, f>>)
        <4>1. Linked(<<x, f>>) /\ Fitting(p, <<x, f>>)
          BY <3>2, <2>3, <3>5, <3>6, <3>7 DEF Linked, Fitting
        <4>2. Once(<<x, f>>) /\ Asking(<<x, f>>) /\ Going(<<x, f>>)
          BY <3>2, <2>3, <3>5, <3>6 DEF Once, Asking, Going, Reading
        <4> QED BY <4>1, <4>2 DEF Plan
      <3>9. Replaces(<<x, f>>, todo[p])
        BY <2>1, <2>3, <3>2, <3>5, <3>6 DEF Replaces, Reading
      <3>10. Then(p, <<x, f>>)
        BY <3>3, <3>4
      <3> QED BY <2>1, <3>5, <3>8, <3>9, <3>10, PlannedThen
    <2> QED BY <2>4, <2>5
  <1>4. CASE Deliver(p)
    BY <1>4, PlannedDone DEF Deliver, At
  <1>5. CASE Finish(p)
    <2>1. p \notin Thread
      BY <1>5, <1>0, HeadOf DEF Finish, At
    <2> QED BY <2>1, <1>5, PlannedGone DEF Finish
  <1> QED BY <1>1, <1>2, <1>3, <1>4, <1>5 DEF Tasking

(* An update that fails *)
Failed(s) == IF s[2][1] = "settle" THEN <<"rollback", s[2][2], s[2][3]>> ELSE s[2]
(* What a failed update leaves: what it does, then the settling that was   *)
(* behind it, turned into its failure.                                     *)
LEMMA FailingRest ==
    ASSUME Planned, NEW p \in DOMAIN todo, todo[p] # <<>>, todo[p][1][1] \in Update_, NEW new,
           Failing(p, new)
    PROVE  /\ Len(todo[p]) \in {1, 2}
           /\ todo' = [todo EXCEPT ![p] = new \o (IF Len(todo[p]) = 1 THEN <<>> ELSE <<Failed(todo[p])>>)]
           /\ Len(todo[p]) = 2 => /\ todo[p][2][1] \in {"settle", "finish"} /\ todo[p][2] \in Steps
                                  /\ Failed(todo[p]) \in Steps /\ Fits(p, Failed(todo[p]))
                                  /\ Failed(todo[p])[1] \in {"rollback", "finish"}
  <1>1. /\ todo[p] \in Seq(Steps) /\ Plan(p, todo[p]) /\ Len(todo[p]) \in {1, 2}
        /\ Len(todo[p]) > 1 => /\ todo[p][2][1] \in {"settle", "finish"} /\ todo[p][2] \in Steps
                               /\ Fits(p, todo[p][2])
    <2>1. todo[p] \in Seq(Steps) /\ Plan(p, todo[p])
      BY HeadOf
    <2>3. Len(todo[p]) \in Nat /\ Len(todo[p]) >= 1 /\ Len(todo[p]) <= 2
      BY <2>1, Ends
    <2>7. \A n \in Nat : n >= 1 /\ n <= 2 => n \in {1, 2}
      OBVIOUS
    <2>6. Len(todo[p]) \in {1, 2}
      BY <2>3, <2>7
    <2>4. Len(todo[p]) > 1 => /\ Follows(todo[p][1], todo[p][2]) /\ todo[p][2] \in Steps
                              /\ Fits(p, todo[p][2])
      BY <2>1, Ends
    <2>5. Len(todo[p]) > 1 => todo[p][2][1] \in {"settle", "finish"}
      BY <2>4 DEF Follows, Update_
    <2> QED BY <2>1, <2>4, <2>5, <2>6
  <1>2. PICK rest : rest = [i \in 1 .. Len(todo[p]) - 1 |->
                    IF todo[p][i + 1][1] = "settle"
                      THEN <<"rollback", todo[p][i + 1][2], todo[p][i + 1][3]>> ELSE todo[p][i + 1]]
    OBVIOUS
  <1>3. todo' = [todo EXCEPT ![p] = new \o rest]
    BY <1>2 DEF Failing
  <1>4. PICK y : y = Failed(todo[p])
    OBVIOUS
  <1>5. Len(todo[p]) > 1 => y \in Steps /\ Fits(p, y) /\ y[1] \in {"rollback", "finish"}
    <2> SUFFICES ASSUME Len(todo[p]) > 1
                 PROVE  y \in Steps /\ Fits(p, y) /\ y[1] \in {"rollback", "finish"}
      OBVIOUS
    <2>1. CASE todo[p][2][1] = "settle"
      <3>1. todo[p][2][2] \in Nat /\ todo[p][2][3] \in Nat \cup {Nil}
        BY <2>1, <1>1, StepKinds DEF Applied
      <3> QED BY <3>1, <2>1, <1>1, <1>4, InSteps DEF Applied, Fits, Failed
    <2>2. CASE todo[p][2][1] # "settle"
      BY <2>2, <1>1, <1>4 DEF Failed
    <2> QED BY <2>1, <2>2
  <1>6. rest = IF Len(todo[p]) = 1 THEN <<>> ELSE <<y>>
    <2>1. CASE Len(todo[p]) = 1
      BY <2>1, <1>2
    <2>2. CASE Len(todo[p]) = 2
      BY <2>2, <1>2, <1>4 DEF Failed
    <2> QED BY <2>1, <2>2, <1>1
  <1> QED BY <1>1, <1>3, <1>4, <1>5, <1>6

(* The lists stay legal when an update fails.                              *)
LEMMA PlannedFailing ==
    ASSUME Planned, NEW p \in DOMAIN todo, todo[p] # <<>>, NEW new \in Seq(Steps),
           \/ todo[p][1][1] = "look" /\ new = <<>>
           \/ todo[p][1][1] = "build" /\ new = << <<"restore">> >>,
           Failing(p, new)
    PROVE  Planned'
  <1>0. PICK y, rest : y = Failed(todo[p]) /\ rest = IF Len(todo[p]) = 1 THEN <<>> ELSE <<y>>
    OBVIOUS
  <1>1. /\ Len(todo[p]) \in {1, 2} /\ todo' = [todo EXCEPT ![p] = new \o rest]
        /\ Len(todo[p]) = 2 => y \in Steps /\ Fits(p, y) /\ y[1] \in {"rollback", "finish"}
    BY <1>0, FailingRest DEF Update_
  <1>6. rest = IF Len(todo[p]) = 1 THEN <<>> ELSE <<y>>
    BY <1>0
  <1>7. PICK r : r = <<"restore">>
    OBVIOUS
  <1>8. r \in Steps /\ Fits(p, r) /\ r[1] = "restore"
    BY <1>7, InSteps DEF Bare, Fits
  <1>9. new \o rest \in Seq(Steps) /\ Plan(p, new \o rest)
    <2>1. CASE Len(todo[p]) = 1 /\ new = <<>>
      <3>1. new \o rest = <<>>
        BY <2>1, <1>6
      <3> QED BY <3>1, NoPlan
    <2>2. CASE Len(todo[p]) = 1 /\ new # <<>>
      <3>1. new \o rest = <<r>>
        BY <2>2, <1>6, <1>7
      <3> QED BY <3>1, <1>8, OnePlan
    <2>3. CASE Len(todo[p]) = 2 /\ new = <<>>
      <3>1. new \o rest = <<y>>
        BY <2>3, <1>6
      <3>2. y \in Steps /\ Fits(p, y) /\ y[1] \notin {"apply", "push", "cancel"}
        BY <2>3, <1>1
      <3> QED BY <3>1, <3>2, OnePlan
    <2>4. CASE Len(todo[p]) = 2 /\ new # <<>>
      <3>2. y \in Steps /\ Fits(p, y) /\ y[1] \in {"rollback", "finish"}
        BY <2>4, <1>1
      <3>8. new = <<r>> /\ rest = <<y>>
        BY <2>4, <1>6, <1>7
      <3>1. new \o rest = <<r, y>>
        BY <3>8, <3>2, <1>8, Join
      <3>3. <<r, y>> \in Seq(Steps) /\ Len(<<r, y>>) = 2 /\ <<r, y>>[1] = r /\ <<r, y>>[2] = y
        BY <3>2, <1>8
      <3>4. \A i \in 1 .. 2 : i = 1 \/ i = 2
        OBVIOUS
      <3>5. Follows(r, y)
        BY <3>2, <1>8 DEF Follows
      <3>6. Linked(<<r, y>>) /\ Fitting(p, <<r, y>>)
        BY <3>2, <3>3, <3>4, <3>5, <1>8 DEF Linked, Fitting
      <3>7. Once(<<r, y>>) /\ Asking(<<r, y>>) /\ Going(<<r, y>>)
        BY <3>2, <3>3, <3>4, <1>8 DEF Once, Asking, Going, Reading
      <3> QED BY <3>1, <3>3, <3>6, <3>7 DEF Plan
    <2> QED BY <2>1, <2>2, <2>3, <2>4, <1>1
  <1> QED BY <1>1, <1>9, PlannedNew

(* The steps of an update *)
LEMMA UpdatingPlanned ==
    ASSUME Planned, NEW p \in DOMAIN todo, UpdatingStep(p)
    PROVE  Planned'
  <1>0. ASSUME todo[p] # <<>>, todo[p][1][1] \in Update_, NEW x, x[1] \in Update_
        PROVE  Len(todo[p]) > 1 => Follows(x, todo[p][2])
    <2>1. Len(todo[p]) > 1 => Follows(todo[p][1], todo[p][2])
      BY <1>0, HeadOf
    <2> QED BY <2>1, <1>0 DEF Follows, Update_
  <1>1. CASE Look(p)
    <2>1. todo[p] # <<>> /\ todo[p][1][1] = "look"
      BY <1>1, HeadOf DEF Look, At
    <2>2. /\ Head(todo[p]) = todo[p][1] /\ todo[p][1][2] \in Timer \cup {Nil}
          /\ todo[p][1][2] = IF p \in Thread THEN Nil ELSE p
      BY <2>1, HeadOf, StepKinds DEF Fits
    <2>3. CASE Failing(p, <<>>)
      BY <2>1, <2>3, NoPlan, PlannedFailing
    <2>4. CASE Then(p, <<>>)
      BY <2>1, <2>4, PlannedDone
    <2>5. CASE Then(p, Begin(todo[p][1][2]))
      <3>1. PICK x, y : x = <<"cancel", "update">> /\ y = <<"take", todo[p][1][2]>>
        OBVIOUS
      <3>2. x \in Steps /\ y \in Steps /\ Fits(p, x) /\ Fits(p, y)
        BY <3>1, <2>2, InSteps DEF Timed, Kind, Fits
      <3>3. <<x, y>> \in Seq(Steps) /\ Len(<<x, y>>) = 2 /\ <<x, y>>[1] = x /\ <<x, y>>[2] = y
            /\ <<x, y>> # <<>>
        BY <3>2
      <3>4. \A i \in 1 .. 2 : i = 1 \/ i = 2
        OBVIOUS
      <3>5. x[1] = "cancel" /\ x[2] = "update" /\ y[1] = "take" /\ Follows(x, y)
        BY <3>1 DEF Follows
      <3>6. Linked(<<x, y>>) /\ Fitting(p, <<x, y>>)
        BY <3>2, <3>3, <3>4, <3>5 DEF Linked, Fitting
      <3>7. Once(<<x, y>>) /\ Asking(<<x, y>>) /\ Going(<<x, y>>)
        BY <3>3, <3>4, <3>5 DEF Once, Asking, Going, Reading
      <3>8. Len(todo[p]) > 1 => Follows(y, todo[p][2])
        BY <2>1, <3>5, <1>0 DEF Update_
      <3>9. Replaces(<<x, y>>, todo[p])
        BY <2>1, <3>3, <3>4, <3>5, <3>8 DEF Replaces, Reading
      <3>10. Plan(p, <<x, y>>) /\ Then(p, <<x, y>>)
        BY <2>5, <3>1, <3>6, <3>7 DEF Plan, Begin
      <3> QED BY <2>1, <3>3, <3>9, <3>10, PlannedThen
    <2> QED BY <1>1, <2>2, <2>3, <2>4, <2>5 DEF Look, Arg
  <1>2. ASSUME NEW need \in BOOLEAN, Take(p, need)
        PROVE  Planned'
    <2>1. todo[p] # <<>> /\ todo[p][1][1] = "take"
      BY <1>2, HeadOf DEF Take, At
    <2>2. CASE Then(p, <<>>)
      BY <2>1, <2>2, PlannedDone
    <2>3. CASE Then(p, << <<"build">> >>)
      <3>1. <<"build">> \in Steps /\ Fits(p, <<"build">>)
        BY InSteps DEF Bare, Fits
      <3>2. Len(todo[p]) > 1 => Follows(<<"build">>, todo[p][2])
        BY <2>1, <1>0 DEF Update_
      <3> QED BY <3>1, <3>2, <2>1, <2>3, PlannedOne
    <2> QED BY <1>2, <2>2, <2>3 DEF Take
  <1>3. ASSUME NEW outcome \in {"ok", "error", "panic"}, Build(p, outcome)
        PROVE  Planned'
    <2>1. todo[p] # <<>> /\ todo[p][1][1] = "build"
      BY <1>3, HeadOf DEF Build, At
    <2>2. CASE outcome = "ok"
      <3>1. <<"publish">> \in Steps /\ Fits(p, <<"publish">>)
        BY InSteps DEF Bare, Fits
      <3>2. Len(todo[p]) > 1 => Follows(<<"publish">>, todo[p][2])
        BY <2>1, <1>0 DEF Update_
      <3>3. Then(p, << <<"publish">> >>)
        BY <1>3, <2>2 DEF Build
      <3> QED BY <3>1, <3>2, <3>3, <2>1, PlannedOne
    <2>3. CASE outcome = "error"
      <3>1. Failing(p, << <<"restore">> >>)
        BY <1>3, <2>3 DEF Build
      <3>2. <<"restore">> \in Steps /\ << <<"restore">> >> \in Seq(Steps)
        BY InSteps DEF Bare
      <3> QED BY <2>1, <3>1, <3>2, PlannedFailing
    <2>4. CASE outcome = "panic"
      <3>1. PICK x, y : x = <<"restore">> /\ y = <<"finish", TRUE>>
        OBVIOUS
      <3>2. x \in Steps /\ y \in Steps /\ Fits(p, x) /\ (p \notin Thread => Fits(p, y))
            /\ x[1] = "restore" /\ y[1] = "finish"
        BY <3>1, InSteps DEF Bare, Fits
      <3>3. todo' = [todo EXCEPT ![p] = <<x>> \o (IF Task(p) THEN <<y>> ELSE <<>>)]
        BY <1>3, <2>4, <3>1 DEF Build
      <3>4. CASE p \in Thread
        <4>1. todo' = [todo EXCEPT ![p] = <<x>> \o <<>>]
          BY <3>3, <3>4 DEF Task
        <4>2. <<x>> \o <<>> = <<x>>
          OBVIOUS
        <4>3. todo' = [todo EXCEPT ![p] = <<x>>]
          BY <4>1, <4>2
        <4> QED BY <4>3, <3>2, OnePlan, PlannedNew
      <3>5. CASE p \notin Thread
        <4>1. todo' = [todo EXCEPT ![p] = <<x>> \o <<y>>]
          BY <3>3, <3>5 DEF Task
        <4>2. <<x>> \o <<y>> = <<x, y>>
          BY <3>2, Join
        <4>3. todo' = [todo EXCEPT ![p] = <<x, y>>]
          BY <4>1, <4>2
        <4>4. <<x, y>> \in Seq(Steps) /\ Len(<<x, y>>) = 2 /\ <<x, y>>[1] = x /\ <<x, y>>[2] = y
          BY <3>2
        <4>5. \A i \in 1 .. 2 : i = 1 \/ i = 2
          OBVIOUS
        <4>6. Follows(x, y)
          BY <3>2 DEF Follows
        <4>7. Linked(<<x, y>>) /\ Fitting(p, <<x, y>>)
          BY <3>2, <3>5, <4>4, <4>5, <4>6 DEF Linked, Fitting
        <4>8. Once(<<x, y>>) /\ Asking(<<x, y>>) /\ Going(<<x, y>>)
          BY <3>2, <4>4, <4>5 DEF Once, Asking, Going, Reading
        <4> QED BY <4>3, <4>4, <4>7, <4>8, PlannedNew DEF Plan
      <3> QED BY <3>4, <3>5
    <2> QED BY <2>2, <2>3, <2>4
  <1>4. CASE Publish(p)
    <2>1. todo[p] # <<>> /\ todo[p][1][1] = "publish"
      BY <1>4, HeadOf DEF Publish, At
    <2>2. <<"announce">> \in Steps /\ Fits(p, <<"announce">>)
      BY InSteps DEF Bare, Fits
    <2>3. Len(todo[p]) > 1 => Follows(<<"announce">>, todo[p][2])
      BY <2>1, <1>0 DEF Update_
    <2>4. Then(p, << <<"announce">> >>)
      BY <1>4 DEF Publish
    <2> QED BY <2>1, <2>2, <2>3, <2>4, PlannedOne
  <1>5. CASE Announce(p)
    BY <1>5, PlannedDone DEF Announce, At
  <1>6. CASE Restore(p)
    BY <1>6, PlannedDone DEF Restore, At
  <1> QED BY <1>1, <1>2, <1>3, <1>4, <1>5, <1>6 DEF UpdatingStep

(* Short plans *)
Modest(p, x) ==
    /\ x \in Steps /\ Fits(p, x) /\ x[1] \notin {"apply", "take"}
    /\ x[1] = "cancel" => x[2] # "update"
    /\ x[1] = "push" => x[2] # "close"

(* Two steps that need nothing else are a legal list.                      *)
LEMMA Plan2 ==
    ASSUME NEW p, NEW x, NEW y, Modest(p, x), Modest(p, y), Follows(x, y),
           ~(x[1] \in Reading /\ y[1] \in Reading)
    PROVE  <<x, y>> \in Seq(Steps) /\ Plan(p, <<x, y>>)
  <1>1. <<x, y>> \in Seq(Steps) /\ Len(<<x, y>>) = 2 /\ <<x, y>>[1] = x /\ <<x, y>>[2] = y
    BY DEF Modest
  <1>2. \A i \in 1 .. 2 : i = 1 \/ i = 2
    OBVIOUS
  <1>3. Linked(<<x, y>>) /\ Fitting(p, <<x, y>>)
    BY <1>1, <1>2 DEF Linked, Fitting, Modest
  <1>4. Once(<<x, y>>) /\ Asking(<<x, y>>) /\ Going(<<x, y>>)
    BY <1>1, <1>2 DEF Once, Asking, Going, Modest
  <1> QED BY <1>1, <1>3, <1>4 DEF Plan

(* What a list allows in front of it *)
LEMMA PlanLonger ==
    ASSUME NEW p, NEW x, NEW s \in Seq(Steps), s # <<>>, Modest(p, x), Plan(p, s), Follows(x, s[1]),
           x[1] \notin Reading, s[1][1] \notin {"apply", "take"}, s[1][1] # "cancel"
    PROVE  <<x>> \o s \in Seq(Steps) /\ Plan(p, <<x>> \o s)
  <1> PICK z, k : z = <<x>> \o s /\ k = Len(s)
    OBVIOUS
  <1>1. /\ z \in Seq(Steps) /\ k \in Nat /\ k >= 1 /\ Len(z) = k + 1 /\ z[1] = x
        /\ \A i \in 2 .. k + 1 : z[i] = s[i - 1]
        /\ \A i \in 1 .. k + 1 : i = 1 \/ (i \in 2 .. k + 1 /\ i - 1 \in 1 .. k)
    BY DEF Modest
  <1>2. Linked(z)
    <2> SUFFICES ASSUME NEW i \in 1 .. k + 1, i < k + 1
                 PROVE  Follows(z[i], z[i + 1])
      BY <1>1 DEF Linked
    <2>1. CASE i = 1
      BY <2>1, <1>1
    <2>2. CASE i # 1
      <3>1. PICK j : j = i - 1
        OBVIOUS
      <3>2. j \in 1 .. k /\ j < k /\ z[i] = s[j] /\ z[i + 1] = s[j + 1]
        BY <3>1, <2>2, <1>1
      <3> QED BY <3>2 DEF Plan, Linked
    <2> QED BY <2>1, <2>2
  <1>3. Fitting(p, z)
    BY <1>1 DEF Fitting, Plan, Modest
  <1>4. Once(z)
    <2> SUFFICES ASSUME NEW i \in 1 .. k + 1, NEW j \in 1 .. k + 1,
                        z[i][1] \in Reading, z[j][1] \in Reading
                 PROVE  i = j
      BY <1>1 DEF Once
    <2>1. i # 1 /\ j # 1
      BY <1>1
    <2>2. i - 1 \in 1 .. k /\ j - 1 \in 1 .. k /\ z[i] = s[i - 1] /\ z[j] = s[j - 1]
      BY <2>1, <1>1
    <2>3. i - 1 = j - 1
      BY <2>2 DEF Plan, Once
    <2> QED BY <2>3
  <1>5. Asking(z)
    <2> SUFFICES ASSUME NEW i \in 1 .. Len(z), z[i][1] = "push", z[i][2] = "close"
                 PROVE  \E j \in 1 .. Len(z) : j > i /\ z[j][1] = "schedule" /\ z[j][2] = "update"
      BY Zenon DEF Asking
    <2>1. i # 1
      BY <1>1 DEF Reading
    <2>2. i - 1 \in 1 .. k /\ z[i] = s[i - 1]
      BY <2>1, <1>1
    <2>3. PICK j \in 1 .. k : j > i - 1 /\ s[j][1] = "schedule" /\ s[j][2] = "update"
      BY <2>2 DEF Plan, Asking
    <2>4. j + 1 \in 1 .. Len(z) /\ j + 1 > i /\ z[j + 1] = s[j]
      BY <2>3, <1>1
    <2> QED BY <2>3, <2>4
  <1>6. Going(z)
    <2> SUFFICES ASSUME NEW i \in 1 .. k + 1
                 PROVE  /\ z[i][1] = "cancel" /\ z[i][2] = "update" => i < k + 1
                        /\ z[i][1] # "take" /\ z[i][1] # "apply"
      BY <1>1 DEF Going
    <2>1. CASE i = 1
      BY <2>1, <1>1 DEF Modest
    <2>2. CASE i # 1
      <3>1. PICK j : j = i - 1
        OBVIOUS
      <3>2. j \in 1 .. k /\ z[i] = s[j] /\ i = j + 1
        BY <3>1, <2>2, <1>1
      <3>3. s[j][1] = "cancel" /\ s[j][2] = "update" => j < k
        BY <3>2 DEF Plan, Going
      <3>4. s[j][1] # "take" /\ s[j][1] # "apply"
        BY <3>2 DEF Plan, Going
      <3> QED BY <3>2, <3>3, <3>4, <1>1
    <2> QED BY <2>1, <2>2
  <1> QED BY <1>1, <1>2, <1>3, <1>4, <1>5, <1>6 DEF Plan

(* What enqueue goes on with *)
Noting(c, f, op) ==
    (IF c # "change" THEN <<>> ELSE << <<op, "refresh">> >>)
      \o << <<"push", c, f>>, <<"schedule", "idle">> >>
      \o (IF c = "close" THEN << <<"schedule", "update">> >> ELSE <<>>)

Noted(p, n) ==
    /\ n \in Seq(Steps) /\ Plan(p, n) /\ n # <<>> /\ n[Len(n)][1] = "schedule"
    /\ \A i \in 1 .. Len(n) : n[i][1] \in {"schedule", "cancel", "push"}
    /\ n[1][1] = "cancel" => Len(n) > 1 /\ n[2][1] = "push"

(* The steps an edit of a document adds.                                   *)
LEMMA NotingPlan ==
    ASSUME NEW p, NEW c \in Edits, NEW f \in File, NEW op \in {"schedule", "cancel"}
    PROVE  Noted(p, Noting(c, f, op))
  <1> PICK x, y, u, v : /\ x = <<op, "refresh">> /\ y = <<"push", c, f>>
                        /\ u = <<"schedule", "idle">> /\ v = <<"schedule", "update">>
    OBVIOUS
  <1>0. /\ x[1] = op /\ x[2] = "refresh" /\ y[1] = "push" /\ y[2] = c
        /\ u[1] = "schedule" /\ v[1] = "schedule" /\ v[2] = "update" /\ u[2] = "idle"
    OBVIOUS
  <1>1. x \in Steps /\ y \in Steps /\ u \in Steps /\ v \in Steps
    BY InSteps DEF Timed, Kind
  <1>2. Fits(p, x) /\ Fits(p, y) /\ Fits(p, u) /\ Fits(p, v)
    BY <1>0 DEF Fits
  <1>3. Follows(x, y) /\ Follows(y, u) /\ Follows(u, v)
    BY <1>0 DEF Follows
  <1>4. /\ <<y, u>> \in Seq(Steps) /\ <<y, u>> # <<>> /\ Len(<<y, u>>) = 2
        /\ <<y, u>>[1] = y /\ <<y, u>>[2] = u
    BY <1>1
  <1>5. \A i \in 1 .. 2 : i = 1 \/ i = 2
    OBVIOUS
  <1>6. c # "close" => Plan(p, <<y, u>>)
    BY <1>0, <1>1, <1>2, <1>3, Plan2 DEF Modest, Reading
  <1>7. CASE c = "open"
    <2>1. Noting(c, f, op) = (<<>> \o <<y, u>>) \o <<>>
      BY <1>7 DEF Noting
    <2>2. Noting(c, f, op) = <<y, u>>
      BY <2>1, <1>4, ConcatEmptySeq
    <2> QED BY <2>2, <1>0, <1>4, <1>5, <1>6, <1>7 DEF Noted
  <1>8. CASE c = "change"
    <2>1. Noting(c, f, op) = (<<x>> \o <<y, u>>) \o <<>>
      BY <1>8 DEF Noting
    <2>2. PICK z : z = <<x>> \o <<y, u>>
      OBVIOUS
    <2>3. z \in Seq(Steps) /\ Plan(p, z)
      BY <2>2, <1>0, <1>1, <1>2, <1>3, <1>4, <1>6, <1>8, PlanLonger DEF Modest, Reading
    <2>4. Noting(c, f, op) = z
      BY <2>1, <2>2, <2>3, ConcatEmptySeq
    <2>5. z # <<>> /\ Len(z) = 3 /\ z[1] = x /\ z[2] = y /\ z[3] = u
      BY <2>2, <1>1
    <2>6. \A i \in 1 .. 3 : i = 1 \/ i = 2 \/ i = 3
      OBVIOUS
    <2> QED BY <2>3, <2>4, <2>5, <2>6, <1>0 DEF Noted
  <1>9. CASE c = "close"
    <2>1. Noting(c, f, op) = (<<>> \o <<y, u>>) \o <<v>>
      BY <1>9 DEF Noting
    <2>2. PICK z : z = <<y, u>> \o <<v>>
      OBVIOUS
    <2>3. Noting(c, f, op) = z
      BY <2>1, <2>2, <1>4, ConcatEmptySeq
    <2>4. z \in Seq(Steps) /\ z # <<>> /\ Len(z) = 3 /\ z[1] = y /\ z[2] = u /\ z[3] = v
      BY <2>2, <1>1
    <2>5. \A i \in 1 .. 3 : i = 1 \/ i = 2 \/ i = 3
      OBVIOUS
    <2>9. Linked(z)
      <3> SUFFICES ASSUME NEW i \in 1 .. 3, i < 3
                   PROVE  Follows(z[i], z[i + 1])
        BY <2>4 DEF Linked
      <3>1. (i = 1 /\ i + 1 = 2) \/ (i = 2 /\ i + 1 = 3)
        OBVIOUS
      <3> QED BY <3>1, <2>4, <1>3
    <2>6. Fitting(p, z)
      BY <2>4, <2>5, <1>2 DEF Fitting
    <2>7. Once(z) /\ Going(z)
      BY <2>4, <2>5, <1>0 DEF Once, Going, Reading
    <2>8. Asking(z)
      <3>1. 3 \in 1 .. Len(z) /\ z[3][1] = "schedule" /\ z[3][2] = "update"
        BY <2>4, <1>0
      <3>2. ASSUME NEW i \in 1 .. Len(z), z[i][1] = "push"
            PROVE  3 > i
        BY <3>2, <2>4, <2>5, <1>0
      <3> QED BY <3>1, <3>2 DEF Asking
    <2> QED BY <2>3, <2>4, <2>5, <2>6, <2>7, <2>8, <2>9, <1>0 DEF Plan, Noted
  <1> QED BY <1>7, <1>8, <1>9 DEF Edits

(* What did_change_watched_files goes on with *)
Watching(relevant, config) ==
    (IF relevant THEN << <<"schedule", "refresh">> >> ELSE <<>>)
      \o (IF config THEN << <<"schedule", "update">> >> ELSE <<>>)
      \o << <<"schedule", "idle">>, <<"unread">> >>

(* The steps that watched files add.                                       *)
LEMMA WatchingPlan ==
    ASSUME NEW p, NEW relevant \in BOOLEAN, NEW config \in BOOLEAN
    PROVE  /\ Watching(relevant, config) \in Seq(Steps) /\ Plan(p, Watching(relevant, config))
           /\ Watching(relevant, config) # <<>>
           /\ \A i \in 1 .. Len(Watching(relevant, config)) :
                 Watching(relevant, config)[i][1] \in {"schedule", "unread"}
           /\ Watching(relevant, config)[1][1] = "schedule"
           /\ config => \E i \in 1 .. Len(Watching(relevant, config)) :
                 Watching(relevant, config)[i] = <<"schedule", "update">>
  <1> PICK x, y, u, v : /\ x = <<"schedule", "refresh">> /\ y = <<"schedule", "update">>
                        /\ u = <<"schedule", "idle">> /\ v = <<"unread">>
    OBVIOUS
  <1>0. x[1] = "schedule" /\ y[1] = "schedule" /\ u[1] = "schedule" /\ v[1] = "unread"
    OBVIOUS
  <1>1. Modest(p, x) /\ Modest(p, y) /\ Modest(p, u) /\ Modest(p, v)
    <2>1. x \in Steps /\ y \in Steps /\ u \in Steps /\ v \in Steps
      BY InSteps DEF Timed, Kind, Bare
    <2>2. Fits(p, x) /\ Fits(p, y) /\ Fits(p, u) /\ Fits(p, v)
      BY <1>0 DEF Fits
    <2> QED BY <2>1, <2>2, <1>0 DEF Modest
  <1>2. Follows(x, y) /\ Follows(x, u) /\ Follows(y, u) /\ Follows(u, v)
    BY <1>0 DEF Follows
  <1>3. /\ <<u, v>> \in Seq(Steps) /\ <<u, v>> # <<>> /\ Len(<<u, v>>) = 2
        /\ <<u, v>>[1] = u /\ <<u, v>>[2] = v
    BY <1>1 DEF Modest
  <1>4. Plan(p, <<u, v>>)
    BY <1>0, <1>1, <1>2, Plan2 DEF Reading
  <1>5. \A i \in 1 .. 2 : i = 1 \/ i = 2
    OBVIOUS
  <1>6. PICK s : s = (IF config THEN <<y>> ELSE <<>>) \o <<u, v>>
    OBVIOUS
  <1>7. /\ s \in Seq(Steps) /\ Plan(p, s) /\ s # <<>>
        /\ \A i \in 1 .. Len(s) : s[i][1] \in {"schedule", "unread"}
        /\ s[1] \in {y, u} /\ (config => s[1] = y)
    <2>1. CASE config
      <3>1. s = <<y>> \o <<u, v>>
        BY <2>1, <1>6
      <3>2. s \in Seq(Steps) /\ Plan(p, s)
        BY <3>1, <1>0, <1>1, <1>2, <1>3, <1>4, PlanLonger DEF Reading
      <3>3. s # <<>> /\ Len(s) = 3 /\ s[1] = y /\ s[2] = u /\ s[3] = v
        BY <3>1, <1>1 DEF Modest
      <3>4. \A i \in 1 .. 3 : i = 1 \/ i = 2 \/ i = 3
        OBVIOUS
      <3> QED BY <3>2, <3>3, <3>4, <1>0
    <2>2. CASE ~config
      <3>1. s = <<u, v>>
        BY <2>2, <1>3, <1>6, ConcatEmptySeq
      <3> QED BY <3>1, <2>2, <1>0, <1>3, <1>4, <1>5
    <2> QED BY <2>1, <2>2
  <1>8. Watching(relevant, config) = (IF relevant THEN <<x>> ELSE <<>>) \o s
    <2>1. PICK a, b : a = (IF relevant THEN <<x>> ELSE <<>>) /\ b = (IF config THEN <<y>> ELSE <<>>)
      OBVIOUS
    <2>2. a \in Seq(Steps) /\ b \in Seq(Steps)
      BY <2>1, <1>1 DEF Modest
    <2>3. Watching(relevant, config) = (a \o b) \o <<u, v>> /\ s = b \o <<u, v>>
      BY <2>1, <1>6 DEF Watching
    <2>4. (a \o b) \o <<u, v>> = a \o (b \o <<u, v>>)
      BY <2>2, <1>3, ConcatAssociative
    <2> QED BY <2>1, <2>3, <2>4
  <1>9. CASE relevant
    <2>1. PICK z : z = <<x>> \o s
      OBVIOUS
    <2>2. Watching(relevant, config) = z
      BY <1>8, <1>9, <2>1
    <2>3. z \in Seq(Steps) /\ Plan(p, z)
      BY <2>1, <1>0, <1>1, <1>2, <1>7, PlanLonger DEF Reading
    <2>4. /\ z # <<>> /\ z[1] = x /\ Len(z) = Len(s) + 1 /\ Len(s) \in Nat /\ Len(s) >= 1
          /\ z[2] = s[1] /\ \A i \in 1 .. Len(z) : i = 1 \/ (i - 1 \in 1 .. Len(s) /\ z[i] = s[i - 1])
      BY <2>1, <1>1, <1>7 DEF Modest
    <2>5. \A i \in 1 .. Len(z) : z[i][1] \in {"schedule", "unread"}
      BY <2>4, <1>7, <1>0
    <2>6. \A i \in 1 .. Len(s) : i + 1 \in 1 .. Len(z) /\ z[i + 1] = s[i]
      <3>1. ASSUME NEW i \in 1 .. Len(s) PROVE i + 1 \in 1 .. Len(z) /\ z[i + 1] = s[i]
        <4>1. PICK j : j = i + 1
          OBVIOUS
        <4>2. j \in 1 .. Len(z) /\ j # 1 /\ j - 1 = i
          BY <4>1, <2>4
        <4> QED BY <4>1, <4>2, <2>4
      <3> QED BY <3>1
    <2>7. config => \E i \in 1 .. Len(z) : z[i] = y
      <3>1. config => \E i \in 1 .. Len(s) : s[i] = y
        BY <1>7
      <3> QED BY <3>1, <2>6
    <2>8. z[1][1] = "schedule"
      BY <2>4, <1>0
    <2> QED BY <2>2, <2>3, <2>4, <2>5, <2>7, <2>8
  <1>10. CASE ~relevant
    <2>1. Watching(relevant, config) = s
      BY <1>7, <1>8, <1>10, ConcatEmptySeq
    <2>2. 1 \in 1 .. Len(s)
      BY <1>7
    <2> QED BY <2>1, <2>2, <1>0, <1>7
  <1> QED BY <1>9, <1>10

(* The notifications' steps *)
LEMMA NotifyingPlanned ==
    ASSUME Planned, TypeOK, NEW p \in DOMAIN todo, Notifying(p)
    PROVE  Planned'
  <1>1. ASSUME NEW mapped \in BOOLEAN, Enqueue(p, mapped)
        PROVE  Planned'
    <2>1. todo[p] # <<>> /\ todo[p][1][1] = "enqueue" /\ Head(todo[p]) = todo[p][1]
      BY <1>1, HeadOf DEF Enqueue, At
    <2>2. PICK c, f, op : /\ c = todo[p][1][2] /\ f = todo[p][1][3]
                          /\ op = (IF mapped THEN "schedule" ELSE "cancel")
      OBVIOUS
    <2>3. c \in Edits /\ f \in File /\ op \in {"schedule", "cancel"}
      BY <2>1, <2>2, HeadOf, StepKinds
    <2>4. CASE Refused(p)
      BY <2>4, PlannedReturn DEF Refused
    <2>5. CASE Then(p, Noting(c, f, op))
      <3>1. PICK n : n = Noting(c, f, op)
        OBVIOUS
      <3>7. Noted(p, n)
        BY <3>1, <2>3, NotingPlan
      <3>2. /\ n \in Seq(Steps) /\ Plan(p, n) /\ n # <<>> /\ n[Len(n)][1] = "schedule"
            /\ \A i \in 1 .. Len(n) : n[i][1] \in {"schedule", "cancel", "push"}
        BY <3>7 DEF Noted
      <3>3. todo[p] \in Seq(Steps) /\ Plan(p, todo[p])
        BY <2>1, HeadOf
      <3>4. \A i \in 2 .. Len(todo[p]) : todo[p][i][1] \notin Reading
        BY <2>1, <3>3, Ends
      <3>5. Len(todo[p]) > 1 => Follows(n[Len(n)], todo[p][2])
        <4>1. Len(todo[p]) > 1 => Follows(todo[p][1], todo[p][2])
          BY <2>1, HeadOf
        <4> QED BY <4>1, <3>2, <2>1 DEF Follows, Update_
      <3>6. Replaces(n, todo[p])
        BY <3>2, <3>4, <3>5, <2>1 DEF Replaces
      <3> QED BY <3>1, <3>2, <3>6, <2>1, <2>5, PlannedThen
    <2> QED BY <1>1, <2>1, <2>2, <2>4, <2>5 DEF Enqueue, Arg, Noting
  <1>2. ASSUME NEW relevant \in BOOLEAN, NEW config \in BOOLEAN, Watched(p, relevant, config)
        PROVE  Planned'
    <2>1. todo[p] # <<>> /\ todo[p][1][1] = "watched"
      BY <1>2, HeadOf DEF Watched, At
    <2>4. CASE Refused(p)
      BY <2>4, PlannedReturn DEF Refused
    <2>5. CASE Then(p, Watching(relevant, config))
      <3>1. PICK n : n = Watching(relevant, config)
        OBVIOUS
      <3>2. /\ n \in Seq(Steps) /\ Plan(p, n) /\ n # <<>>
            /\ \A i \in 1 .. Len(n) : n[i][1] \in {"schedule", "unread"}
        BY <3>1, WatchingPlan
      <3>3. todo[p] \in Seq(Steps) /\ Plan(p, todo[p]) /\ Len(todo[p]) = 1
        BY <2>1, HeadOf, Ends
      <3>6. Replaces(n, todo[p])
        BY <3>2, <3>3, <2>1 DEF Replaces
      <3> QED BY <3>1, <3>2, <3>6, <2>1, <2>5, PlannedThen
    <2> QED BY <1>2, <2>4, <2>5 DEF Watched, Watching
  <1>3. CASE Push(p) \/ Unread(p) \/ Settle(p) \/ Rollback(p)
    BY <1>3, PlannedDone DEF Push, Unread, Settle, Rollback, At
  <1>4. CASE Apply(p)
    <2>1. todo[p] # <<>> /\ todo[p][1][1] = "apply" /\ todo[p] \in Seq(Steps) /\ Plan(p, todo[p])
      BY <1>4, HeadOf DEF Apply, At
    <2>2. CASE Refused(p)
      BY <2>2, PlannedReturn DEF Refused
    <2>3. CASE ~Refused(p)
      <3>1. PICK x : x = <<"settle", count.options + 1, pending.inferred>>
        OBVIOUS
      <3>2. x \in Steps /\ x[1] = "settle"
        <4>1. count.options + 1 \in Nat /\ pending.inferred \in Nat \cup {Nil}
          BY DEF TypeOK, Pending
        <4> QED BY <3>1, <4>1, InSteps DEF Applied
      <3>3. todo' = [todo EXCEPT ![p] = Tail(todo[p]) \o <<x>>]
        BY <1>4, <2>3, <3>1 DEF Apply
      <3>4. /\ Len(todo[p]) = 2 /\ Follows(todo[p][1], todo[p][2]) /\ todo[p][2] \in Steps
            /\ Fits(p, todo[p][1]) /\ Fits(p, todo[p][2])
        BY <2>1, Ends
      <3>5. PICK y : y = todo[p][2]
        OBVIOUS
      <3>6. y[1] = "look" /\ y \in Steps /\ Fits(p, y) /\ p \in Thread /\ "apply" \in Does[p]
        BY <2>1, <3>4, <3>5 DEF Follows, Update_, Fits
      <3>7. Tail(todo[p]) = <<y>>
        BY <2>1, <3>4, <3>5, TailOfTwo
      <3>8. todo' = [todo EXCEPT ![p] = <<y, x>>]
        BY <3>2, <3>3, <3>6, <3>7, Join
      <3>9. Fits(p, x) /\ Follows(y, x)
        BY <3>2, <3>6 DEF Fits, Follows, Update_
      <3>10. Modest(p, x) /\ Modest(p, y)
        BY <3>2, <3>6, <3>9 DEF Modest
      <3> QED BY <3>2, <3>6, <3>8, <3>9, <3>10, Plan2, PlannedNew DEF Reading
    <2> QED BY <2>2, <2>3
  <1> QED BY <1>1, <1>2, <1>3, <1>4 DEF Notifying

(* A close *)
LEMMA ClosingPlan ==
    ASSUME NEW p
    PROVE  Closing \in Seq(Steps) /\ Plan(p, Closing) /\ Closing # <<>> /\ Closing[1][1] = "lock"
  <1> PICK z : z = Closing
    OBVIOUS
  <1>1. /\ Len(z) = 10 /\ z[1] = <<"lock">> /\ z[2] = <<"shut">> /\ z[3] = <<"clear">>
        /\ z[4] = <<"stop">> /\ z[5] = <<"cancel", "update">> /\ z[6] = <<"cancel", "idle">>
        /\ z[7] = <<"cancel", "refresh">> /\ z[8] = <<"unlock">> /\ z[9] = <<"wait">>
        /\ z[10] = <<"closed">> /\ z # <<>>
    BY DEF Closing
  <1>2. \A i \in 1 .. 10 : i = 1 \/ i = 2 \/ i = 3 \/ i = 4 \/ i = 5 \/ i = 6 \/ i = 7 \/ i = 8
                           \/ i = 9 \/ i = 10
    OBVIOUS
  <1>3. /\ <<"lock">> \in Steps /\ <<"shut">> \in Steps /\ <<"clear">> \in Steps /\ <<"stop">> \in Steps
        /\ <<"cancel", "update">> \in Steps /\ <<"cancel", "idle">> \in Steps
        /\ <<"cancel", "refresh">> \in Steps /\ <<"unlock">> \in Steps /\ <<"wait">> \in Steps
        /\ <<"closed">> \in Steps
    BY InSteps DEF Bare, Timed, Kind
  <1>4. z \in Seq(Steps)
    BY <1>3 DEF Closing
  <1>5. Linked(z)
    <2> SUFFICES ASSUME NEW i \in 1 .. 10, i < 10
                 PROVE  Follows(z[i], z[i + 1])
      BY <1>1 DEF Linked
    <2> QED BY <1>1, <1>2 DEF Follows
  <1>6. \A i \in 1 .. 10 : /\ z[i][1] \in {"lock", "shut", "clear", "stop", "cancel", "unlock", "wait", "closed"}
                           /\ z[i][1] = "cancel" => i < 10
    BY <1>1, <1>2
  <1>7. Fitting(p, z) /\ Once(z) /\ Asking(z) /\ Going(z)
    BY <1>1, <1>6 DEF Fitting, Fits, Once, Asking, Going, Reading
  <1> QED BY <1>1, <1>4, <1>5, <1>7 DEF Plan

(* What the calls begin with *)
Calls == {"open", "change", "close", "watch", "flush", "apply", "shut"}
(* The steps of every call of the session.                                 *)
LEMMA ProgramPlan ==
    ASSUME NEW p \in Thread, NEW op \in Calls, op \in Does[p], NEW f \in File
    PROVE  /\ Program(op, f) \in Seq(Steps) /\ Plan(p, Program(op, f)) /\ Program(op, f) # <<>>
           /\ Program(op, f)[1][1] \in {"enqueue", "watched", "look", "apply", "lock"}
           /\ \A i \in 1 .. Len(Program(op, f)) : Program(op, f)[i][1] \notin Reading \cup Applied
  <1> PICK l : l = <<"look", Nil>>
    OBVIOUS
  <1>1. l \in Steps /\ l[1] = "look" /\ Fits(p, l) /\ Updating(Nil) = <<l>>
    BY InSteps DEF Fits, Updating
  <1>2. ASSUME NEW x \in Steps, x[1] \in {"enqueue", "watched", "look"}, Fits(p, x), Program(op, f) = <<x>>
        PROVE  /\ Program(op, f) \in Seq(Steps) /\ Plan(p, Program(op, f)) /\ Program(op, f) # <<>>
               /\ Program(op, f)[1][1] \in {"enqueue", "watched", "look", "apply", "lock"}
               /\ \A i \in 1 .. Len(Program(op, f)) : Program(op, f)[i][1] \notin Reading \cup Applied
    <2>1. <<x>> \in Seq(Steps) /\ Len(<<x>>) = 1 /\ <<x>>[1] = x /\ <<x>> # <<>> /\ Plan(p, <<x>>)
      BY <1>2, OnePlan
    <2>2. \A i \in 1 .. 1 : i = 1
      OBVIOUS
    <2> QED BY <1>2, <2>1, <2>2 DEF Reading, Applied
  <1>3. ASSUME NEW x \in Steps, x[1] \in {"enqueue", "apply"}, Fits(p, x), Program(op, f) = <<x>> \o <<l>>
        PROVE  /\ Program(op, f) \in Seq(Steps) /\ Plan(p, Program(op, f)) /\ Program(op, f) # <<>>
               /\ Program(op, f)[1][1] \in {"enqueue", "watched", "look", "apply", "lock"}
               /\ \A i \in 1 .. Len(Program(op, f)) : Program(op, f)[i][1] \notin Reading \cup Applied
    <2>1. Program(op, f) = <<x, l>>
      BY <1>1, <1>3, Join
    <2>2. <<x, l>> \in Seq(Steps) /\ Len(<<x, l>>) = 2 /\ <<x, l>>[1] = x /\ <<x, l>>[2] = l
          /\ <<x, l>> # <<>>
      BY <1>1
    <2>3. \A i \in 1 .. 2 : i = 1 \/ i = 2
      OBVIOUS
    <2>4. Follows(x, l)
      BY <1>1, <1>3 DEF Follows
    <2>5. Linked(<<x, l>>) /\ Fitting(p, <<x, l>>)
      BY <1>1, <1>3, <2>2, <2>3, <2>4 DEF Linked, Fitting
    <2>6. Once(<<x, l>>) /\ Asking(<<x, l>>) /\ Going(<<x, l>>)
      BY <1>1, <1>3, <2>2, <2>3 DEF Once, Asking, Going, Reading
    <2> QED BY <1>1, <1>3, <2>1, <2>2, <2>3, <2>5, <2>6 DEF Plan, Reading, Applied
  <1>4. \A c \in Edits : <<"enqueue", c, f>> \in Steps /\ Fits(p, <<"enqueue", c, f>>)
    BY InSteps DEF Fits
  <1>5. CASE op = "open"
    <2>1. Program(op, f) = << <<"enqueue", "open", f>> >> \o <<l>>
      BY <1>1, <1>5 DEF Program
    <2> QED BY <2>1, <1>3, <1>4 DEF Edits
  <1>6. CASE op \in {"change", "close"}
    <2>1. Program(op, f) = << <<"enqueue", op, f>> >>
      BY <1>6 DEF Program
    <2> QED BY <2>1, <1>2, <1>4, <1>6 DEF Edits
  <1>7. CASE op = "watch"
    <2>1. Program(op, f) = << <<"watched", f>> >>
      BY <1>7 DEF Program
    <2>2. <<"watched", f>> \in Steps /\ Fits(p, <<"watched", f>>)
      BY InSteps DEF Fits
    <2> QED BY <2>1, <2>2, <1>2
  <1>8. CASE op = "flush"
    <2>1. Program(op, f) = <<l>>
      BY <1>1, <1>8 DEF Program
    <2> QED BY <2>1, <1>1, <1>2
  <1>9. CASE op = "apply"
    <2>1. Program(op, f) = << <<"apply">> >> \o <<l>>
      BY <1>1, <1>9 DEF Program
    <2>2. <<"apply">> \in Steps /\ Fits(p, <<"apply">>)
      BY <1>9, InSteps DEF Bare, Fits
    <2> QED BY <2>1, <2>2, <1>3
  <1>10. CASE op = "shut"
    <2>1. Program(op, f) = Closing
      BY <1>10 DEF Program
    <2>2. Closing \in Seq(Steps) /\ Plan(p, Closing) /\ Closing # <<>> /\ Closing[1][1] = "lock"
      BY ClosingPlan
    <2>3. \A i \in 1 .. Len(Closing) : Closing[i][1] \notin Reading \cup Applied
      BY DEF Closing, Reading, Applied
    <2> QED BY <2>1, <2>2, <2>3
  <1> QED BY <1>5, <1>6, <1>7, <1>8, <1>9, <1>10 DEF Calls

(* The other variables keep their types. *)
LEMMA PendingParts ==
    ASSUME TypeOK
    PROVE  /\ pending.changes \in Seq(Change) /\ pending.inferred \in Nat \cup {Nil}
           /\ pending = [changes |-> pending.changes, inferred |-> pending.inferred]
           /\ taken # Nil => taken \in Pending /\ taken.changes \in Seq(Change) /\ taken.inferred \in Nat \cup {Nil}
           /\ snapshot # Nil => snapshot \in Snapshot /\ snapshot.changes \in Seq(Nat) /\ snapshot.inferred \in Nat
           /\ Empty \in Pending /\ Empty.changes = <<>> /\ Empty.inferred = Nil
  BY DEF TypeOK, Pending, Snapshot, Empty

(* Types are kept by the steps of the notifications.                       *)
LEMMA NotifyingTypes ==
    ASSUME Planned, TypeOK, NEW p \in DOMAIN todo, Notifying(p)
    PROVE  TypeOK'
  <1>1. ASSUME NEW c \in {"open", "change", "close", "watch"}, NEW f \in File, NEW asks \in BOOLEAN, Admit(c, f, asks)
        PROVE  /\ pending' \in Pending /\ count' \in [calls : Nat, fires : Nat, changes : Nat, options : Nat]
    <2>1. PICK x : x = [n |-> count.changes + 1, kind |-> c, file |-> f, asks |-> asks]
      OBVIOUS
    <2>2. x \in Change /\ count' \in [calls : Nat, fires : Nat, changes : Nat, options : Nat]
      BY <1>1, <2>1 DEF Change, TypeOK, Admit
    <2>3. Append(pending.changes, x) \in Seq(Change)
      BY <2>2, PendingParts
    <2>4. pending' = [pending EXCEPT !.changes = Append(pending.changes, x)]
      BY <1>1, <2>1 DEF Admit
    <2> QED BY <2>2, <2>3, <2>4 DEF Pending, TypeOK
  <1>2. ASSUME NEW mapped \in BOOLEAN, Enqueue(p, mapped)
        PROVE  TypeOK'
    BY <1>2 DEF Enqueue, Refused, TypeOK, work, timers, history
  <1>3. ASSUME NEW relevant \in BOOLEAN, NEW config \in BOOLEAN, Watched(p, relevant, config)
        PROVE  TypeOK'
    <2>1. todo[p] # <<>> /\ Head(todo[p]) = todo[p][1] /\ todo[p][1][1] = "watched" /\ todo[p][1] \in Steps
      BY <1>3, HeadOf DEF Watched, At
    <2>2. todo[p][1][2] \in File
      BY <2>1, StepKinds
    <2>3. CASE Refused(p)
      BY <2>3 DEF Refused, TypeOK, work, timers, history
    <2>4. CASE ~Refused(p)
      <3>0. Admit("watch", todo[p][1][2], config)
        BY <1>3, <2>1, <2>4 DEF Watched, Arg
      <3>1. pending' \in Pending /\ count' \in [calls : Nat, fires : Nat, changes : Nat, options : Nat]
        BY <2>2, <3>0, <1>1
      <3>2. UNCHANGED <<snapshot, update, taken, timers, queue, history>>
        BY <1>3, <2>4 DEF Watched
      <3> QED BY <3>1, <3>2 DEF TypeOK, timers, history
    <2> QED BY <2>3, <2>4
  <1>4. CASE Push(p)
    <2>1. todo[p] # <<>> /\ Head(todo[p]) = todo[p][1] /\ todo[p][1][1] = "push" /\ todo[p][1] \in Steps
      BY <1>4, HeadOf DEF Push, At
    <2>2. todo[p][1][2] \in Edits /\ todo[p][1][3] \in File
      BY <2>1, StepKinds
    <2>3. Admit(todo[p][1][2], todo[p][1][3], todo[p][1][2] = "close")
      BY <1>4, <2>1 DEF Push, Arg
    <2>4. pending' \in Pending /\ count' \in [calls : Nat, fires : Nat, changes : Nat, options : Nat]
      BY <2>2, <2>3, <1>1 DEF Edits
    <2> QED BY <1>4, <2>4 DEF Push, TypeOK, timers, history
  <1>5. CASE Unread(p)
    BY <1>5 DEF Unread, TypeOK, work, timers, history
  <1>6. CASE Apply(p)
    <2>1. CASE Refused(p)
      BY <2>1 DEF Refused, TypeOK, work, timers, history
    <2>2. CASE ~Refused(p)
      <3>1. /\ count' = [count EXCEPT !.options = count.options + 1]
            /\ pending' = [pending EXCEPT !.inferred = count.options + 1]
            /\ UNCHANGED <<snapshot, readers, update, taken, timers, queue, history>>
        BY <1>6, <2>2 DEF Apply
      <3>2. pending' \in Pending
        BY <3>1 DEF TypeOK, Pending
      <3>3. count' \in [calls : Nat, fires : Nat, changes : Nat, options : Nat]
        BY <3>1 DEF TypeOK
      <3> QED BY <3>1, <3>2, <3>3 DEF TypeOK, timers, history
    <2> QED BY <2>1, <2>2
  <1>7. CASE Settle(p)
    <2>1. todo[p] # <<>> /\ Head(todo[p]) = todo[p][1] /\ todo[p][1][1] = "settle" /\ todo[p][1] \in Steps
      BY <1>7, HeadOf DEF Settle, At
    <2>2. todo[p][1][2] \in Nat
      BY <2>1, StepKinds DEF Applied
    <2> QED BY <1>7, <2>1, <2>2 DEF Settle, Arg, TypeOK, work, timers
  <1>8. CASE Rollback(p)
    <2>1. todo[p] # <<>> /\ Head(todo[p]) = todo[p][1] /\ todo[p][1][1] = "rollback" /\ todo[p][1] \in Steps
      BY <1>8, HeadOf DEF Rollback, At
    <2>2. todo[p][1][3] \in Nat \cup {Nil}
      BY <2>1, StepKinds DEF Applied
    <2>3. pending' \in Pending
      BY <1>8, <2>1, <2>2 DEF Rollback, Arg, TypeOK, Pending
    <2> QED BY <1>8, <2>3 DEF Rollback, TypeOK, timers, history
  <1> QED BY <1>2, <1>3, <1>4, <1>5, <1>6, <1>7, <1>8 DEF Notifying

(* Types are kept by the steps of the timers.                              *)
LEMMA TimingTypes ==
    ASSUME Planned, TypeOK, NEW p \in DOMAIN todo, Timing(p)
    PROVE  TypeOK'
  <1>1. ASSUME NEW k \in Kind, NEW d \in Nat \cup {Nil}, NEW t \in SUBSET Timer, Renew(k, d, t)
        PROVE  slot' \in [Kind -> Slot] /\ armed' \in SUBSET Timer
    BY <1>1 DEF Renew, TypeOK, Slot
  <1>2. CASE Cancel(p)
    <2>1. todo[p] # <<>> /\ Head(todo[p]) = todo[p][1] /\ todo[p][1][1] = "cancel" /\ todo[p][1] \in Steps
      BY <1>2, HeadOf DEF Cancel, At
    <2>2. todo[p][1][2] \in Kind
      BY <2>1, StepKinds DEF Timed
    <2>4. Renew(todo[p][1][2], Nil, {}) /\ {} \in SUBSET Timer /\ Nil \in Nat \cup {Nil}
      BY <1>2, <2>1 DEF Cancel, Arg
    <2>3. slot' \in [Kind -> Slot] /\ armed' \in SUBSET Timer
      BY <1>1, <2>2, <2>4
    <2> QED BY <1>2, <2>3 DEF Cancel, TypeOK, work, history
  <1>3. CASE Schedule(p)
    BY <1>3 DEF Schedule, TypeOK, work, timers, history
  <1>4. CASE Arm(p)
    <2>1. todo[p] # <<>> /\ Head(todo[p]) = todo[p][1] /\ todo[p][1][1] = "arm" /\ todo[p][1] \in Steps
      BY <1>4, HeadOf DEF Arm, At
    <2>2. PICK k, e : k = todo[p][1][2] /\ e = slot[k].epoch + 1
      OBVIOUS
    <2>3. k \in Kind
      BY <2>1, <2>2, StepKinds DEF Timed
    <2>4. e \in Nat
      BY <2>2, <2>3 DEF TypeOK, Slot
    <2>5. Renew(k, IF k = "refresh" THEN e ELSE Nil, {<<k, e>>})
      BY <1>4, <2>1, <2>2 DEF Arm, Arg
    <2>6. (IF k = "refresh" THEN e ELSE Nil) \in Nat \cup {Nil} /\ {<<k, e>>} \in SUBSET Timer
      BY <2>3, <2>4 DEF Timer
    <2>7. slot' \in [Kind -> Slot] /\ armed' \in SUBSET Timer
      BY <1>1, <2>3, <2>5, <2>6
    <2> QED BY <1>4, <2>7 DEF Arm, TypeOK, work, history
  <1>5. CASE Store(p)
    <2>1. todo[p] # <<>> /\ Head(todo[p]) = todo[p][1] /\ todo[p][1][1] = "store" /\ todo[p][1] \in Steps
      BY <1>5, HeadOf DEF Store, At
    <2>2. todo[p][1][2] \in Kind /\ todo[p][1][3] \in Nat
      BY <2>1, StepKinds
    <2>4. PICK k, e : k = todo[p][1][2] /\ e = todo[p][1][3]
      OBVIOUS
    <2>5. \/ slot' = [slot EXCEPT ![k].timer = e] /\ UNCHANGED armed
          \/ armed' = armed \ {<<k, e>>} /\ UNCHANGED slot
      BY <1>5, <2>1, <2>4 DEF Store, Arg
    <2>3. slot' \in [Kind -> Slot] /\ armed' \in SUBSET Timer
      BY <2>2, <2>4, <2>5 DEF TypeOK, Slot
    <2> QED BY <1>5, <2>3 DEF Store, TypeOK, work, history
  <1> QED BY <1>2, <1>3, <1>4, <1>5 DEF Timing

(* Types are kept by the steps of the background tasks.                    *)
LEMMA TaskingTypes ==
    ASSUME Planned, TypeOK, NEW p \in DOMAIN todo, Tasking(p)
    PROVE  TypeOK'
  <1>1. CASE Match(p)
    BY <1>1 DEF Match, TypeOK, work, timers, history
  <1>2. CASE Spawn(p)
    BY <1>2 DEF Spawn, TypeOK, work, timers, history
  <1>3. CASE Run(p)
    BY <1>3 DEF Run, TypeOK, work, timers, history
  <1>4. CASE Deliver(p)
    <2>1. ends' \in [sent : BOOLEAN, late : BOOLEAN]
      BY <1>4 DEF Deliver, TypeOK, Matches
    <2> QED BY <1>4, <2>1 DEF Deliver, TypeOK, work
  <1>5. CASE Finish(p)
    <2>1. todo[p] # <<>> /\ Head(todo[p]) = todo[p][1] /\ todo[p][1][1] = "finish" /\ todo[p][1] \in Steps
      BY <1>5, HeadOf DEF Finish, At
    <2>2. todo[p][1][2] \in BOOLEAN
      BY <2>1, StepKinds
    <2>3. queue' \in [closed : BOOLEAN, active : Int, panics : Int]
      BY <1>5, <2>1, <2>2 DEF Finish, Arg, TypeOK
    <2> QED BY <1>5, <2>3 DEF Finish, TypeOK, work, timers, history
  <1> QED BY <1>1, <1>2, <1>3, <1>4, <1>5 DEF Tasking

(* The numbers of a list of changes.                                       *)
LEMMA SerialsType ==
    ASSUME NEW s \in Seq(Change)
    PROVE  /\ Serials(s) \in Seq(Nat) /\ Len(Serials(s)) = Len(s) /\ Len(s) \in Nat
           /\ \A i \in 1 .. Len(s) : Serials(s)[i] = s[i].n /\ s[i].n \in Nat
           /\ Numbers(s) \subseteq Nat
  <1>1. Len(s) \in Nat /\ \A i \in 1 .. Len(s) : s[i] \in Change
    OBVIOUS
  <1>2. \A i \in 1 .. Len(s) : s[i].n \in Nat
    BY <1>1 DEF Change
  <1>3. Serials(s) \in Seq(Nat) /\ Len(Serials(s)) = Len(s)
    BY <1>1, <1>2 DEF Serials
  <1> QED BY <1>1, <1>2, <1>3 DEF Serials, Numbers

(* Types are kept by the steps of an update.                               *)
LEMMA UpdatingTypes ==
    ASSUME Planned, TypeOK, Locks, NEW p \in DOMAIN todo, UpdatingStep(p)
    PROVE  TypeOK'
  <1>0. p \in Thread \cup Timer
    BY DEF Planned
  <1>1. CASE Look(p)
    BY <1>0, <1>1 DEF Look, TypeOK, work, timers, history
  <1>2. ASSUME NEW need \in BOOLEAN, Take(p, need)
        PROVE  TypeOK'
    <2>1. \/ update' = Nil /\ UNCHANGED work
          \/ taken' = pending /\ pending' = Empty /\ UNCHANGED update
      BY <1>2 DEF Take
    <2>2. /\ pending' \in Pending /\ taken' \in Pending \cup {Nil}
          /\ update' \in Thread \cup Timer \cup {Nil}
      BY <2>1, PendingParts DEF TypeOK, work
    <2> QED BY <1>2, <2>2 DEF Take, TypeOK, timers, history
  <1>3. ASSUME NEW outcome \in {"ok", "error", "panic"}, Build(p, outcome)
        PROVE  TypeOK'
    BY <1>3 DEF Build, TypeOK, work, timers, history
  <1>4. ASSUME At(p, "publish") \/ At(p, "restore")
        PROVE  snapshot # Nil /\ taken # Nil
    <2>2. todo[p] # <<>> /\ todo[p][1][1] \in {"publish", "restore"}
      BY <1>4, HeadOf DEF At
    <2>1. Place(p) \in Builds /\ Place(p) \in Holds
      BY <2>2 DEF Place, PlaceOf, Builds, Holds
    <2> QED BY <2>1 DEF Locks
  <1>5. CASE Publish(p)
    <2>1. /\ snapshot.changes \in Seq(Nat) /\ snapshot.inferred \in Nat
          /\ taken.changes \in Seq(Change) /\ taken.inferred \in Nat \cup {Nil}
      BY <1>4, <1>5, PendingParts DEF Publish
    <2>2. snapshot.changes \o Serials(taken.changes) \in Seq(Nat)
      BY <2>1, SerialsType
    <2>3. snapshot' \in Snapshot
      BY <1>5, <2>1, <2>2 DEF Publish, Snapshot
    <2> QED BY <1>5, <2>3 DEF Publish, TypeOK, timers
  <1>6. CASE Announce(p)
    <2>1. ends' \in [sent : BOOLEAN, late : BOOLEAN]
      BY <1>6 DEF Announce, TypeOK
    <2> QED BY <1>6, <2>1 DEF Announce, TypeOK, work, timers
  <1>7. CASE Restore(p)
    <2>1. /\ taken.changes \in Seq(Change) /\ taken.inferred \in Nat \cup {Nil}
          /\ pending.changes \in Seq(Change) /\ pending.inferred \in Nat \cup {Nil}
      BY <1>4, <1>7, PendingParts DEF Restore
    <2>2. taken.changes \o pending.changes \in Seq(Change)
      BY <2>1
    <2>3. pending' \in Pending
      BY <1>7, <2>1, <2>2 DEF Restore, Merged, Pending
    <2>4. excused' \in SUBSET Nat
      BY <1>7, <2>1, SerialsType DEF Restore, TypeOK
    <2> QED BY <1>7, <2>3, <2>4 DEF Restore, TypeOK, timers
  <1> QED BY <1>1, <1>2, <1>3, <1>5, <1>6, <1>7 DEF UpdatingStep

(* Types are kept by the steps of a close.                                 *)
LEMMA ClosingTypes ==
    ASSUME Planned, TypeOK, NEW p \in DOMAIN todo, ClosingStep(p)
    PROVE  TypeOK'
  <1>0. p \in Thread \cup Timer
    BY DEF Planned
  <1>1. CASE Lock(p)
    BY <1>0, <1>1 DEF Lock, TypeOK, work, timers, history
  <1>2. CASE Shut(p)
    BY <1>2 DEF Shut, TypeOK, work, timers, history
  <1>3. CASE Clear(p)
    BY <1>3, PendingParts DEF Clear, TypeOK, timers
  <1>4. CASE Stop(p)
    BY <1>4 DEF Stop, TypeOK, work, history
  <1>5. CASE Unlock(p)
    BY <1>5 DEF Unlock, TypeOK, work, timers, history
  <1>6. CASE Wait(p)
    BY <1>6 DEF Wait, TypeOK, work, timers, history
  <1>7. CASE Closed(p)
    BY <1>7 DEF Closed, TypeOK, work, timers
  <1> QED BY <1>1, <1>2, <1>3, <1>4, <1>5, <1>6, <1>7 DEF ClosingStep

(* A call that begins has a legal list.                                    *)
LEMMA CallShape ==
    ASSUME Shape, NEW p \in Thread, NEW op \in Calls, NEW f \in File, Call(p, op, f)
    PROVE  Shape'
  <1>1. Planned'
    <2>1. Program(op, f) \in Seq(Steps) /\ Plan(p, Program(op, f))
      BY ProgramPlan DEF Call
    <2>2. todo' = [todo EXCEPT ![p] = Program(op, f)] /\ p \in DOMAIN todo /\ Planned
      BY DEF Call, Shape, Planned
    <2> QED BY <2>1, <2>2, PlannedNew
  <1>2. TypeOK'
    BY DEF Call, Shape, TypeOK, work, timers, history
  <1> QED BY <1>1, <1>2 DEF Shape

(* A timer that fires has a legal list.                                    *)
LEMMA FireShape ==
    ASSUME Shape, NEW t \in armed, Fire(t)
    PROVE  Shape'
  <1>1. TypeOK'
    BY DEF Fire, Shape, TypeOK, work, history
  <1>2. t \in Timer /\ t \notin Thread
    BY SessionAssumption DEF Shape, TypeOK
  <1>3. PICK x : x = <<"match">>
    OBVIOUS
  <1>4. <<x>> \in Seq(Steps) /\ Plan(t, <<x>>)
    <2>1. x \in Steps /\ Fits(t, x) /\ x[1] = "match"
      BY <1>2, <1>3, InSteps DEF Bare, Fits
    <2> QED BY <2>1, OnePlan
  <1>5. todo \in [DOMAIN todo -> Seq(Steps)] /\ Thread \subseteq DOMAIN todo
        /\ DOMAIN todo \subseteq Thread \cup Timer /\ \A q \in DOMAIN todo : Plan(q, todo[q])
    BY DEF Shape, Planned
  <1>6. todo' = [q \in DOMAIN todo \cup {t} |-> IF q = t THEN <<x>> ELSE todo[q]]
    BY <1>3 DEF Fire
  <1>7. /\ DOMAIN todo' = DOMAIN todo \cup {t} /\ todo'[t] = <<x>>
        /\ \A q \in DOMAIN todo : q # t => todo'[q] = todo[q]
        /\ todo' \in [DOMAIN todo' -> Seq(Steps)]
    BY <1>4, <1>5, <1>6
  <1>8. ASSUME NEW q \in DOMAIN todo'
        PROVE  Plan(q, todo'[q])
    <2>1. CASE q = t
      BY <2>1, <1>4, <1>7
    <2>2. CASE q # t
      BY <2>2, <1>5, <1>7
    <2> QED BY <2>1, <2>2
  <1>9. Thread \subseteq DOMAIN todo' /\ DOMAIN todo' \subseteq Thread \cup Timer
    BY <1>2, <1>5, <1>7
  <1>10. Planned'
    BY <1>7, <1>8, <1>9 DEF Planned, Plan, Linked, Fitting, Once, Asking, Going
  <1> QED BY <1>1, <1>10 DEF Shape

(* The lists are legal at first: they are empty.                           *)
LEMMA ShapeInit == Init => Shape
  <1> SUFFICES ASSUME Init PROVE Shape
    OBVIOUS
  <1>1. todo = [t \in Thread |-> <<>>] /\ \A t \in Thread : <<>> \in Seq(Steps) /\ Plan(t, <<>>)
    BY NoPlan DEF Init
  <1>2. Planned
    BY <1>1 DEF Planned
  <1>4. snapshot \in Snapshot /\ pending \in Pending
    <2>1. <<>> \in Seq(Nat) /\ <<>> \in Seq(Change)
      OBVIOUS
    <2> QED BY <2>1 DEF Init, Snapshot, Pending, Empty
  <1>5. slot \in [Kind -> Slot] /\ queue \in [closed : BOOLEAN, active : Int, panics : Int]
    BY DEF Init, Slot
  <1>3. TypeOK
    BY <1>4, <1>5 DEF Init, TypeOK
  <1> QED BY <1>2, <1>3 DEF Shape

(* The steps of the threads, each of them at the place of its thread *)
LEMMA ShapeStep ==
    ASSUME Shape, Locks, [Next]_vars
    PROVE  Shape'
  <1>1. ASSUME NEW p \in DOMAIN todo,
               Notifying(p) \/ Timing(p) \/ Tasking(p) \/ UpdatingStep(p) \/ ClosingStep(p)
        PROVE  Shape'
    BY <1>1, SessionAssumption, NotifyingPlanned, TimingPlanned, TaskingPlanned, UpdatingPlanned,
       ClosingPlanned, NotifyingTypes, TimingTypes, TaskingTypes, UpdatingTypes, ClosingTypes DEF Shape
  <1>2. CASE UNCHANGED vars
    BY <1>2 DEF vars, work, timers, history, Shape, TypeOK, Planned
  <1> QED BY <1>1, <1>2, CallShape, FireShape DEF Next, Rest, Calls

----------------------------------------------------------------------------
(* Where the steps lead *)

(* The places behind a place, when its step is done and no other takes it *)
After(a) ==
    CASE a = "push" -> {"idle", "schedule"}
      [] a \in {"schedule", "store"} -> {"idle", "schedule", "push", "unread", "look"}
      [] a = "begin" -> {"take"}
      [] a = "endUpdate" -> {"endIdle", "cancel"}
      [] a = "endIdle" -> {"endRefresh", "cancel"}
      [] a = "endRefresh" -> {"unlock"}
      [] a = "cancel" -> {"idle", "push"}
      [] a \in Update_ -> {"idle", "settle", "finish"}
      [] a = "restore" -> {"idle", "rollback", "finish"}
      [] a = "deliver" -> {"idle", "finish"}
      [] a = "lock" -> {"idle", "shut"}
      [] a = "shut" -> {"idle", "clear"}
      [] a = "clear" -> {"idle", "stop"}
      [] a = "stop" -> {"idle", "endUpdate"}
      [] a = "unlock" -> {"idle", "wait"}
      [] a = "wait" -> {"idle", "closed"}
      [] OTHER -> {"idle"}

(* What the rest of a list is.                                             *)
LEMMA TailOf ==
    ASSUME NEW S, NEW s \in Seq(S), s # <<>>
    PROVE  /\ Tail(s) \in Seq(S) /\ Len(Tail(s)) = Len(s) - 1 /\ Len(s) \in Nat /\ Len(s) >= 1
           /\ \A i \in 1 .. Len(s) - 1 : Tail(s)[i] = s[i + 1]
           /\ (Tail(s) = <<>> <=> Len(s) = 1) /\ (Len(s) > 1 => Tail(s)[1] = s[2])
           /\ (Len(s) > 2 => Tail(s)[2] = s[3])
  <1>1. Tail(s) \in Seq(S) /\ Len(Tail(s)) = Len(s) - 1
        /\ \A i \in 1 .. Len(Tail(s)) : Tail(s)[i] = s[i + 1]
    BY HeadTailProperties
  <1>2. Len(s) \in Nat /\ Len(s) >= 1
    OBVIOUS
  <1>3. \A t \in Seq(S) : t = <<>> <=> Len(t) = 0
    OBVIOUS
  <1>4. Tail(s) = <<>> <=> Len(s) = 1
    BY <1>1, <1>2, <1>3
  <1>5. /\ \A i \in 1 .. Len(s) - 1 : Tail(s)[i] = s[i + 1]
        /\ (Len(s) > 1 => Tail(s)[1] = s[2]) /\ (Len(s) > 2 => Tail(s)[2] = s[3])
    BY <1>1, <1>2
  <1> QED BY <1>1, <1>2, <1>4, <1>5

(* Where a thread goes when its first step is done.                        *)
LEMMA PlaceDone ==
    ASSUME NEW p, NEW s \in Seq(Steps), s # <<>>, Plan(p, s),
           s[1][1] \notin {"enqueue", "apply", "arm"}
    PROVE  PlaceOf(Tail(s)) \in After(PlaceOf(s))
  <1> PICK z : z = Tail(s)
    OBVIOUS
  <1>1. /\ Len(z) = Len(s) - 1 /\ Len(s) \in Nat /\ Len(s) >= 1
        /\ (z = <<>> <=> Len(s) = 1) /\ (Len(s) > 1 => z[1] = s[2]) /\ (Len(s) > 2 => z[2] = s[3])
    BY TailOf
  <1>2. Len(s) > 1 => Follows(s[1], s[2])
    BY <1>1 DEF Plan, Linked
  <1>3. Len(s) > 2 => Follows(s[2], s[3])
    BY <1>1 DEF Plan, Linked
  <1>4. s[1][1] = "cancel" /\ s[1][2] = "update" => Len(s) > 1
    BY <1>1 DEF Plan, Going
  <1>5. Len(s) > 1 /\ s[2][1] = "cancel" /\ s[2][2] = "update" => Len(s) > 2
    BY <1>1 DEF Plan, Going
  <1>6. Len(s) > 2 => s[3][1] # "take"
    BY <1>1 DEF Plan, Going
  <1>7. CASE s[1][1] # "cancel"
    <2>1. PlaceOf(s) = s[1][1]
      BY <1>7 DEF PlaceOf
    <2>2. CASE Len(s) = 1
      <3>1. PlaceOf(z) = "idle"
        BY <2>2, <1>1 DEF PlaceOf
      <3>2. s[1][1] \notin {"begin", "endRefresh", "endUpdate", "endIdle"}
        <4>1. s[1] \in Steps
          BY <1>1
        <4> QED BY <4>1 DEF Steps, Bare, Timed
      <3> QED BY <3>1, <3>2, <2>1, <1>7 DEF After, Update_
    <2>3. CASE Len(s) # 1
      <3>1. Len(s) > 1 /\ z # <<>> /\ z[1] = s[2] /\ Follows(s[1], s[2])
        BY <2>3, <1>1, <1>2
      <3>2. CASE s[1][1] = "stop"
        <4>1. s[2][1] = "cancel" /\ s[2][2] = "update" /\ Len(s) > 2
          BY <3>1, <3>2, <1>5 DEF Follows, Update_
        <4>2. z[2] = s[3] /\ Len(z) > 1 /\ s[3][1] = "cancel"
          BY <4>1, <1>1, <1>3, <1>6 DEF Follows, Update_
        <4>3. PlaceOf(z) = "endUpdate"
          BY <3>1, <4>1, <4>2 DEF PlaceOf, Second, Ending
        <4> QED BY <4>3, <3>2, <2>1 DEF After, Update_
      <3>3. CASE s[1][1] # "stop"
        <4>1. s[2][1] # "cancel"
          BY <3>1, <3>3, <1>7 DEF Follows, Update_
        <4>2. PlaceOf(z) = s[2][1]
          BY <4>1, <3>1 DEF PlaceOf
        <4> QED BY <4>2, <3>1, <3>3, <2>1, <1>7 DEF Follows, After, Update_
      <3> QED BY <3>2, <3>3
    <2> QED BY <2>2, <2>3
  <1>8. CASE s[1][1] = "cancel"
    <2>0. s[1][2] \in Kind
      <3>1. s[1] \in Steps
        BY <1>1
      <3> QED BY <3>1, <1>8, StepKinds DEF Timed
    <2>1. CASE Len(s) = 1
      <3>1. PlaceOf(z) = "idle" /\ PlaceOf(s) = "cancel"
        BY <2>1, <1>1, <1>8 DEF PlaceOf, Second
      <3> QED BY <3>1 DEF After, Update_
    <2>2. CASE Len(s) # 1
      <3>1. Len(s) > 1 /\ z # <<>> /\ z[1] = s[2] /\ Follows(s[1], s[2])
        BY <2>2, <1>1, <1>2
      <3>2. CASE s[2][1] = "take"
        <4>1. PlaceOf(s) = "begin" /\ PlaceOf(z) = "take"
          BY <3>1, <3>2, <1>8 DEF PlaceOf, Second
        <4> QED BY <4>1 DEF After, Update_
      <3>3. CASE s[2][1] = "cancel"
        <4>1. \/ s[1][2] = "update" /\ s[2][2] = "idle" /\ PlaceOf(s) = "endUpdate"
              \/ s[1][2] = "idle" /\ s[2][2] = "refresh" /\ PlaceOf(s) = "endIdle"
          BY <3>1, <3>3, <1>8 DEF Follows, Update_, PlaceOf, Second, Ending
        <4>2. Len(z) > 1 => z[2][1] # "take"
          BY <1>1, <1>6
        <4>3. PlaceOf(z) \in {Ending(s[2][2]), "cancel"}
          BY <4>2, <3>1, <3>3 DEF PlaceOf, Second
        <4> QED BY <4>1, <4>3 DEF After, Update_, Ending
      <3>4. CASE s[2][1] = "unlock"
        <4>1. s[1][2] = "refresh"
          BY <3>1, <3>4, <1>8 DEF Follows, Update_
        <4>2. PlaceOf(s) = "endRefresh" /\ PlaceOf(z) = "unlock"
          BY <4>1, <3>1, <3>4, <1>8 DEF PlaceOf, Second, Ending
        <4> QED BY <4>2 DEF After, Update_
      <3>5. CASE s[2][1] \notin {"take", "cancel", "unlock"}
        <4>1. s[2][1] = "push"
          BY <3>1, <3>5, <1>8 DEF Follows, Update_
        <4>2. PlaceOf(s) = "cancel" /\ PlaceOf(z) = "push"
          BY <4>1, <3>1, <1>8 DEF PlaceOf, Second
        <4> QED BY <4>2 DEF After, Update_
      <3> QED BY <3>2, <3>3, <3>4, <3>5
    <2> QED BY <2>1, <2>2
  <1> QED BY <1>7, <1>8

Others(p) ==
    /\ DOMAIN todo' = DOMAIN todo
    /\ \A q \in DOMAIN todo : q # p =>
          todo'[q] = todo[q] /\ (Place(q))' = Place(q) /\ ((Reads(q))' <=> Reads(q))
Goes(p, S) == Others(p) /\ Place(p)' \in S /\ (Reads(p)' => Reads(p))

(* Places in the next state.                                               *)
LEMMA PlacePrimed ==
    ASSUME NEW p
    PROVE  (Place(p))' = PlaceOf(todo'[p]) /\ ((Reads(p))' <=> ReadsOf(todo'[p]))
  BY DEF Place, PlaceOf, Second, Ending, Reads, ReadsOf

(* A thread whose list is replaced; the others stay.                       *)
LEMMA NewGoes ==
    ASSUME Planned, NEW p \in DOMAIN todo, NEW new, todo' = [todo EXCEPT ![p] = new]
    PROVE  /\ Others(p) /\ todo'[p] = new
           /\ (Place(p))' = PlaceOf(new) /\ ((Reads(p))' <=> ReadsOf(new))
  <1>1. /\ DOMAIN todo' = DOMAIN todo /\ todo'[p] = new
        /\ \A q \in DOMAIN todo : q # p => todo'[q] = todo[q]
    BY DEF Planned
  <1>2. ASSUME NEW q \in DOMAIN todo, q # p
        PROVE  (Place(q))' = Place(q) /\ ((Reads(q))' <=> Reads(q))
    <2>1. todo'[q] = todo[q]
      BY <1>1, <1>2
    <2>2. (Place(q))' = PlaceOf(todo'[q]) /\ ((Reads(q))' <=> ReadsOf(todo'[q]))
      BY PlacePrimed
    <2> QED BY <2>1, <2>2 DEF Place, Reads
  <1>3. Others(p)
    BY <1>1, <1>2 DEF Others
  <1> QED BY <1>1, <1>3, PlacePrimed

(* A thread that is done with its first step.                              *)
LEMMA DoneGoes ==
    ASSUME Planned, NEW p \in DOMAIN todo, todo[p] # <<>>, Then(p, <<>>),
           todo[p][1][1] \notin {"enqueue", "apply", "arm"}
    PROVE  /\ Goes(p, After(Place(p)))
           /\ todo[p][1][1] \in Reading => ~(Reads(p))'
  <1>1. todo[p] \in Seq(Steps) /\ Plan(p, todo[p])
    BY DEF Planned
  <1>2. PICK s, z : s = todo[p] /\ z = Tail(s)
    OBVIOUS
  <1>3. <<>> \o z = z
    BY <1>1, <1>2, TailOf, ConcatEmptySeq
  <1>4. todo' = [todo EXCEPT ![p] = z]
    BY <1>2, <1>3 DEF Then
  <1>5. /\ Others(p) /\ (Place(p))' = PlaceOf(z) /\ ((Reads(p))' <=> ReadsOf(z))
    BY <1>4, NewGoes
  <1>6. /\ Len(z) = Len(s) - 1 /\ Len(s) \in Nat /\ Len(s) >= 1
        /\ \A i \in 1 .. Len(s) - 1 : z[i] = s[i + 1]
    BY <1>1, <1>2, TailOf
  <1>7. ReadsOf(z) => ReadsOf(s) /\ s[1][1] \notin Reading
    <2> SUFFICES ASSUME NEW i \in 1 .. Len(z), z[i][1] \in Reading
                 PROVE  ReadsOf(s) /\ s[1][1] \notin Reading
      BY DEF ReadsOf
    <2>1. i + 1 \in 1 .. Len(s) /\ s[i + 1][1] \in Reading /\ 1 \in 1 .. Len(s) /\ i + 1 # 1
      BY <1>6
    <2> QED BY <2>1, <1>1, <1>2 DEF ReadsOf, Plan, Once
  <1>8. PlaceOf(z) \in After(PlaceOf(s))
    BY <1>1, <1>2, PlaceDone
  <1> QED BY <1>2, <1>5, <1>7, <1>8 DEF Goes, Place, Reads

(* A thread whose first step gives way to others.                          *)
LEMMA ThenGoes ==
    ASSUME Planned, NEW p \in DOMAIN todo, todo[p] # <<>>, NEW new \in Seq(Steps), new # <<>>, Then(p, new)
    PROVE  /\ Others(p) /\ ((Reads(p))' => ReadsOf(new) \/ Reads(p))
           /\ todo'[p] # <<>> /\ todo'[p][1] = new[1]
           /\ Len(new) > 1 => Len(todo'[p]) > 1 /\ todo'[p][2] = new[2]
           /\ new[1][1] # "cancel" => (Place(p))' = new[1][1]
  <1>1. todo[p] \in Seq(Steps)
    BY DEF Planned
  <1>2. PICK s, z : s = todo[p] /\ z = new \o Tail(s)
    OBVIOUS
  <1>3. todo' = [todo EXCEPT ![p] = z]
    BY <1>2 DEF Then
  <1>4. /\ Others(p) /\ todo'[p] = z /\ (Place(p))' = PlaceOf(z) /\ ((Reads(p))' <=> ReadsOf(z))
    BY <1>3, NewGoes
  <1>5. /\ Len(s) \in Nat /\ Len(s) >= 1 /\ Len(new) \in Nat /\ Len(z) = Len(new) + Len(s) - 1
        /\ \A i \in 1 .. Len(new) : z[i] = new[i]
        /\ \A i \in 2 .. Len(s) : z[Len(new) + i - 1] = s[i]
        /\ \A i \in 1 .. Len(new) + Len(s) - 1 :
              i \in 1 .. Len(new) \/ (i - Len(new) + 1 \in 2 .. Len(s) /\ i = Len(new) + (i - Len(new) + 1) - 1)
    BY <1>1, <1>2, Behind_
  <1>6. Len(new) >= 1
    OBVIOUS
  <1>7. z # <<>> /\ z[1] = new[1] /\ (Len(new) > 1 => Len(z) > 1 /\ z[2] = new[2])
    <2>1. Len(z) >= 1 /\ z[1] = new[1] /\ (Len(new) > 1 => Len(z) > 1 /\ z[2] = new[2])
      BY <1>5, <1>6
    <2>2. Len(<<>>) = 0
      OBVIOUS
    <2> QED BY <2>1, <2>2
  <1>8. ReadsOf(z) => ReadsOf(new) \/ ReadsOf(s)
    <2> SUFFICES ASSUME NEW i \in 1 .. Len(z), z[i][1] \in Reading
                 PROVE  ReadsOf(new) \/ ReadsOf(s)
      BY DEF ReadsOf
    <2>1. CASE i \in 1 .. Len(new)
      BY <2>1, <1>5 DEF ReadsOf
    <2>2. CASE i - Len(new) + 1 \in 2 .. Len(s)
      <3>1. i - Len(new) + 1 \in 1 .. Len(s) /\ z[i] = s[i - Len(new) + 1]
        BY <2>2, <1>5
      <3> QED BY <3>1 DEF ReadsOf
    <2> QED BY <2>1, <2>2, <1>5
  <1>9. new[1][1] # "cancel" => PlaceOf(z) = new[1][1]
    BY <1>7 DEF PlaceOf
  <1> QED BY <1>2, <1>4, <1>7, <1>8, <1>9 DEF Reads

(* A thread whose first step gives way to one other.                       *)
LEMMA OneGoes ==
    ASSUME Planned, NEW p \in DOMAIN todo, todo[p] # <<>>, NEW x \in Steps, x[1] \notin Reading \cup {"cancel"},
           Then(p, <<x>>)
    PROVE  Goes(p, {x[1]})
  <1>1. <<x>> \in Seq(Steps) /\ <<x>> # <<>> /\ <<x>>[1] = x /\ Len(<<x>>) = 1
    OBVIOUS
  <1>2. ~ReadsOf(<<x>>)
    BY <1>1 DEF ReadsOf
  <1>3. Others(p) /\ ((Reads(p))' => Reads(p)) /\ (Place(p))' = x[1]
    BY <1>1, <1>2, ThenGoes
  <1> QED BY <1>3 DEF Goes

(* A thread that returns.                                                  *)
LEMMA ReturnGoes ==
    ASSUME Planned, NEW p \in DOMAIN todo, Return(p)
    PROVE  Goes(p, {"idle"}) /\ ~(Reads(p))'
  <1>1. ~ReadsOf(<<>>) /\ PlaceOf(<<>>) = "idle"
    <2>1. Len(<<>>) = 0
      OBVIOUS
    <2> QED BY <2>1 DEF ReadsOf, PlaceOf
  <1>2. /\ Others(p) /\ (Place(p))' = PlaceOf(<<>>) /\ ((Reads(p))' <=> ReadsOf(<<>>))
    BY NewGoes DEF Return
  <1> QED BY <1>1, <1>2 DEF Goes

(* The place of a thread with a step to do *)
LEMMA PlaceAt ==
    ASSUME Planned, NEW p \in DOMAIN todo, NEW op, op # "cancel", At(p, op)
    PROVE  /\ Place(p) = op /\ todo[p] # <<>> /\ todo[p][1][1] = op /\ Head(todo[p]) = todo[p][1]
           /\ todo[p][1] \in Steps /\ Fits(p, todo[p][1]) /\ p \in Thread \cup Timer
           /\ op \in Reading => Reads(p)
  <1>1. todo[p] # <<>> /\ todo[p][1][1] = op /\ Head(todo[p]) = todo[p][1] /\ Len(todo[p]) \in Nat
        /\ Len(todo[p]) >= 1 /\ todo[p][1] \in Steps /\ Fits(p, todo[p][1]) /\ p \in Thread \cup Timer
    BY HeadOf DEF At
  <1>2. Place(p) = op
    BY <1>1 DEF Place, PlaceOf
  <1>3. op \in Reading => Reads(p)
    BY <1>1 DEF Reads, ReadsOf
  <1> QED BY <1>1, <1>2, <1>3

(* A step that is done *)
LEMMA DoneAt ==
    ASSUME Planned, NEW p \in DOMAIN todo, NEW op, op \notin {"enqueue", "apply", "arm", "cancel"},
           At(p, op), Then(p, <<>>)
    PROVE  Place(p) = op /\ Goes(p, After(op)) /\ (op \in Reading => ~(Reads(p))')
  BY PlaceAt, DoneGoes

(* A step that another one takes the place of *)
LEMMA NextAt ==
    ASSUME Planned, NEW p \in DOMAIN todo, NEW op, op # "cancel", At(p, op),
           NEW x \in Steps, x[1] \notin Reading \cup {"cancel"}, Then(p, <<x>>)
    PROVE  Place(p) = op /\ Goes(p, {x[1]})
  BY PlaceAt, OneGoes

(* Where an edit of a document goes.                                       *)
LEMMA EnqueueGoes ==
    ASSUME Planned, NEW p \in DOMAIN todo, NEW mapped \in BOOLEAN, Enqueue(p, mapped)
    PROVE  /\ Place(p) = "enqueue"
           /\ \/ snapshot = Nil /\ Goes(p, {"idle"}) /\ UNCHANGED readers
              \/ /\ snapshot # Nil /\ Others(p) /\ (Place(p))' \in {"schedule", "cancel", "push"}
                 /\ readers' = readers \cup {p}
  <1>1. /\ Place(p) = "enqueue" /\ todo[p] # <<>> /\ todo[p][1][1] = "enqueue"
        /\ Head(todo[p]) = todo[p][1] /\ todo[p][1] \in Steps
    BY PlaceAt DEF Enqueue
  <1>2. CASE Refused(p)
    BY <1>1, <1>2, ReturnGoes DEF Refused
  <1>3. CASE ~Refused(p)
    <2>1. PICK c, f, op : /\ c = todo[p][1][2] /\ f = todo[p][1][3]
                          /\ op = (IF mapped THEN "schedule" ELSE "cancel")
      OBVIOUS
    <2>2. c \in Edits /\ f \in File /\ op \in {"schedule", "cancel"}
      BY <1>1, <2>1, StepKinds
    <2>3. PICK n : n = Noting(c, f, op)
      OBVIOUS
    <2>4. Noted(p, n)
      BY <2>2, <2>3, NotingPlan
    <2>5. Then(p, n) /\ snapshot # Nil /\ readers' = readers \cup {p}
      BY <1>1, <1>3, <2>1, <2>3 DEF Enqueue, Arg, Noting
    <2>6. /\ n \in Seq(Steps) /\ n # <<>> /\ n[1][1] \in {"schedule", "cancel", "push"}
          /\ n[1][1] = "cancel" => Len(n) > 1 /\ n[2][1] = "push"
      <3>1. n \in Seq(Steps) /\ n # <<>>
        BY <2>4 DEF Noted
      <3>2. 1 \in 1 .. Len(n)
        BY <3>1
      <3> QED BY <2>4, <3>1, <3>2 DEF Noted
    <2>7. /\ Others(p) /\ todo'[p] # <<>> /\ todo'[p][1] = n[1]
          /\ Len(n) > 1 => Len(todo'[p]) > 1 /\ todo'[p][2] = n[2]
          /\ n[1][1] # "cancel" => (Place(p))' = n[1][1]
      BY <1>1, <2>5, <2>6, ThenGoes
    <2>8. n[1][1] = "cancel" => (Place(p))' = "cancel"
      <3>1. n[1][1] = "cancel" => PlaceOf(todo'[p]) = "cancel"
        BY <2>6, <2>7 DEF PlaceOf, Second
      <3> QED BY <3>1, PlacePrimed
    <2> QED BY <1>1, <2>5, <2>6, <2>7, <2>8
  <1> QED BY <1>2, <1>3

(* Where a report of watched files goes.                                   *)
LEMMA WatchedGoes ==
    ASSUME Planned, NEW p \in DOMAIN todo, NEW relevant \in BOOLEAN, NEW config \in BOOLEAN,
           Watched(p, relevant, config)
    PROVE  /\ Place(p) = "watched"
           /\ \/ snapshot = Nil /\ Goes(p, {"idle"}) /\ UNCHANGED <<readers, pending, count>>
              \/ /\ snapshot # Nil /\ Others(p) /\ (Place(p))' = "schedule"
                 /\ readers' = readers \cup {p} /\ Admit("watch", todo[p][1][2], config)
                 /\ todo[p][1] \in Steps /\ todo[p][1][1] = "watched"
  <1>1. /\ Place(p) = "watched" /\ todo[p] # <<>> /\ todo[p][1][1] = "watched"
        /\ Head(todo[p]) = todo[p][1] /\ todo[p][1] \in Steps
    BY PlaceAt DEF Watched
  <1>2. CASE Refused(p)
    BY <1>1, <1>2, ReturnGoes DEF Refused, work
  <1>3. CASE ~Refused(p)
    <2>1. PICK n : n = Watching(relevant, config)
      OBVIOUS
    <2>2. n \in Seq(Steps) /\ n # <<>> /\ n[1][1] = "schedule"
      BY <2>1, WatchingPlan
    <2>3. Then(p, n) /\ snapshot # Nil /\ readers' = readers \cup {p} /\ Admit("watch", todo[p][1][2], config)
      BY <1>1, <1>3, <2>1 DEF Watched, Watching, Arg
    <2>4. Others(p) /\ (Place(p))' = "schedule"
      BY <1>1, <2>2, <2>3, ThenGoes
    <2> QED BY <1>1, <2>3, <2>4
  <1> QED BY <1>2, <1>3

(* Where new options go.                                                   *)
LEMMA ApplyGoes ==
    ASSUME Planned, NEW p \in DOMAIN todo, Apply(p)
    PROVE  /\ Place(p) = "apply" /\ p \in Thread /\ "apply" \in Does[p]
           /\ \/ snapshot = Nil /\ Goes(p, {"idle"}) /\ UNCHANGED <<pending, count>>
              \/ /\ snapshot # Nil /\ Goes(p, {"look"}) /\ Len(todo'[p]) = 2 /\ todo'[p][1][1] = "look"
                 /\ todo'[p][2] = <<"settle", count.options + 1, pending.inferred>>
                 /\ pending' = [pending EXCEPT !.inferred = count.options + 1]
                 /\ count' = [count EXCEPT !.options = count.options + 1]
                 /\ UNCHANGED <<snapshot, readers, update, taken, timers, queue, history>>
  <1>1. /\ Place(p) = "apply" /\ todo[p] # <<>> /\ todo[p][1][1] = "apply" /\ Fits(p, todo[p][1])
        /\ todo[p] \in Seq(Steps) /\ Plan(p, todo[p])
    BY PlaceAt, HeadOf DEF Apply
  <1>2. p \in Thread /\ "apply" \in Does[p]
    BY <1>1 DEF Fits
  <1>3. CASE Refused(p)
    BY <1>1, <1>2, <1>3, ReturnGoes DEF Refused, work
  <1>4. CASE ~Refused(p)
    <2>1. PICK x, y : x = <<"settle", count.options + 1, pending.inferred>> /\ y = todo[p][2]
      OBVIOUS
    <2>2. Len(todo[p]) = 2 /\ Follows(todo[p][1], todo[p][2])
      BY <1>1, Ends
    <2>3. y[1] = "look"
      BY <1>1, <2>1, <2>2 DEF Follows, Update_
    <2>4. Tail(todo[p]) = <<y>>
      BY <1>1, <2>1, <2>2, TailOfTwo
    <2>5. /\ snapshot # Nil /\ todo' = [todo EXCEPT ![p] = Tail(todo[p]) \o <<x>>]
          /\ pending' = [pending EXCEPT !.inferred = count.options + 1]
          /\ count' = [count EXCEPT !.options = count.options + 1]
          /\ UNCHANGED <<snapshot, readers, update, taken, timers, queue, history>>
      BY <1>4, <2>1 DEF Apply
    <2>6. todo' = [todo EXCEPT ![p] = <<y, x>>]
      <3>1. <<y>> \o <<x>> = <<y, x>>
        BY Join
      <3> QED BY <3>1, <2>4, <2>5
    <2>7. Len(<<y, x>>) = 2 /\ <<y, x>>[1] = y /\ <<y, x>>[2] = x /\ <<y, x>> # <<>>
      OBVIOUS
    <2>8. PlaceOf(<<y, x>>) = "look" /\ ~ReadsOf(<<y, x>>)
      <3>1. \A i \in 1 .. 2 : i = 1 \/ i = 2
        OBVIOUS
      <3>2. x[1] = "settle"
        BY <2>1
      <3> QED BY <2>3, <2>7, <3>1, <3>2 DEF PlaceOf, ReadsOf, Reading
    <2>9. /\ Others(p) /\ todo'[p] = <<y, x>>
          /\ (Place(p))' = PlaceOf(<<y, x>>) /\ ((Reads(p))' <=> ReadsOf(<<y, x>>))
      BY <2>6, NewGoes
    <2>10. Goes(p, {"look"})
      BY <2>8, <2>9 DEF Goes
    <2> QED BY <1>1, <1>2, <2>1, <2>3, <2>5, <2>7, <2>9, <2>10
  <1> QED BY <1>3, <1>4

(* The places that a cancellation has, and where they lead *)
LEMMA CancelGoes ==
    ASSUME Planned, NEW p \in DOMAIN todo, Cancel(p)
    PROVE  /\ Goes(p, After(Place(p)))
           /\ Head(todo[p]) = todo[p][1] /\ todo[p][1][2] \in Kind
           /\ \/ Place(p) = "begin" /\ todo[p][1][2] = "update" /\ Second(todo[p], "take")
              \/ Place(p) = "endUpdate" /\ todo[p][1][2] = "update"
              \/ Place(p) = "endIdle" /\ todo[p][1][2] = "idle"
              \/ Place(p) = "endRefresh" /\ todo[p][1][2] = "refresh"
              \/ Place(p) = "cancel" /\ todo[p][1][2] # "update"
           /\ Renew(todo[p][1][2], Nil, {})
  <1>1. /\ todo[p] # <<>> /\ todo[p][1][1] = "cancel" /\ Head(todo[p]) = todo[p][1] /\ todo[p][1] \in Steps
        /\ todo[p] \in Seq(Steps) /\ Plan(p, todo[p]) /\ Len(todo[p]) \in Nat /\ Len(todo[p]) >= 1
    BY HeadOf DEF Cancel, At
  <1>2. Goes(p, After(Place(p)))
    BY <1>1, DoneGoes DEF Cancel
  <1>3. todo[p][1][2] \in Kind /\ Renew(todo[p][1][2], Nil, {})
    BY <1>1, StepKinds DEF Timed, Cancel, Arg
  <1>4. Len(todo[p]) > 1 => Follows(todo[p][1], todo[p][2])
    BY <1>1, Ends
  <1>5. todo[p][1][2] = "update" => Len(todo[p]) > 1
    BY <1>1 DEF Plan, Going
  <1>6. CASE Second(todo[p], "take")
    <2>1. todo[p][1][2] = "update"
      BY <1>1, <1>4, <1>6 DEF Second, Follows, Update_
    <2> QED BY <1>1, <1>2, <1>3, <1>6, <2>1 DEF Place, PlaceOf
  <1>7. CASE ~Second(todo[p], "take") /\ (Second(todo[p], "cancel") \/ Second(todo[p], "unlock"))
    <2>1. Place(p) = Ending(todo[p][1][2])
      BY <1>1, <1>7 DEF Place, PlaceOf
    <2> QED BY <1>1, <1>2, <1>3, <2>1 DEF Ending, Kind
  <1>8. CASE ~Second(todo[p], "take") /\ ~Second(todo[p], "cancel") /\ ~Second(todo[p], "unlock")
    <2>1. Place(p) = "cancel"
      BY <1>1, <1>8 DEF Place, PlaceOf
    <2>2. todo[p][1][2] # "update"
      BY <1>1, <1>4, <1>5, <1>8 DEF Second, Follows, Update_
    <2> QED BY <1>1, <1>2, <1>3, <2>1, <2>2
  <1> QED BY <1>6, <1>7, <1>8

(* Where a thread goes that schedules a timer.                             *)
LEMMA ScheduleGoes ==
    ASSUME Planned, NEW p \in DOMAIN todo, Schedule(p)
    PROVE  Place(p) = "schedule" /\ Goes(p, {"arm", "idle", "schedule", "push", "unread", "look"})
  <1>1. CASE token
    <2>1. Place(p) = "schedule" /\ Goes(p, After("schedule"))
      BY <1>1, DoneAt DEF Schedule
    <2> QED BY <2>1 DEF Goes, After, Update_
  <1>2. CASE ~token
    <2>1. todo[p][1] \in Steps /\ todo[p][1][1] = "schedule" /\ Head(todo[p]) = todo[p][1]
      BY PlaceAt DEF Schedule
    <2>2. PICK x : x = <<"arm", todo[p][1][2]>>
      OBVIOUS
    <2>3. x \in Steps /\ x[1] = "arm"
      BY <2>1, <2>2, StepKinds, InSteps DEF Timed
    <2>4. Then(p, <<x>>)
      BY <1>2, <2>1, <2>2 DEF Schedule, Arg
    <2>5. Place(p) = "schedule" /\ Goes(p, {x[1]})
      BY <2>3, <2>4, NextAt DEF Schedule, Reading
    <2> QED BY <2>3, <2>5 DEF Goes
  <1> QED BY <1>1, <1>2

(* A timer that is armed is stored next.                                   *)
LEMMA ArmGoes ==
    ASSUME Planned, TypeOK, NEW p \in DOMAIN todo, Arm(p)
    PROVE  Place(p) = "arm" /\ Goes(p, {"store"})
  <1>1. todo[p][1] \in Steps /\ todo[p][1][1] = "arm" /\ Head(todo[p]) = todo[p][1]
    BY PlaceAt DEF Arm
  <1>2. PICK k, e : k = todo[p][1][2] /\ e = slot[k].epoch + 1
    OBVIOUS
  <1>3. k \in Kind
    BY <1>1, <1>2, StepKinds DEF Timed
  <1>4. e \in Nat
    BY <1>2, <1>3 DEF TypeOK, Slot
  <1>5. PICK x : x = <<"store", k, e>>
    OBVIOUS
  <1>6. x \in Steps /\ x[1] = "store"
    BY <1>3, <1>4, <1>5, InSteps
  <1>7. Then(p, <<x>>)
    BY <1>1, <1>2, <1>5 DEF Arm, Arg
  <1>8. Place(p) = "arm" /\ Goes(p, {x[1]})
    BY <1>6, <1>7, NextAt DEF Arm, Reading
  <1> QED BY <1>6, <1>8

(* A task that ends *)
Leaves(p) ==
    /\ DOMAIN todo' = DOMAIN todo \ {p}
    /\ \A q \in DOMAIN todo' :
          todo'[q] = todo[q] /\ (Place(q))' = Place(q) /\ ((Reads(q))' <=> Reads(q))

(* A task that ends.                                                       *)
LEMMA GoneLeaves ==
    ASSUME Planned, NEW p \in DOMAIN todo, Gone(p)
    PROVE  Leaves(p)
  <1>1. /\ DOMAIN todo' = DOMAIN todo \ {p} /\ \A q \in DOMAIN todo' : todo'[q] = todo[q]
    BY DEF Gone
  <1>2. ASSUME NEW q \in DOMAIN todo'
        PROVE  (Place(q))' = Place(q) /\ ((Reads(q))' <=> Reads(q))
    <2>1. todo'[q] = todo[q]
      BY <1>1
    <2>2. (Place(q))' = PlaceOf(todo'[q]) /\ ((Reads(q))' <=> ReadsOf(todo'[q]))
      BY PlacePrimed
    <2> QED BY <2>1, <2>2 DEF Place, Reads
  <1> QED BY <1>1, <1>2 DEF Leaves

(* Where the background tasks go, step by step.                            *)
LEMMA TaskGoes ==
    ASSUME Planned, NEW p \in DOMAIN todo
    PROVE  /\ Match(p) => Place(p) = "match" /\ (Leaves(p) \/ Goes(p, {"spawn"})) /\ p \in Timer \ Thread
           /\ Spawn(p) => /\ Place(p) = "spawn" /\ p \in Timer \ Thread
                          /\ \/ Leaves(p) /\ UNCHANGED queue
                             \/ /\ Goes(p, {"run"}) /\ queue' = [queue EXCEPT !.active = queue.active + 1]
                                /\ ~queue.closed /\ ~token
           /\ Run(p) => /\ Place(p) = "run" /\ Goes(p, {"deliver", "look", "finish"}) /\ p \in Timer \ Thread
                        /\ p[1] = "update" /\ ~token => (Place(p))' = "look"
           /\ Deliver(p) => Place(p) = "deliver" /\ Goes(p, {"idle", "finish"}) /\ p \in Timer \ Thread
                            /\ p[1] = "refresh"
           /\ Finish(p) => Place(p) = "finish" /\ Leaves(p) /\ p \in Timer \ Thread
  <1>1. ASSUME NEW op \in {"match", "spawn", "run", "deliver", "finish"}, At(p, op)
        PROVE  Place(p) = op /\ p \in Timer \ Thread /\ (op = "deliver" => p[1] = "refresh")
    <2>1. Place(p) = op /\ todo[p][1][1] = op /\ Fits(p, todo[p][1]) /\ p \in Thread \cup Timer
      BY <1>1, PlaceAt
    <2> QED BY <2>1 DEF Fits
  <1>2. ASSUME Match(p)
        PROVE  Place(p) = "match" /\ (Leaves(p) \/ Goes(p, {"spawn"})) /\ p \in Timer \ Thread
    <2>1. Place(p) = "match" /\ p \in Timer \ Thread
      BY <1>1, <1>2 DEF Match
    <2>2. PICK x : x = <<"spawn">>
      OBVIOUS
    <2>3. x \in Steps /\ x[1] = "spawn"
      BY <2>2, InSteps DEF Bare
    <2>4. Gone(p) \/ (Then(p, <<x>>) /\ At(p, "match"))
      BY <1>2, <2>2 DEF Match
    <2>5. Leaves(p) \/ Goes(p, {x[1]})
      BY <2>3, <2>4, GoneLeaves, NextAt DEF Reading
    <2> QED BY <2>1, <2>3, <2>5
  <1>3. ASSUME Spawn(p)
        PROVE  /\ Place(p) = "spawn" /\ p \in Timer \ Thread
               /\ \/ Leaves(p) /\ UNCHANGED queue
                  \/ /\ Goes(p, {"run"}) /\ queue' = [queue EXCEPT !.active = queue.active + 1]
                     /\ ~queue.closed /\ ~token
    <2>1. Place(p) = "spawn" /\ p \in Timer \ Thread
      BY <1>1, <1>3 DEF Spawn
    <2>2. PICK x : x = <<"run">>
      OBVIOUS
    <2>3. x \in Steps /\ x[1] = "run"
      BY <2>2, InSteps DEF Bare
    <2>4. \/ Gone(p) /\ UNCHANGED queue
          \/ /\ Then(p, <<x>>) /\ At(p, "spawn") /\ queue' = [queue EXCEPT !.active = queue.active + 1]
             /\ ~queue.closed /\ ~token
      BY <1>3, <2>2 DEF Spawn
    <2>5. Then(p, <<x>>) /\ At(p, "spawn") => Goes(p, {x[1]})
      BY <2>3, NextAt DEF Reading
    <2> QED BY <2>1, <2>3, <2>4, <2>5, GoneLeaves
  <1>4. ASSUME Run(p)
        PROVE  /\ Place(p) = "run" /\ Goes(p, {"deliver", "look", "finish"}) /\ p \in Timer \ Thread
               /\ p[1] = "update" /\ ~token => (Place(p))' = "look"
    <2>1. Place(p) = "run" /\ p \in Timer \ Thread /\ todo[p] # <<>>
      BY <1>1, <1>4 DEF Run, At
    <2>2. PICK f, x : f = <<"finish", FALSE>>
                      /\ x = IF p[1] = "refresh" THEN <<"deliver">> ELSE <<"look", p>>
      OBVIOUS
    <2>3. f \in Steps /\ x \in Steps /\ f[1] = "finish" /\ x[1] \in {"deliver", "look"}
          /\ (p[1] # "refresh" => x[1] = "look")
      BY <2>1, <2>2, InSteps DEF Bare
    <2>4. CASE token
      <3>1. Then(p, <<>> \o <<f>>)
        BY <1>4, <2>2, <2>4 DEF Run
      <3>2. <<>> \o <<f>> = <<f>>
        OBVIOUS
      <3>3. Goes(p, {f[1]})
        BY <2>1, <2>3, <3>1, <3>2, OneGoes DEF Reading
      <3> QED BY <2>1, <2>3, <2>4, <3>3 DEF Goes
    <2>5. CASE ~token
      <3>1. Then(p, <<x>> \o <<f>>)
        BY <1>4, <2>2, <2>5 DEF Run, Updating
      <3>2. <<x>> \o <<f>> = <<x, f>>
        BY Join
      <3>3. <<x, f>> \in Seq(Steps) /\ <<x, f>> # <<>> /\ <<x, f>>[1] = x /\ <<x, f>>[2] = f /\ Len(<<x, f>>) = 2
        BY <2>3
      <3>4. ~ReadsOf(<<x, f>>)
        <4>1. \A i \in 1 .. 2 : i = 1 \/ i = 2
          OBVIOUS
        <4> QED BY <4>1, <3>3, <2>3 DEF ReadsOf, Reading
      <3>5. Others(p) /\ ((Reads(p))' => Reads(p)) /\ (Place(p))' = x[1]
        BY <2>1, <2>3, <3>1, <3>2, <3>3, <3>4, ThenGoes
      <3> QED BY <2>1, <2>3, <3>5 DEF Goes
    <2> QED BY <2>4, <2>5
  <1>5. ASSUME Deliver(p)
        PROVE  Place(p) = "deliver" /\ Goes(p, {"idle", "finish"}) /\ p \in Timer \ Thread /\ p[1] = "refresh"
    <2>1. Place(p) = "deliver" /\ p \in Timer \ Thread /\ p[1] = "refresh"
      BY <1>1, <1>5 DEF Deliver
    <2>2. Goes(p, After("deliver"))
      BY <1>5, DoneAt DEF Deliver
    <2> QED BY <2>1, <2>2 DEF After, Update_
  <1>6. ASSUME Finish(p)
        PROVE  Place(p) = "finish" /\ Leaves(p) /\ p \in Timer \ Thread
    BY <1>1, <1>6, GoneLeaves DEF Finish
  <1> QED BY <1>2, <1>3, <1>4, <1>5, <1>6

(* Where a thread goes that looks for work: away, or on with the update    *)
(* lock.                                                                   *)
LEMMA LookGoes ==
    ASSUME Planned, NEW p \in DOMAIN todo, Look(p)
    PROVE  /\ Place(p) = "look" /\ update = Nil /\ todo[p][1][2] = (IF p \in Thread THEN Nil ELSE p)
           /\ \/ snapshot = Nil /\ UNCHANGED update /\ Goes(p, {"idle", "rollback", "finish"})
              \/ /\ snapshot # Nil /\ p \notin Thread /\ ~Matches(p) /\ UNCHANGED update
                 /\ Goes(p, {"idle", "settle", "finish"})
              \/ /\ snapshot # Nil /\ (p \notin Thread => Matches(p)) /\ update' = p /\ Goes(p, {"begin"})
                 /\ Then(p, Begin(todo[p][1][2])) /\ Len(todo'[p]) > 1 /\ todo'[p][2][1] = "take"
  <1>1. /\ Place(p) = "look" /\ todo[p] # <<>> /\ todo[p][1][1] = "look" /\ Head(todo[p]) = todo[p][1]
        /\ todo[p][1] \in Steps /\ Fits(p, todo[p][1]) /\ p \in Thread \cup Timer
    BY PlaceAt DEF Look
  <1>2. todo[p][1][2] = (IF p \in Thread THEN Nil ELSE p) /\ todo[p][1][2] \in Timer \cup {Nil}
    BY <1>1, StepKinds DEF Fits
  <1>3. PICK t : t = todo[p][1][2]
    OBVIOUS
  <1>4. t # Nil <=> p \notin Thread
    BY <1>1, <1>2, <1>3, SessionAssumption
  <1>5. /\ update = Nil
        /\ \/ snapshot = Nil /\ Failing(p, <<>>) /\ UNCHANGED update
           \/ snapshot # Nil /\ t # Nil /\ ~Matches(t) /\ Then(p, <<>>) /\ UNCHANGED update
           \/ snapshot # Nil /\ (t # Nil => Matches(t)) /\ Then(p, Begin(t)) /\ update' = p
    BY <1>1, <1>3 DEF Look, Arg
  <1>6. CASE snapshot = Nil /\ Failing(p, <<>>) /\ UNCHANGED update
    <2>1. PICK y : y = Failed(todo[p])
      OBVIOUS
    <2>2. /\ Len(todo[p]) \in {1, 2}
          /\ todo' = [todo EXCEPT ![p] = <<>> \o (IF Len(todo[p]) = 1 THEN <<>> ELSE <<y>>)]
          /\ Len(todo[p]) = 2 => y \in Steps /\ y[1] \in {"rollback", "finish"}
      BY <1>1, <1>6, <2>1, FailingRest DEF Update_
    <2>3. CASE Len(todo[p]) = 1
      <3>1. todo' = [todo EXCEPT ![p] = <<>>]
        BY <2>2, <2>3
      <3>2. Goes(p, {"idle"})
        BY <3>1, ReturnGoes DEF Return
      <3> QED BY <3>2, <1>1, <1>2, <1>5, <1>6 DEF Goes
    <2>4. CASE Len(todo[p]) = 2
      <3>1. <<>> \o <<y>> = <<y>>
        OBVIOUS
      <3>2. todo' = [todo EXCEPT ![p] = <<y>>]
        BY <2>2, <2>4, <3>1
      <3>3. <<y>> # <<>> /\ Len(<<y>>) = 1 /\ <<y>>[1] = y
        OBVIOUS
      <3>4. ~ReadsOf(<<y>>) /\ PlaceOf(<<y>>) = y[1]
        BY <2>2, <2>4, <3>3 DEF ReadsOf, PlaceOf, Reading
      <3>5. Others(p) /\ (Place(p))' = PlaceOf(<<y>>) /\ ((Reads(p))' <=> ReadsOf(<<y>>))
        BY <3>2, NewGoes
      <3>6. Goes(p, {"idle", "rollback", "finish"})
        BY <2>2, <2>4, <3>4, <3>5 DEF Goes
      <3> QED BY <3>6, <1>1, <1>2, <1>5, <1>6
    <2> QED BY <2>2, <2>3, <2>4
  <1>7. CASE snapshot # Nil /\ t # Nil /\ ~Matches(t) /\ Then(p, <<>>) /\ UNCHANGED update
    <2>1. Goes(p, After("look"))
      BY <1>1, <1>7, DoneGoes
    <2>2. t = p /\ p \notin Thread
      BY <1>2, <1>3, <1>4, <1>7
    <2>3. Goes(p, {"idle", "settle", "finish"})
      BY <2>1 DEF After, Update_
    <2>4. ~Matches(p)
      BY <1>7, <2>2
    <2> QED BY <1>1, <1>2, <1>5, <1>7, <2>2, <2>3, <2>4
  <1>8. CASE snapshot # Nil /\ (t # Nil => Matches(t)) /\ Then(p, Begin(t)) /\ update' = p
    <2>1. PICK x, y : x = <<"cancel", "update">> /\ y = <<"take", t>>
      OBVIOUS
    <2>2. x \in Steps /\ y \in Steps /\ x[1] = "cancel" /\ y[1] = "take"
      BY <1>2, <1>3, <2>1, InSteps DEF Timed, Kind
    <2>3. <<x, y>> \in Seq(Steps) /\ Len(<<x, y>>) = 2 /\ <<x, y>>[1] = x /\ <<x, y>>[2] = y /\ <<x, y>> # <<>>
      BY <2>2
    <2>4. Then(p, <<x, y>>)
      BY <1>8, <2>1 DEF Begin
    <2>10. PICK z : z = <<x, y>>
      OBVIOUS
    <2>11. z \in Seq(Steps) /\ Len(z) > 1 /\ z[1] = x /\ z[2] = y /\ z # <<>> /\ Then(p, z)
      BY <2>3, <2>4, <2>10
    <2>5. /\ Others(p) /\ ((Reads(p))' => ReadsOf(z) \/ Reads(p))
          /\ todo'[p] # <<>> /\ todo'[p][1] = x /\ Len(todo'[p]) > 1 /\ todo'[p][2] = y
      BY <1>1, <2>11, ThenGoes
    <2>6. ~ReadsOf(z)
      <3>1. \A i \in 1 .. 2 : i = 1 \/ i = 2
        OBVIOUS
      <3> QED BY <3>1, <2>2, <2>3, <2>10 DEF ReadsOf, Reading
    <2>7. PlaceOf(todo'[p]) = "begin"
      BY <2>2, <2>5 DEF PlaceOf, Second
    <2>8. Goes(p, {"begin"})
      BY <2>5, <2>6, <2>7, PlacePrimed DEF Goes
    <2>9. p \notin Thread => Matches(p)
      BY <1>2, <1>3, <1>4, <1>8
    <2> QED BY <1>1, <1>2, <1>3, <1>5, <1>8, <2>2, <2>5, <2>8, <2>9
  <1> QED BY <1>5, <1>6, <1>7, <1>8

(* An update takes what is pending, or finds nothing to do.                *)
LEMMA TakeGoes ==
    ASSUME Planned, NEW p \in DOMAIN todo, NEW need \in BOOLEAN, Take(p, need)
    PROVE  /\ Place(p) = "take"
           /\ \/ update' = Nil /\ UNCHANGED work /\ Goes(p, {"idle", "settle", "finish"}) /\ pending = Empty
                 /\ Then(p, <<>>)
              \/ taken' = pending /\ pending' = Empty /\ UNCHANGED update /\ Goes(p, {"build"})
                 /\ Then(p, << <<"build">> >>)
  <1>1. At(p, "take")
    BY DEF Take
  <1>2. Place(p) = "take"
    BY <1>1, PlaceAt
  <1>3. Then(p, <<>>) => Goes(p, {"idle", "settle", "finish"})
    <2>1. Then(p, <<>>) => Goes(p, After("take"))
      BY <1>1, DoneAt
    <2> QED BY <2>1 DEF After, Update_
  <1>4. Then(p, << <<"build">> >>) => Goes(p, {"build"})
    <2>1. PICK x : x = <<"build">>
      OBVIOUS
    <2>2. x \in Steps /\ x[1] = "build"
      BY <2>1, InSteps DEF Bare
    <2>3. Then(p, <<x>>) => Goes(p, {x[1]})
      BY <1>1, <2>2, NextAt DEF Reading
    <2> QED BY <2>1, <2>2, <2>3
  <1> QED BY <1>2, <1>3, <1>4 DEF Take

(* A build succeeds, or what was taken has to be restored.                 *)
LEMMA BuildGoes ==
    ASSUME Planned, NEW p \in DOMAIN todo, NEW outcome \in {"ok", "error", "panic"}, Build(p, outcome)
    PROVE  /\ Place(p) = "build" /\ outcome = "ok" => Goes(p, {"publish"})
           /\ Place(p) = "build" /\ Goes(p, {"publish", "restore"})
  <1>1. Place(p) = "build" /\ todo[p] # <<>> /\ todo[p][1][1] = "build"
    BY PlaceAt DEF Build
  <1>2. CASE outcome = "ok"
    <2>1. PICK x : x = <<"publish">>
      OBVIOUS
    <2>2. x \in Steps /\ x[1] = "publish" /\ Then(p, <<x>>)
      BY <1>2, <2>1, InSteps DEF Bare, Build
    <2>3. Goes(p, {x[1]})
      BY <1>1, <2>2, OneGoes DEF Reading
    <2> QED BY <1>1, <2>2, <2>3 DEF Goes
  <1>3. CASE outcome \in {"error", "panic"}
    <2>1. PICK r, y, z : /\ r = <<"restore">> /\ y = <<"finish", TRUE>> /\ z = Failed(todo[p])
      OBVIOUS
    <2>2. r[1] = "restore" /\ y[1] = "finish"
      BY <2>1
    <2>3. \/ todo' = [todo EXCEPT ![p] = <<r>> \o <<>>]
          \/ todo' = [todo EXCEPT ![p] = <<r>> \o <<y>>]
          \/ todo' = [todo EXCEPT ![p] = <<r>> \o <<z>>] /\ z[1] \in {"rollback", "finish"}
      <3>1. CASE outcome = "panic"
        BY <2>1, <3>1 DEF Build
      <3>2. CASE outcome = "error"
        <4>1. Failing(p, <<r>>)
          BY <2>1, <3>2 DEF Build
        <4>2. /\ Len(todo[p]) \in {1, 2}
              /\ todo' = [todo EXCEPT ![p] = <<r>> \o (IF Len(todo[p]) = 1 THEN <<>> ELSE <<z>>)]
              /\ Len(todo[p]) = 2 => z[1] \in {"rollback", "finish"}
          BY <1>1, <2>1, <4>1, FailingRest DEF Update_
        <4> QED BY <4>2
      <3> QED BY <1>3, <3>1, <3>2
    <2>4. PICK v : v = IF todo' = [todo EXCEPT ![p] = <<r>> \o <<y>>] THEN y ELSE z
      OBVIOUS
    <2>5. CASE todo' = [todo EXCEPT ![p] = <<r>> \o <<>>]
      <3>1. <<r>> \o <<>> = <<r>>
        OBVIOUS
      <3>2. todo' = [todo EXCEPT ![p] = <<r>>]
        BY <2>5, <3>1
      <3>3. <<r>> # <<>> /\ Len(<<r>>) = 1 /\ <<r>>[1] = r
        OBVIOUS
      <3>4. ~ReadsOf(<<r>>) /\ PlaceOf(<<r>>) = "restore"
        BY <2>2, <3>3 DEF ReadsOf, PlaceOf, Reading
      <3>5. Others(p) /\ (Place(p))' = PlaceOf(<<r>>) /\ ((Reads(p))' <=> ReadsOf(<<r>>))
        BY <3>2, NewGoes
      <3> QED BY <1>1, <1>3, <3>4, <3>5 DEF Goes
    <2>6. CASE ~(todo' = [todo EXCEPT ![p] = <<r>> \o <<>>])
      <3>0. v[1] \in {"rollback", "finish"} /\ todo' = [todo EXCEPT ![p] = <<r>> \o <<v>>]
        BY <2>2, <2>3, <2>4, <2>6
      <3>1. todo' = [todo EXCEPT ![p] = <<r, v>>]
        BY <3>0, Join
      <3>2. Len(<<r, v>>) = 2 /\ <<r, v>>[1] = r /\ <<r, v>>[2] = v /\ <<r, v>> # <<>>
        OBVIOUS
      <3>3. ~ReadsOf(<<r, v>>) /\ PlaceOf(<<r, v>>) = "restore"
        <4>1. \A i \in 1 .. 2 : i = 1 \/ i = 2
          OBVIOUS
        <4> QED BY <2>2, <3>0, <3>2, <4>1 DEF ReadsOf, PlaceOf, Reading
      <3>4. Others(p) /\ (Place(p))' = PlaceOf(<<r, v>>) /\ ((Reads(p))' <=> ReadsOf(<<r, v>>))
        BY <3>1, NewGoes
      <3> QED BY <1>1, <1>3, <3>3, <3>4 DEF Goes
    <2> QED BY <2>5, <2>6
  <1> QED BY <1>2, <1>3

(* What is published is announced next.                                    *)
LEMMA PublishGoes ==
    ASSUME Planned, NEW p \in DOMAIN todo, Publish(p)
    PROVE  Place(p) = "publish" /\ Goes(p, {"announce"})
  <1>1. PICK x : x = <<"announce">>
    OBVIOUS
  <1>2. x \in Steps /\ x[1] = "announce" /\ Then(p, <<x>>)
    BY <1>1, InSteps DEF Bare, Publish
  <1>3. Place(p) = "publish" /\ Goes(p, {x[1]})
    BY <1>2, NextAt DEF Publish, Reading
  <1> QED BY <1>2, <1>3

(* Where a call begins.                                                    *)
LEMMA CallGoes ==
    ASSUME Planned, NEW p \in Thread, NEW op \in Calls, NEW f \in File, Call(p, op, f)
    PROVE  /\ Place(p) = "idle" /\ Goes(p, {"enqueue", "watched", "look", "apply", "lock"})
           /\ p \in DOMAIN todo /\ todo'[p] = Program(op, f) /\ op \in Does[p]
  <1>1. p \in DOMAIN todo /\ todo' = [todo EXCEPT ![p] = Program(op, f)] /\ op \in Does[p] /\ todo[p] = <<>>
    BY DEF Planned, Call
  <1>2. PICK z : z = Program(op, f)
    OBVIOUS
  <1>3. /\ z # <<>> /\ z[1][1] \in {"enqueue", "watched", "look", "apply", "lock"}
        /\ \A i \in 1 .. Len(z) : z[i][1] \notin Reading \cup Applied
    BY <1>1, <1>2, ProgramPlan
  <1>4. PlaceOf(z) = z[1][1] /\ ~ReadsOf(z)
    BY <1>3 DEF PlaceOf, ReadsOf
  <1>5. Others(p) /\ todo'[p] = z /\ (Place(p))' = PlaceOf(z) /\ ((Reads(p))' <=> ReadsOf(z))
    BY <1>1, <1>2, NewGoes
  <1>6. Goes(p, {"enqueue", "watched", "look", "apply", "lock"})
    BY <1>3, <1>4, <1>5 DEF Goes
  <1>7. Place(p) = "idle"
    BY <1>1 DEF Place, PlaceOf
  <1> QED BY <1>1, <1>2, <1>5, <1>6, <1>7

(* A timer that fires *)
Enters(t) ==
    /\ DOMAIN todo' = DOMAIN todo \cup {t} /\ (Place(t))' = "match" /\ ~(Reads(t))'
    /\ \A q \in DOMAIN todo : q # t =>
          todo'[q] = todo[q] /\ (Place(q))' = Place(q) /\ ((Reads(q))' <=> Reads(q))

(* A timer that fires is a new task.                                       *)
LEMMA FireEnters ==
    ASSUME NEW t \in armed, Fire(t)
    PROVE  Enters(t)
  <1>1. PICK x : x = <<"match">>
    OBVIOUS
  <1>2. /\ DOMAIN todo' = DOMAIN todo \cup {t} /\ todo'[t] = <<x>>
        /\ \A q \in DOMAIN todo : q # t => todo'[q] = todo[q]
    BY <1>1 DEF Fire
  <1>3. <<x>> # <<>> /\ Len(<<x>>) = 1 /\ <<x>>[1] = x /\ x[1] = "match"
    BY <1>1
  <1>4. PlaceOf(<<x>>) = "match" /\ ~ReadsOf(<<x>>)
    BY <1>3 DEF PlaceOf, ReadsOf, Reading
  <1>5. (Place(t))' = "match" /\ ~(Reads(t))'
    BY <1>2, <1>4, PlacePrimed
  <1>6. ASSUME NEW q \in DOMAIN todo, q # t
        PROVE  (Place(q))' = Place(q) /\ ((Reads(q))' <=> Reads(q))
    <2>1. todo'[q] = todo[q]
      BY <1>2, <1>6
    <2>2. (Place(q))' = PlaceOf(todo'[q]) /\ ((Reads(q))' <=> ReadsOf(todo'[q]))
      BY PlacePrimed
    <2> QED BY <2>1, <2>2 DEF Place, Reads
  <1> QED BY <1>2, <1>5, <1>6 DEF Enters

----------------------------------------------------------------------------
(* The locks *)

(* A step that takes and leaves no lock *)
LEMMA LocksStay ==
    ASSUME Locks, NEW p \in DOMAIN todo, Others(p), UNCHANGED <<snapshot, update, taken>>,
           (Place(p))' \in Holds => Place(p) \in Holds,
           (Place(p))' \in Locked => Place(p) \in Locked,
           (Place(p))' \in Builds <=> Place(p) \in Builds,
           \A q \in DOMAIN todo : (Reads(q))' => q \in readers',
           readers' # {} => snapshot # Nil
    PROVE  Locks'
  <1>1. /\ \A q \in DOMAIN todo : Place(q) \in Holds => update = q /\ snapshot # Nil
        /\ \A q \in DOMAIN todo : Place(q) \in Locked => update = q
        /\ \A q \in DOMAIN todo : Place(q) \in Builds => taken # Nil
        /\ taken # Nil => update \in DOMAIN todo /\ Place(update) \in Builds
    BY DEF Locks
  <1>2. DOMAIN todo' = DOMAIN todo /\ \A q \in DOMAIN todo : q # p => (Place(q))' = Place(q)
    BY DEF Others
  <1>3. ASSUME NEW q \in DOMAIN todo
        PROVE  /\ (Place(q))' \in Holds => Place(q) \in Holds
               /\ (Place(q))' \in Locked => Place(q) \in Locked
               /\ (Place(q))' \in Builds <=> Place(q) \in Builds
    BY <1>2
  <1>5. taken' # Nil => update' \in DOMAIN todo' /\ (Place(update))' \in Builds
    BY <1>1, <1>2, <1>3
  <1> QED BY <1>1, <1>2, <1>3, <1>5 DEF Locks

(* A thread goes on without the locks. *)
LEMMA LocksGo ==
    ASSUME Locks, NEW p \in DOMAIN todo, NEW S, Goes(p, S), UNCHANGED <<snapshot, update, taken, readers>>,
           Place(p) \notin Builds, S \cap (Holds \cup Locked) = {}
    PROVE  Locks'
  <1>1. (Place(p))' \notin Holds \cup Locked /\ Others(p)
    BY DEF Goes
  <1>2. \A q \in DOMAIN todo : (Reads(q))' => Reads(q)
    BY DEF Goes, Others
  <1>3. (\A q \in DOMAIN todo : Reads(q) => q \in readers) /\ (readers # {} => snapshot # Nil)
    BY DEF Locks
  <1> QED BY <1>1, <1>2, <1>3, LocksStay DEF Holds

(* A task goes. *)
LEMMA LocksLeave ==
    ASSUME Locks, NEW p \in DOMAIN todo, Leaves(p), Place(p) \notin Builds,
           UNCHANGED <<snapshot, update, taken, readers>>
    PROVE  Locks'
  <1>1. DOMAIN todo' = DOMAIN todo \ {p}
        /\ \A q \in DOMAIN todo' : (Place(q))' = Place(q) /\ ((Reads(q))' <=> Reads(q))
    BY DEF Leaves
  <1>2. taken' # Nil => update' \in DOMAIN todo' /\ (Place(update))' \in Builds
    BY <1>1 DEF Locks
  <1> QED BY <1>1, <1>2 DEF Locks

(* Nobody holds a lock at first.                                           *)
LEMMA LocksInit == Init => Locks
  <1> SUFFICES ASSUME Init PROVE Locks
    OBVIOUS
  <1>1. \A p \in DOMAIN todo : todo[p] = <<>>
    BY DEF Init
  <1>2. PlaceOf(<<>>) = "idle" /\ ~ReadsOf(<<>>)
    <2>1. Len(<<>>) = 0
      OBVIOUS
    <2> QED BY <2>1 DEF PlaceOf, ReadsOf
  <1>3. \A p \in DOMAIN todo : Place(p) = "idle" /\ ~Reads(p)
    BY <1>1, <1>2 DEF Place, Reads
  <1> QED BY <1>3 DEF Init, Locks, Holds, Locked, Builds, PastShut, PastClear, PastStop, PastUpdate,
                      PastIdle, PastRefresh

(* The locks are kept by the steps of the notifications.                   *)
LEMMA NotifyingLocks ==
    ASSUME Planned, Locks, NEW p \in DOMAIN todo, Notifying(p)
    PROVE  Locks'
  <1> USE DEF Holds, Locked, Builds, PastShut, PastClear, PastStop, PastUpdate, PastIdle, PastRefresh
  <1>0. (\A q \in DOMAIN todo : Reads(q) => q \in readers) /\ (readers # {} => snapshot # Nil)
    BY DEF Locks
  <1>1. ASSUME NEW mapped \in BOOLEAN, Enqueue(p, mapped)
        PROVE  Locks'
    <2>1. UNCHANGED <<snapshot, update, taken>>
      BY <1>1 DEF Enqueue, Refused, work
    <2>2. CASE snapshot = Nil
      <3>1. Goes(p, {"idle"}) /\ UNCHANGED readers /\ Place(p) = "enqueue"
        BY <1>1, <2>2, EnqueueGoes
      <3> QED BY <2>1, <3>1, LocksGo
    <2>3. CASE snapshot # Nil
      <3>1. /\ Others(p) /\ (Place(p))' \in {"schedule", "cancel", "push"} /\ Place(p) = "enqueue"
            /\ readers' = readers \cup {p}
        BY <1>1, <2>3, EnqueueGoes
      <3>2. \A q \in DOMAIN todo : (Reads(q))' => q \in readers'
        BY <1>0, <3>1 DEF Others
      <3> QED BY <2>1, <2>3, <3>1, <3>2, LocksStay
    <2> QED BY <2>2, <2>3
  <1>2. ASSUME NEW relevant \in BOOLEAN, NEW config \in BOOLEAN, Watched(p, relevant, config)
        PROVE  Locks'
    <2>1. UNCHANGED <<snapshot, update, taken>>
      BY <1>2 DEF Watched, Refused, work
    <2>2. CASE snapshot = Nil
      <3>1. Goes(p, {"idle"}) /\ UNCHANGED readers /\ Place(p) = "watched"
        BY <1>2, <2>2, WatchedGoes
      <3> QED BY <2>1, <3>1, LocksGo
    <2>3. CASE snapshot # Nil
      <3>1. /\ Others(p) /\ (Place(p))' = "schedule" /\ Place(p) = "watched"
            /\ readers' = readers \cup {p}
        BY <1>2, <2>3, WatchedGoes
      <3>2. \A q \in DOMAIN todo : (Reads(q))' => q \in readers'
        BY <1>0, <3>1 DEF Others
      <3> QED BY <2>1, <2>3, <3>1, <3>2, LocksStay
    <2> QED BY <2>2, <2>3
  <1>3. ASSUME NEW op \in Reading, At(p, op), Then(p, <<>>), readers' = readers \ {p},
               UNCHANGED <<snapshot, update, taken>>
        PROVE  Locks'
    <2>1. Place(p) = op /\ Goes(p, After(op)) /\ ~(Reads(p))'
      BY <1>3, DoneAt DEF Reading
    <2>2. Others(p) /\ (Place(p))' \in {"idle", "schedule"}
      BY <2>1 DEF Goes, After, Update_, Reading
    <2>3. \A q \in DOMAIN todo : (Reads(q))' => q \in readers'
      BY <1>0, <1>3, <2>1, <2>2 DEF Others
    <2>4. readers' # {} => snapshot # Nil
      BY <1>0, <1>3
    <2> QED BY <1>3, <2>1, <2>2, <2>3, <2>4, LocksStay DEF Reading
  <1>4. CASE Push(p)
    BY <1>3, <1>4 DEF Push, Reading
  <1>5. CASE Unread(p)
    BY <1>3, <1>5 DEF Unread, Reading, work
  <1>6. CASE Apply(p)
    <2>1. UNCHANGED <<snapshot, update, taken, readers>>
      BY <1>6 DEF Apply, Refused, work
    <2>2. Place(p) = "apply" /\ (Goes(p, {"idle"}) \/ Goes(p, {"look"}))
      BY <1>6, ApplyGoes
    <2> QED BY <2>1, <2>2, LocksGo
  <1>7. CASE Settle(p)
    <2>1. UNCHANGED <<snapshot, update, taken, readers>>
      BY <1>7 DEF Settle, work
    <2>2. Place(p) = "settle" /\ Goes(p, After("settle"))
      BY <1>7, DoneAt DEF Settle
    <2>3. Goes(p, {"idle"})
      BY <2>2 DEF After, Update_
    <2> QED BY <2>1, <2>2, <2>3, LocksGo
  <1>8. CASE Rollback(p)
    <2>1. UNCHANGED <<snapshot, update, taken, readers>>
      BY <1>8 DEF Rollback, work
    <2>2. Place(p) = "rollback" /\ Goes(p, After("rollback"))
      BY <1>8, DoneAt DEF Rollback
    <2>3. Goes(p, {"idle"})
      BY <2>2 DEF After, Update_
    <2> QED BY <2>1, <2>2, <2>3, LocksGo
  <1> QED BY <1>1, <1>2, <1>4, <1>5, <1>6, <1>7, <1>8 DEF Notifying

(* The locks are kept by the steps of the timers.                          *)
LEMMA TimingLocks ==
    ASSUME Planned, TypeOK, Locks, NEW p \in DOMAIN todo, Timing(p)
    PROVE  Locks'
  <1> USE DEF Holds, Locked, Builds, PastShut, PastClear, PastStop, PastUpdate, PastIdle, PastRefresh
  <1>0. UNCHANGED <<snapshot, update, taken, readers>>
    BY DEF Timing, Cancel, Schedule, Arm, Store, work
  <1>1. CASE Cancel(p)
    <2>1. Goes(p, After(Place(p))) /\ Place(p) \in {"begin", "endUpdate", "endIdle", "endRefresh", "cancel"}
      BY <1>1, CancelGoes
    <2>2. Others(p) /\ (Place(p))' \in After(Place(p)) /\ ((Reads(p))' => Reads(p))
      BY <2>1 DEF Goes
    <2>3. /\ (Place(p))' \in Holds => Place(p) \in Holds
          /\ (Place(p))' \in Locked => Place(p) \in Locked
          /\ (Place(p))' \notin Builds /\ Place(p) \notin Builds
      BY <2>1, <2>2 DEF After, Update_
    <2>4. \A q \in DOMAIN todo : (Reads(q))' => q \in readers'
      BY <1>0, <2>2 DEF Others, Locks
    <2>5. readers' # {} => snapshot # Nil
      BY <1>0 DEF Locks
    <2> QED BY <1>0, <2>2, <2>3, <2>4, <2>5, LocksStay
  <1>2. CASE Schedule(p)
    BY <1>0, <1>2, ScheduleGoes, LocksGo
  <1>3. CASE Arm(p)
    BY <1>0, <1>3, ArmGoes, LocksGo
  <1>4. CASE Store(p)
    <2>1. Place(p) = "store" /\ Goes(p, After("store"))
      BY <1>4, DoneAt DEF Store
    <2>2. Goes(p, {"idle", "schedule", "push", "unread", "look"})
      BY <2>1 DEF After, Update_
    <2> QED BY <1>0, <2>1, <2>2, LocksGo
  <1> QED BY <1>1, <1>2, <1>3, <1>4 DEF Timing

(* The locks are kept by the steps of the background tasks.                *)
LEMMA TaskingLocks ==
    ASSUME Planned, Locks, NEW p \in DOMAIN todo, Tasking(p)
    PROVE  Locks'
  <1> USE DEF Holds, Locked, Builds, PastShut, PastClear, PastStop, PastUpdate, PastIdle, PastRefresh
  <1>0. UNCHANGED <<snapshot, update, taken, readers>>
    BY DEF Tasking, Match, Spawn, Run, Deliver, Finish, work
  <1>1. CASE Match(p)
    BY <1>0, <1>1, TaskGoes, LocksGo, LocksLeave
  <1>2. CASE Spawn(p)
    BY <1>0, <1>2, TaskGoes, LocksGo, LocksLeave
  <1>3. CASE Run(p)
    BY <1>0, <1>3, TaskGoes, LocksGo
  <1>4. CASE Deliver(p)
    BY <1>0, <1>4, TaskGoes, LocksGo
  <1>5. CASE Finish(p)
    BY <1>0, <1>5, TaskGoes, LocksLeave
  <1> QED BY <1>1, <1>2, <1>3, <1>4, <1>5 DEF Tasking

(* The locks are kept by the steps of an update.                           *)
LEMMA UpdatingLocks ==
    ASSUME Planned, TypeOK, Locks, NEW p \in DOMAIN todo, UpdatingStep(p), Nil \notin DOMAIN todo
    PROVE  Locks'
  <1> USE DEF Holds, Locked, Builds, PastShut, PastClear, PastStop, PastUpdate, PastIdle, PastRefresh
  <1>0. /\ \A q \in DOMAIN todo : Place(q) \in Holds => update = q /\ snapshot # Nil
        /\ \A q \in DOMAIN todo : Place(q) \in Locked => update = q
        /\ \A q \in DOMAIN todo : Place(q) \in Builds => taken # Nil
        /\ taken # Nil => update \in DOMAIN todo /\ Place(update) \in Builds
        /\ \A q \in DOMAIN todo : Reads(q) => q \in readers
        /\ readers # {} => snapshot # Nil
    BY DEF Locks
  (* The locks, from what the step does with them. *)
  <1>k. ASSUME NEW S, Goes(p, S), UNCHANGED readers,
               S \cap Holds # {} => S \subseteq Holds /\ update' = p /\ snapshot' # Nil,
               S \cap Locked = {},
               \A q \in DOMAIN todo : q # p => Place(q) \notin Holds \cup Locked,
               \/ S \subseteq Builds /\ taken' # Nil
               \/ S \cap Builds = {} /\ taken' = Nil,
               snapshot # Nil => snapshot' # Nil
        PROVE  Locks'
    <2>1. /\ DOMAIN todo' = DOMAIN todo /\ (Place(p))' \in S
          /\ \A q \in DOMAIN todo : q # p => (Place(q))' = Place(q)
          /\ \A q \in DOMAIN todo : (Reads(q))' => Reads(q)
      BY <1>k DEF Goes, Others
    <2>2. \A q \in DOMAIN todo : (Place(q))' \in Holds => q = p /\ update' = q /\ snapshot' # Nil
      BY <1>k, <2>1
    <2>3. \A q \in DOMAIN todo : (Place(q))' \notin Locked
      BY <1>k, <2>1
    <2>4. \A q \in DOMAIN todo : (Place(q))' \in Builds => taken' # Nil
      BY <1>k, <2>1, <2>2
    <2>5. taken' # Nil => update' = p /\ (Place(p))' \in Builds
      BY <1>k, <2>1, <2>2
    <2>6. taken' # Nil => update' \in DOMAIN todo' /\ (Place(update))' \in Builds
      BY <2>1, <2>5
    <2>7. \A q \in DOMAIN todo : (Reads(q))' => q \in readers'
      BY <1>0, <1>k, <2>1
    <2>8. readers' # {} => snapshot' # Nil
      BY <1>0, <1>k
    <2> QED BY <2>1, <2>2, <2>3, <2>4, <2>6, <2>7, <2>8 DEF Locks
  <1>1. CASE Look(p)
    <2>1. UNCHANGED <<snapshot, taken, readers>>
      BY <1>1 DEF Look, work
    <2>2. Place(p) = "look" /\ update = Nil
      BY <1>1, LookGoes
    <2>3. CASE UNCHANGED update /\ (Goes(p, {"idle", "rollback", "finish"}) \/ Goes(p, {"idle", "settle", "finish"}))
      BY <2>1, <2>2, <2>3, LocksGo
    <2>4. CASE snapshot # Nil /\ update' = p /\ Goes(p, {"begin"})
      <3>1. taken = Nil
        BY <1>0, <2>2
      <3>2. \A q \in DOMAIN todo : Place(q) \notin Holds \cup Locked
        BY <1>0, <2>2
      <3> QED BY <1>k, <2>1, <2>4, <3>1, <3>2
    <2> QED BY <1>1, <2>3, <2>4, LookGoes
  <1>2. ASSUME NEW need \in BOOLEAN, Take(p, need)
        PROVE  Locks'
    <2>1. UNCHANGED <<snapshot, readers>>
      BY <1>2 DEF Take
    <2>2. Place(p) = "take" /\ update = p /\ snapshot # Nil /\ taken = Nil
      BY <1>0, <1>2, TakeGoes
    <2>3. \A q \in DOMAIN todo : q # p => Place(q) \notin Holds \cup Locked
      BY <1>0, <2>2
    <2>4. CASE update' = Nil /\ UNCHANGED work /\ Goes(p, {"idle", "settle", "finish"})
      BY <1>k, <2>1, <2>2, <2>3, <2>4 DEF work
    <2>5. CASE taken' = pending /\ UNCHANGED update /\ Goes(p, {"build"})
      <3>1. pending # Nil
        BY SessionAssumption DEF TypeOK
      <3> QED BY <1>k, <2>1, <2>2, <2>3, <2>5, <3>1
    <2> QED BY <1>2, <2>4, <2>5, TakeGoes
  <1>3. ASSUME NEW outcome \in {"ok", "error", "panic"}, Build(p, outcome)
        PROVE  Locks'
    <2>1. UNCHANGED <<snapshot, readers, update, taken>>
      BY <1>3 DEF Build, work
    <2>2. Place(p) = "build" /\ update = p /\ snapshot # Nil /\ taken # Nil /\ Goes(p, {"publish", "restore"})
      BY <1>0, <1>3, BuildGoes
    <2>3. \A q \in DOMAIN todo : q # p => Place(q) \notin Holds \cup Locked
      BY <1>0, <2>2
    <2> QED BY <1>k, <2>1, <2>2, <2>3
  <1>4. CASE Publish(p)
    <2>1. /\ Place(p) = "publish" /\ update = p /\ Goes(p, {"announce"}) /\ UNCHANGED <<readers, update>>
          /\ taken' = Nil
      BY <1>0, <1>4, PublishGoes DEF Publish
    <2>2. \A q \in DOMAIN todo : q # p => Place(q) \notin Holds \cup Locked
      BY <1>0, <2>1
    <2>3. snapshot' # Nil
      <3>4. snapshot # Nil /\ taken # Nil
        BY <1>0, <2>1
      <3>5. /\ snapshot.changes \in Seq(Nat) /\ snapshot.inferred \in Nat
            /\ taken.changes \in Seq(Change) /\ taken.inferred \in Nat \cup {Nil}
        BY <3>4, PendingParts
      <3>6. snapshot.changes \o Serials(taken.changes) \in Seq(Nat)
        BY <3>5, SerialsType
      <3>7. snapshot' \in Snapshot
        BY <1>4, <3>5, <3>6 DEF Publish, Snapshot
      <3> QED BY <3>7, SessionAssumption
    <2> QED BY <1>k, <2>1, <2>2, <2>3
  <1>5. CASE Announce(p)
    <2>1. Place(p) = "announce" /\ Goes(p, After("announce"))
      BY <1>5, DoneAt DEF Announce
    <2>2. Goes(p, {"idle", "settle", "finish"})
      BY <2>1 DEF After, Update_
    <2>3. update = p /\ taken = Nil /\ UNCHANGED <<readers, snapshot, taken>>
      BY <1>0, <1>5, <2>1 DEF Announce, work
    <2>4. \A q \in DOMAIN todo : q # p => Place(q) \notin Holds \cup Locked
      BY <1>0, <2>3
    <2> QED BY <1>k, <2>2, <2>3, <2>4
  <1>6. CASE Restore(p)
    <2>1. Place(p) = "restore" /\ Goes(p, After("restore"))
      BY <1>6, DoneAt DEF Restore
    <2>2. Goes(p, {"idle", "rollback", "finish"})
      BY <2>1 DEF After, Update_
    <2>3. update = p /\ taken' = Nil /\ UNCHANGED <<readers, snapshot>>
      BY <1>0, <1>6, <2>1 DEF Restore
    <2>4. \A q \in DOMAIN todo : q # p => Place(q) \notin Holds \cup Locked
      BY <1>0, <2>3
    <2> QED BY <1>k, <2>2, <2>3, <2>4
  <1> QED BY <1>1, <1>2, <1>3, <1>4, <1>5, <1>6 DEF UpdatingStep

----------------------------------------------------------------------------
(* The names of the timers *)

(* There are no timers at first.                                           *)
LEMMA NamesInit == Init => Names
  BY SessionAssumption DEF Init, Names

(* A step that sets no timer and starts no thread *)
LEMMA NamesStay ==
    ASSUME Names, DOMAIN todo' \subseteq DOMAIN todo, armed' \subseteq armed, TypeOK,
           DOMAIN todo \subseteq Thread \cup Timer,
           \A k \in Kind : slot'[k].epoch \in Nat /\ slot[k].epoch <= slot'[k].epoch
    PROVE  Names'
  <1>1. \A t \in Timer : t[1] \in Kind /\ t[2] \in Nat
    BY DEF Timer
  <1>2. \A k \in Kind : slot[k].epoch \in Nat
    BY DEF TypeOK, Slot
  <1>3. ASSUME NEW t \in Timer, t[2] <= slot[t[1]].epoch
        PROVE  t[2] <= slot'[t[1]].epoch
    BY <1>1, <1>2, <1>3
  <1>4. \A t \in armed' : t[2] <= slot'[t[1]].epoch
    BY <1>3 DEF Names, TypeOK
  <1>5. \A t \in DOMAIN todo' \ Thread : t[2] <= slot'[t[1]].epoch
    BY <1>3 DEF Names
  <1> QED BY <1>4, <1>5 DEF Names

(* Another epoch *)
LEMMA Renewed ==
    ASSUME TypeOK, NEW k \in Kind, NEW d, NEW new, Renew(k, d, new)
    PROVE  /\ \A j \in Kind : j # k => slot'[j] = slot[j]
           /\ slot'[k] = [epoch |-> slot[k].epoch + 1, timer |-> Nil, delivery |-> d]
           /\ slot[k].epoch \in Nat /\ slot'[k].epoch = slot[k].epoch + 1
           /\ \A j \in Kind : slot[j].epoch \in Nat /\ slot'[j].epoch \in Nat /\ slot[j].epoch <= slot'[j].epoch
  <1>1. slot' = [slot EXCEPT ![k] = [epoch |-> slot[k].epoch + 1, timer |-> Nil, delivery |-> d]]
    BY DEF Renew
  <1>2. \A j \in Kind : slot[j].epoch \in Nat
    BY DEF TypeOK, Slot
  <1>3. /\ \A j \in Kind : j # k => slot'[j] = slot[j]
        /\ slot'[k] = [epoch |-> slot[k].epoch + 1, timer |-> Nil, delivery |-> d]
    BY <1>1 DEF TypeOK
  <1>4. slot'[k].epoch = slot[k].epoch + 1
    BY <1>3
  <1> QED BY <1>2, <1>3, <1>4

(* No timer is newer than the epoch of its slot, in any step.              *)
LEMMA NamesStep ==
    ASSUME Shape, Names, [Next]_vars
    PROVE  Names'
  <1>0. Planned /\ TypeOK /\ DOMAIN todo \subseteq Thread \cup Timer
    BY DEF Shape, Planned
  <1>e. \A k \in Kind : slot[k].epoch \in Nat /\ slot[k].epoch <= slot[k].epoch
    BY <1>0 DEF TypeOK, Slot
  <1>1. ASSUME NEW p \in DOMAIN todo, Notifying(p) \/ Tasking(p) \/ UpdatingStep(p) \/ ClosingStep(p)
        PROVE  Names'
    <2>1. UNCHANGED <<slot, armed>>
      BY <1>1 DEF Notifying, Enqueue, Watched, Push, Unread, Apply, Settle, Rollback, Refused,
                  Tasking, Match, Spawn, Run, Deliver, Finish, UpdatingStep, Look, Publish, Announce,
                  Restore, Take, Build, ClosingStep, Lock, Shut, Clear, Stop, Unlock, Wait, Closed, timers
    <2>2. DOMAIN todo' \subseteq DOMAIN todo
      <3>1. CASE Notifying(p)
        BY <1>0, <3>1 DEF Notifying, Enqueue, Watched, Push, Unread, Apply, Settle, Rollback, Refused,
                          Then, Return, Planned
      <3>2. CASE Tasking(p)
        BY <1>0, <3>2 DEF Tasking, Match, Spawn, Run, Deliver, Finish, Then, Gone, Planned
      <3>3. CASE UpdatingStep(p)
        BY <1>0, <3>3 DEF UpdatingStep, Look, Publish, Announce, Restore, Take, Build, Then, Failing, Planned
      <3>4. CASE ClosingStep(p)
        BY <1>0, <3>4 DEF ClosingStep, Lock, Shut, Clear, Stop, Unlock, Wait, Closed, Then, Return, Planned
      <3> QED BY <1>1, <3>1, <3>2, <3>3, <3>4
    <2> QED BY <1>0, <1>e, <2>1, <2>2, NamesStay
  <1>2. ASSUME NEW p \in DOMAIN todo, Timing(p)
        PROVE  Names'
    <2>0. DOMAIN todo' = DOMAIN todo
      BY <1>0, <1>2 DEF Timing, Cancel, Schedule, Arm, Store, Then, Planned
    <2>1. CASE Cancel(p)
      <3>1. PICK k : k = todo[p][1][2]
        OBVIOUS
      <3>2. k \in Kind /\ Renew(k, Nil, {})
        BY <1>0, <2>1, <3>1, CancelGoes
      <3>3. armed' \subseteq armed
        BY <3>2 DEF Renew
      <3> QED BY <1>0, <2>0, <3>2, <3>3, NamesStay, Renewed
    <2>2. CASE Schedule(p)
      BY <1>0, <1>e, <2>0, <2>2, NamesStay DEF Schedule, timers
    <2>3. CASE Arm(p)
      <3>1. todo[p][1] \in Steps /\ todo[p][1][1] = "arm" /\ Head(todo[p]) = todo[p][1]
        BY <1>0, <2>3, PlaceAt DEF Arm
      <3>2. PICK k, e, d : k = todo[p][1][2] /\ e = slot[k].epoch + 1 /\ d = IF k = "refresh" THEN e ELSE Nil
        OBVIOUS
      <3>3. k \in Kind
        BY <3>1, <3>2, StepKinds DEF Timed
      <3>4. Renew(k, d, {<<k, e>>})
        BY <2>3, <3>1, <3>2 DEF Arm, Arg
      <3>5. /\ slot'[k].epoch = e /\ e \in Nat /\ slot[k].epoch \in Nat /\ e > slot[k].epoch
            /\ \A j \in Kind : slot[j].epoch \in Nat /\ slot'[j].epoch \in Nat /\ slot[j].epoch <= slot'[j].epoch
        <4>1. /\ slot'[k].epoch = slot[k].epoch + 1 /\ slot[k].epoch \in Nat
              /\ \A j \in Kind : slot[j].epoch \in Nat /\ slot'[j].epoch \in Nat /\ slot[j].epoch <= slot'[j].epoch
          BY <1>0, <3>3, <3>4, Renewed
        <4> QED BY <4>1, <3>2
      <3>6. PICK t : t = <<k, e>>
        OBVIOUS
      <3>7. t \in Timer /\ t[1] = k /\ t[2] = e /\ t \notin Thread
        BY <3>3, <3>5, <3>6, SessionAssumption DEF Timer
      <3>8. armed' \subseteq armed \cup {t}
        BY <3>4, <3>6 DEF Renew
      <3>9. t \notin DOMAIN todo
        BY <3>5, <3>7 DEF Names
      <3>10. \A u \in Timer : u[1] \in Kind /\ u[2] \in Nat
        BY DEF Timer
      <3>11. ASSUME NEW u \in Timer, u[2] <= slot[u[1]].epoch
             PROVE  u[2] <= slot'[u[1]].epoch
        BY <3>5, <3>10, <3>11
      <3>12. \A u \in armed' : u[2] <= slot'[u[1]].epoch
        BY <1>0, <3>5, <3>7, <3>8, <3>11 DEF Names, TypeOK
      <3>13. \A u \in DOMAIN todo' \ Thread : u[2] <= slot'[u[1]].epoch
        BY <1>0, <2>0, <3>11 DEF Names
      <3>14. armed' \cap DOMAIN todo' = {}
        BY <2>0, <3>8, <3>9 DEF Names
      <3> QED BY <3>12, <3>13, <3>14 DEF Names
    <2>4. CASE Store(p)
      <3>1. todo[p][1] \in Steps /\ todo[p][1][1] = "store" /\ Head(todo[p]) = todo[p][1]
        BY <1>0, <2>4, PlaceAt DEF Store
      <3>2. todo[p][1][2] \in Kind
        BY <3>1, StepKinds
      <3>3. PICK k, e : k = todo[p][1][2] /\ e = todo[p][1][3]
        OBVIOUS
      <3>4. \/ slot' = [slot EXCEPT ![k].timer = e] /\ UNCHANGED armed
            \/ armed' = armed \ {<<k, e>>} /\ UNCHANGED slot
        BY <2>4, <3>1, <3>3 DEF Store, Arg
      <3>5. \A j \in Kind : slot'[j].epoch = slot[j].epoch
        BY <1>0, <3>2, <3>3, <3>4 DEF TypeOK, Slot
      <3>6. armed' \subseteq armed
        BY <3>4
      <3> QED BY <1>0, <1>e, <2>0, <3>5, <3>6, NamesStay
    <2> QED BY <1>2, <2>1, <2>2, <2>3, <2>4 DEF Timing
  <1>3. ASSUME NEW t \in armed, Fire(t)
        PROVE  Names'
    <2>1. DOMAIN todo' = DOMAIN todo \cup {t} /\ armed' = armed \ {t} /\ slot' = slot
      BY <1>3 DEF Fire
    <2> QED BY <2>1 DEF Names
  <1>4. ASSUME NEW p \in Thread, NEW op, NEW f, Call(p, op, f)
        PROVE  Names'
    <2>1. DOMAIN todo' = DOMAIN todo /\ UNCHANGED <<armed, slot>>
      BY <1>0, <1>4 DEF Call, timers, Planned
    <2> QED BY <2>1 DEF Names
  <1>5. CASE UNCHANGED vars
    BY <1>5 DEF vars, timers, Names
  <1> QED BY <1>1, <1>2, <1>3, <1>4, <1>5 DEF Next, Rest

(* The locks are kept by the steps of a close.                             *)
LEMMA ClosingLocks ==
    ASSUME Planned, Locks, NEW p \in DOMAIN todo, ClosingStep(p), Nil \notin DOMAIN todo
    PROVE  Locks'
  <1> USE DEF Holds, Locked, Builds, PastShut, PastClear, PastStop, PastUpdate, PastIdle, PastRefresh
  <1>0. /\ \A q \in DOMAIN todo : Place(q) \in Holds => update = q /\ snapshot # Nil
        /\ \A q \in DOMAIN todo : Place(q) \in Locked => update = q
        /\ \A q \in DOMAIN todo : Place(q) \in Builds => taken # Nil
        /\ taken # Nil => update \in DOMAIN todo /\ Place(update) \in Builds
        /\ \A q \in DOMAIN todo : Reads(q) => q \in readers
        /\ readers # {} => snapshot # Nil
    BY DEF Locks
  (* Only p has a lock, or had one. *)
  <1>k. ASSUME NEW S, Goes(p, S), UNCHANGED <<readers, taken>>, taken = Nil,
               S \cap Holds = {}, S \cap Locked # {} => update' = p,
               \A q \in DOMAIN todo : q # p => Place(q) \notin Holds \cup Locked,
               snapshot' = snapshot \/ readers = {}
        PROVE  Locks'
    <2>1. /\ DOMAIN todo' = DOMAIN todo /\ (Place(p))' \in S
          /\ \A q \in DOMAIN todo : q # p => (Place(q))' = Place(q)
          /\ \A q \in DOMAIN todo : (Reads(q))' => Reads(q)
      BY <1>k DEF Goes, Others
    <2>2. \A q \in DOMAIN todo : (Place(q))' \notin Holds
      BY <1>k, <2>1
    <2>3. \A q \in DOMAIN todo : (Place(q))' \in Locked => update' = q
      BY <1>k, <2>1
    <2>4. \A q \in DOMAIN todo : (Place(q))' \notin Builds
      BY <2>2
    <2>5. \A q \in DOMAIN todo : (Reads(q))' => q \in readers'
      BY <1>0, <1>k, <2>1
    <2>6. readers' # {} => snapshot' # Nil
      BY <1>0, <1>k
    <2> QED BY <1>k, <2>1, <2>2, <2>3, <2>4, <2>5, <2>6 DEF Locks
  <1>1. CASE Lock(p)
    <2>1. Place(p) = "lock" /\ Goes(p, After("lock"))
      BY <1>1, DoneAt DEF Lock
    <2>2. Goes(p, {"idle", "shut"})
      BY <2>1 DEF After, Update_
    <2>3. update = Nil /\ update' = p /\ UNCHANGED <<snapshot, readers, taken>>
      BY <1>1 DEF Lock, work
    <2>4. taken = Nil /\ \A q \in DOMAIN todo : Place(q) \notin Holds \cup Locked
      BY <1>0, <2>3
    <2> QED BY <1>k, <2>2, <2>3, <2>4
  <1>2. ASSUME NEW op \in {"shut", "clear", "stop", "unlock"}, At(p, op), Then(p, <<>>),
               UNCHANGED <<readers, taken>>, update' = update \/ op = "unlock",
               snapshot' = snapshot \/ readers = {}
        PROVE  Locks'
    <2>1. Place(p) = op /\ Goes(p, After(op))
      BY <1>2, DoneAt
    <2>2. update = p /\ taken = Nil
      BY <1>0, <1>2, <2>1
    <2>3. \A q \in DOMAIN todo : q # p => Place(q) \notin Holds \cup Locked
      BY <1>0, <2>2
    <2>4. After(op) \cap Holds = {} /\ (After(op) \cap Locked # {} => op # "unlock")
      BY <1>2 DEF After, Update_
    <2> QED BY <1>2, <1>k, <2>1, <2>2, <2>3, <2>4
  <1>3. CASE Shut(p)
    BY <1>2, <1>3 DEF Shut, work
  <1>4. CASE Clear(p)
    BY <1>2, <1>4 DEF Clear
  <1>5. CASE Stop(p)
    BY <1>2, <1>5 DEF Stop, work
  <1>6. CASE Unlock(p)
    BY <1>2, <1>6 DEF Unlock, work
  <1>7. CASE Wait(p)
    <2>1. Place(p) = "wait" /\ (Goes(p, After("wait")) \/ Goes(p, {"idle"}))
      BY <1>7, DoneAt, PlaceAt, ReturnGoes DEF Wait
    <2>2. Goes(p, {"idle", "closed"})
      BY <2>1 DEF After, Update_, Goes
    <2> QED BY <1>7, <2>1, <2>2, LocksGo DEF Wait, work
  <1>8. CASE Closed(p)
    <2>1. Place(p) = "closed" /\ Goes(p, After("closed"))
      BY <1>8, DoneAt DEF Closed
    <2>2. Goes(p, {"idle"})
      BY <2>1 DEF After, Update_
    <2> QED BY <1>8, <2>1, <2>2, LocksGo DEF Closed, work
  <1> QED BY <1>1, <1>3, <1>4, <1>5, <1>6, <1>7, <1>8 DEF ClosingStep

(* The locks are kept when a timer fires.                                  *)
LEMMA FireLocks ==
    ASSUME Locks, Names, NEW t \in armed, Fire(t)
    PROVE  Locks'
  <1>1. UNCHANGED <<snapshot, update, taken, readers>> /\ t \notin DOMAIN todo
    BY DEF Fire, work, Names
  <1>2. /\ DOMAIN todo' = DOMAIN todo \cup {t} /\ (Place(t))' = "match" /\ ~(Reads(t))'
        /\ \A q \in DOMAIN todo : (Place(q))' = Place(q) /\ ((Reads(q))' <=> Reads(q))
    BY <1>1, FireEnters DEF Enters
  <1>3. "match" \notin Holds \cup Locked
    BY DEF Holds, Locked, Builds, PastShut, PastClear, PastStop, PastUpdate, PastIdle, PastRefresh
  <1>4. "match" \notin Builds
    BY DEF Builds
  <1>5. taken' # Nil => update' \in DOMAIN todo' /\ (Place(update))' \in Builds
    BY <1>1, <1>2 DEF Locks
  <1>6. /\ \A q \in DOMAIN todo' : (Place(q))' \in Holds => update' = q /\ snapshot' # Nil
        /\ \A q \in DOMAIN todo' : (Place(q))' \in Locked => update' = q
        /\ \A q \in DOMAIN todo' : (Place(q))' \in Builds => taken' # Nil
        /\ \A q \in DOMAIN todo' : (Reads(q))' => q \in readers'
        /\ readers' # {} => snapshot' # Nil
    BY <1>1, <1>2, <1>3, <1>4 DEF Locks
  <1> QED BY <1>5, <1>6 DEF Locks

(* The locks are kept by every step.                                       *)
LEMMA LocksStep ==
    ASSUME Shape, Names, Locks, [Next]_vars
    PROVE  Locks'
  <1>0. Planned /\ TypeOK /\ Nil \notin DOMAIN todo
    BY SessionAssumption DEF Shape, Planned
  <1>1. ASSUME NEW p \in DOMAIN todo,
               Notifying(p) \/ Timing(p) \/ Tasking(p) \/ UpdatingStep(p) \/ ClosingStep(p)
        PROVE  Locks'
    BY <1>0, <1>1, NotifyingLocks, TimingLocks, TaskingLocks, UpdatingLocks, ClosingLocks
  <1>2. ASSUME NEW p \in Thread, NEW op \in Calls, NEW f \in File, Call(p, op, f)
        PROVE  Locks'
    <2>1. /\ Place(p) = "idle" /\ Goes(p, {"enqueue", "watched", "look", "apply", "lock"}) /\ p \in DOMAIN todo
      BY <1>0, <1>2, CallGoes
    <2>2. UNCHANGED <<snapshot, update, taken, readers>>
      BY <1>2 DEF Call, work
    <2>3. "idle" \notin Builds /\ {"enqueue", "watched", "look", "apply", "lock"} \cap (Holds \cup Locked) = {}
      BY DEF Holds, Locked, Builds, PastShut, PastClear, PastStop, PastUpdate, PastIdle, PastRefresh
    <2> QED BY <2>1, <2>2, <2>3, LocksGo
  <1>3. CASE UNCHANGED vars
    <2>1. UNCHANGED <<snapshot, update, taken, readers, todo>>
      BY <1>3 DEF vars, work
    <2>2. \A q : (Place(q))' = Place(q) /\ ((Reads(q))' <=> Reads(q))
      BY <2>1, PlacePrimed DEF Place, Reads
    <2> QED BY <2>1, <2>2 DEF Locks
  <1> QED BY <1>1, <1>2, <1>3, FireLocks DEF Next, Rest, Calls

----------------------------------------------------------------------------
(* What every other argument starts from *)
Base == Shape /\ Names /\ Locks

(* The threads of a session have the lists of steps that the code gives them,
   in order; every timer and every task has a name of its own; and at most one
   thread is in the part of an update or of a close that the update lock
   guards (crates/tsr_project/src/session.rs). *)
THEOREM BaseHolds == Spec => []Base
  <1>1. Init => Base
    BY ShapeInit, NamesInit, LocksInit DEF Base
  <1>2. Base /\ [Next]_vars => Base'
    BY ShapeStep, NamesStep, LocksStep DEF Base
  <1> QED BY <1>1, <1>2, PTL DEF Spec

(* What the steps leave alone *)
LEMMA Alone ==
    ASSUME NEW p \in DOMAIN todo
    PROVE  /\ Notifying(p) => UNCHANGED <<snapshot, update, taken, slot, token, armed, live, queue, excused, ends>>
           /\ Timing(p) => UNCHANGED <<snapshot, readers, update, pending, taken, token, queue, count, excused,
                                       acked, ends>>
           /\ Tasking(p) => UNCHANGED <<snapshot, readers, update, pending, taken, slot, token, armed, count,
                                        excused, acked>>
           /\ UpdatingStep(p) => UNCHANGED <<readers, slot, token, armed, live, queue, count, acked>>
           /\ ClosingStep(p) => UNCHANGED <<readers, taken, slot, armed, live, count, acked>>
           /\ Notifying(p) \/ Timing(p) \/ UpdatingStep(p) \/ ClosingStep(p) => DOMAIN todo' = DOMAIN todo
  <1>1. Notifying(p) => UNCHANGED <<snapshot, update, taken, slot, token, armed, live, queue, excused, ends>>
    BY DEF Notifying, Enqueue, Watched, Push, Unread, Apply, Settle, Rollback, Refused, work, timers, history
  <1>2. Timing(p) => UNCHANGED <<snapshot, readers, update, pending, taken, token, queue, count, excused, acked, ends>>
    BY DEF Timing, Cancel, Schedule, Arm, Store, work, timers, history
  <1>3. Tasking(p) => UNCHANGED <<snapshot, readers, update, pending, taken, slot, token, armed, count, excused, acked>>
    BY DEF Tasking, Match, Spawn, Run, Deliver, Finish, work, timers, history
  <1>4. UpdatingStep(p) => UNCHANGED <<readers, slot, token, armed, live, queue, count, acked>>
    BY DEF UpdatingStep, Look, Publish, Announce, Restore, Take, Build, work, timers, history
  <1>5. ClosingStep(p) => UNCHANGED <<readers, taken, slot, armed, live, count, acked>>
    BY DEF ClosingStep, Lock, Shut, Clear, Stop, Unlock, Wait, Closed, work, timers, history
  <1>6. Notifying(p) \/ Timing(p) \/ UpdatingStep(p) \/ ClosingStep(p) => DOMAIN todo' = DOMAIN todo
    BY DEF Notifying, Enqueue, Watched, Push, Unread, Apply, Settle, Rollback, Refused,
           Timing, Cancel, Schedule, Arm, Store, UpdatingStep, Look, Publish, Announce, Restore, Take, Build,
           ClosingStep, Lock, Shut, Clear, Stop, Unlock, Wait, Closed, Then, Return, Failing
  <1> QED BY <1>1, <1>2, <1>3, <1>4, <1>5, <1>6

(* The steps of a thread with a timer, in terms of its kind and epoch *)
LEMMA ArmDoes ==
    ASSUME Planned, TypeOK, NEW p \in DOMAIN todo, Arm(p)
    PROVE  \E k \in Kind, e \in Nat : /\ k = todo[p][1][2] /\ e = slot[k].epoch + 1 /\ todo[p][1][1] = "arm"
                                      /\ todo[p] # <<>>
                                      /\ Renew(k, IF k = "refresh" THEN e ELSE Nil, {<<k, e>>})
                                      /\ Then(p, << <<"store", k, e>> >>)
  <1>1. todo[p][1] \in Steps /\ todo[p][1][1] = "arm" /\ Head(todo[p]) = todo[p][1] /\ todo[p] # <<>>
    BY PlaceAt DEF Arm
  <1>2. PICK k, e : k = todo[p][1][2] /\ e = slot[k].epoch + 1
    OBVIOUS
  <1>3. k \in Kind
    BY <1>1, <1>2, StepKinds DEF Timed
  <1>4. e \in Nat
    BY <1>2, <1>3 DEF TypeOK, Slot
  <1>5. Renew(k, IF k = "refresh" THEN e ELSE Nil, {<<k, e>>}) /\ Then(p, << <<"store", k, e>> >>)
    BY <1>1, <1>2 DEF Arm, Arg
  <1> QED BY <1>1, <1>2, <1>3, <1>4, <1>5

(* What storing a timer does to the slots and to the armed timers.         *)
LEMMA StoreDoes ==
    ASSUME Planned, TypeOK, NEW p \in DOMAIN todo, Store(p)
    PROVE  \E k \in Kind, e \in Nat :
              /\ k = todo[p][1][2] /\ e = todo[p][1][3] /\ todo[p][1][1] = "store"
              /\ \A j \in Kind : /\ slot'[j].epoch = slot[j].epoch /\ slot'[j].delivery = slot[j].delivery
                                 /\ slot'[j].timer = slot[j].timer \/ (~token /\ slot'[j].timer = e)
              /\ \/ UNCHANGED armed
                 \/ ~Matches(<<k, e>>) /\ armed' = armed \ {<<k, e>>}
  <1>1. todo[p][1] \in Steps /\ todo[p][1][1] = "store" /\ Head(todo[p]) = todo[p][1]
    BY PlaceAt DEF Store
  <1>2. PICK k, e : k = todo[p][1][2] /\ e = todo[p][1][3]
    OBVIOUS
  <1>3. k \in Kind /\ e \in Nat
    BY <1>1, <1>2, StepKinds
  <1>4. IF Matches(<<k, e>>)
          THEN slot' = [slot EXCEPT ![k].timer = e] /\ UNCHANGED armed
          ELSE armed' = armed \ {<<k, e>>} /\ UNCHANGED slot
    BY <1>1, <1>2 DEF Store, Arg
  <1>5. Matches(<<k, e>>) => ~token
    BY DEF Matches
  <1>6. slot \in [Kind -> Slot]
    BY DEF TypeOK
  <1>7. \A j \in Kind : /\ slot'[j].epoch = slot[j].epoch /\ slot'[j].delivery = slot[j].delivery
                        /\ slot'[j].timer = slot[j].timer \/ (~token /\ slot'[j].timer = e)
    BY <1>3, <1>4, <1>5, <1>6 DEF Slot
  <1> QED BY <1>1, <1>2, <1>3, <1>4, <1>7

----------------------------------------------------------------------------
(* The diagnostics *)

(* The slot and the armed refresh agree after every step.                  *)
LEMMA RefreshStep ==
    ASSUME Base, RefreshAgrees, [Next]_vars
    PROVE  RefreshAgrees'
  <1>0. Planned /\ TypeOK
    BY DEF Base, Shape
  <1>k. "refresh" \in Kind
    BY DEF Kind
  <1>1. CASE UNCHANGED <<live, slot>>
    BY <1>1 DEF RefreshAgrees
  <1>2. ASSUME NEW k \in Kind, NEW d, NEW new, Renew(k, d, new)
        PROVE  RefreshAgrees'
    <2>1. \A j \in Kind : j # k => slot'[j] = slot[j]
      BY <1>0, <1>2, Renewed
    <2>2. live' = live \ {slot[k].delivery}
      BY <1>2 DEF Renew, Called
    <2>3. CASE k = "refresh"
      BY <2>2, <2>3 DEF RefreshAgrees
    <2>4. CASE k # "refresh"
      BY <2>1, <2>2, <2>4, <1>k DEF RefreshAgrees
    <2> QED BY <2>3, <2>4
  <1>3. ASSUME NEW p \in DOMAIN todo, Timing(p)
        PROVE  RefreshAgrees'
    <2>1. CASE Cancel(p)
      BY <1>0, <1>2, <2>1, CancelGoes
    <2>2. CASE Schedule(p)
      BY <1>1, <2>2 DEF Schedule, timers
    <2>3. CASE Arm(p)
      BY <1>0, <1>2, <2>3, ArmDoes
    <2>4. CASE Store(p)
      <3>1. slot'["refresh"].delivery = slot["refresh"].delivery
        BY <1>0, <1>k, <2>4, StoreDoes
      <3>2. UNCHANGED live
        BY <2>4 DEF Store
      <3> QED BY <3>1, <3>2 DEF RefreshAgrees
    <2> QED BY <1>3, <2>1, <2>2, <2>3, <2>4 DEF Timing
  <1>4. ASSUME NEW p \in DOMAIN todo, Tasking(p)
        PROVE  RefreshAgrees'
    <2>1. CASE Deliver(p)
      <3>1. p[1] = "refresh"
        BY <1>0, <2>1, TaskGoes
      <3>2. live' \subseteq live \cup {slot["refresh"].delivery} /\ UNCHANGED slot
        BY <2>1, <3>1 DEF Deliver
      <3> QED BY <3>2 DEF RefreshAgrees
    <2>2. CASE Match(p) \/ Spawn(p) \/ Run(p) \/ Finish(p)
      BY <1>1, <2>2 DEF Match, Spawn, Run, Finish, timers
    <2> QED BY <1>4, <2>1, <2>2 DEF Tasking
  <1>5. ASSUME NEW p \in DOMAIN todo, Notifying(p) \/ UpdatingStep(p) \/ ClosingStep(p)
        PROVE  RefreshAgrees'
    BY <1>1, <1>5, Alone
  <1>6. (\E p \in Thread, op \in Calls, f \in File : Call(p, op, f)) => UNCHANGED <<live, slot>>
    BY DEF Call, timers
  <1>7. (\E t \in armed : Fire(t)) => UNCHANGED <<live, slot>>
    BY DEF Fire
  <1>8. UNCHANGED vars => UNCHANGED <<live, slot>>
    BY DEF vars, timers
  <1> QED BY <1>1, <1>3, <1>4, <1>5, <1>6, <1>7, <1>8 DEF Next, Rest, Calls

(* At most the last refresh that was asked for is delivered and not cancelled,
   whatever edits, refreshes and closes do while it waits for its receiver
   (Timers in crates/tsr_project/src/session/timers.rs). *)
THEOREM RefreshesAgree == Spec => []RefreshAgrees
  <1>1. Init => RefreshAgrees
    BY DEF Init, RefreshAgrees
  <1>2. Base /\ RefreshAgrees /\ [Next]_vars => RefreshAgrees'
    BY RefreshStep
  <1> QED BY <1>1, <1>2, BaseHolds, PTL DEF Spec

----------------------------------------------------------------------------
(* The steps by where they lead: none but those of a close lead into one, and
   none but a timer's own lead to the start of a task. *)
LEMMA NotifyingMoves ==
    ASSUME Planned, NEW p \in DOMAIN todo, Notifying(p)
    PROVE  /\ Others(p)
           /\ Place(p) \in {"enqueue", "watched", "push", "unread", "apply", "settle", "rollback"}
           /\ (Place(p))' \in {"idle", "schedule", "cancel", "push", "look"}
  <1>1. ASSUME NEW mapped \in BOOLEAN, Enqueue(p, mapped)
        PROVE  Others(p) /\ Place(p) = "enqueue" /\ (Place(p))' \in {"idle", "schedule", "cancel", "push", "look"}
    BY <1>1, EnqueueGoes DEF Goes
  <1>2. ASSUME NEW relevant \in BOOLEAN, NEW config \in BOOLEAN, Watched(p, relevant, config)
        PROVE  Others(p) /\ Place(p) = "watched" /\ (Place(p))' \in {"idle", "schedule", "cancel", "push", "look"}
    BY <1>2, WatchedGoes DEF Goes
  <1>3. CASE Apply(p)
    BY <1>3, ApplyGoes DEF Goes
  <1>4. ASSUME NEW op \in {"push", "unread", "settle", "rollback"}, At(p, op), Then(p, <<>>)
        PROVE  Others(p) /\ Place(p) = op /\ (Place(p))' \in {"idle", "schedule", "cancel", "push", "look"}
    <2>1. Place(p) = op /\ Goes(p, After(op))
      BY <1>4, DoneAt
    <2> QED BY <2>1 DEF Goes, After, Update_
  <1>5. CASE Push(p) \/ Unread(p) \/ Settle(p) \/ Rollback(p)
    BY <1>4, <1>5 DEF Push, Unread, Settle, Rollback
  <1> QED BY <1>1, <1>2, <1>3, <1>5 DEF Notifying

(* The places of a thread that works on timers, before and after.          *)
LEMMA TimingMoves ==
    ASSUME Planned, TypeOK, NEW p \in DOMAIN todo, Timing(p)
    PROVE  /\ Others(p)
           /\ Place(p) \in {"begin", "endUpdate", "endIdle", "endRefresh", "cancel", "schedule", "arm", "store"}
           /\ (Place(p))' \in {"idle", "schedule", "push", "unread", "look", "arm", "store", "take", "cancel",
                               "endIdle", "endRefresh", "unlock"}
           /\ (Place(p))' = "endIdle" => Place(p) = "endUpdate" /\ Cancel(p)
           /\ (Place(p))' = "endRefresh" => Place(p) = "endIdle" /\ Cancel(p)
           /\ (Place(p))' = "unlock" => Place(p) = "endRefresh" /\ Cancel(p)
           /\ (Place(p))' = "take" => Place(p) = "begin" /\ Cancel(p)
  <1>1. CASE Cancel(p)
    <2>1. Goes(p, After(Place(p))) /\ Place(p) \in {"begin", "endUpdate", "endIdle", "endRefresh", "cancel"}
      BY <1>1, CancelGoes
    <2> QED BY <1>1, <2>1 DEF Goes, After, Update_
  <1>2. CASE Schedule(p)
    BY <1>2, ScheduleGoes DEF Goes
  <1>3. CASE Arm(p)
    BY <1>3, ArmGoes DEF Goes
  <1>4. CASE Store(p)
    <2>1. Place(p) = "store" /\ Goes(p, After("store"))
      BY <1>4, DoneAt DEF Store
    <2> QED BY <2>1 DEF Goes, After, Update_
  <1> QED BY <1>1, <1>2, <1>3, <1>4 DEF Timing

(* The places of a thread that updates, before and after.                  *)
LEMMA UpdatingMoves ==
    ASSUME Planned, NEW p \in DOMAIN todo, UpdatingStep(p)
    PROVE  /\ Others(p)
           /\ Place(p) \in {"look", "take", "build", "publish", "announce", "restore"}
           /\ (Place(p))' \in {"idle", "rollback", "settle", "finish", "begin", "build", "publish", "restore",
                               "announce"}
           /\ Place(p) = "look" => (Place(p))' \in {"idle", "rollback", "settle", "finish", "begin"}
           /\ Place(p) # "look" => (Place(p))' # "begin"
  <1>1. CASE Look(p)
    BY <1>1, LookGoes DEF Goes
  <1>2. ASSUME NEW need \in BOOLEAN, Take(p, need)
        PROVE  /\ Others(p) /\ Place(p) = "take" /\ (Place(p))' \in {"idle", "settle", "finish", "build"}
    BY <1>2, TakeGoes DEF Goes
  <1>3. ASSUME NEW outcome \in {"ok", "error", "panic"}, Build(p, outcome)
        PROVE  Others(p) /\ Place(p) = "build" /\ (Place(p))' \in {"publish", "restore"}
    BY <1>3, BuildGoes DEF Goes
  <1>4. CASE Publish(p)
    BY <1>4, PublishGoes DEF Goes
  <1>5. CASE Announce(p)
    <2>1. Place(p) = "announce" /\ Goes(p, After("announce"))
      BY <1>5, DoneAt DEF Announce
    <2> QED BY <2>1 DEF Goes, After, Update_
  <1>6. CASE Restore(p)
    <2>1. Place(p) = "restore" /\ Goes(p, After("restore"))
      BY <1>6, DoneAt DEF Restore
    <2> QED BY <2>1 DEF Goes, After, Update_
  <1> QED BY <1>1, <1>2, <1>3, <1>4, <1>5, <1>6 DEF UpdatingStep

(* The places of a thread that closes, before and after.                   *)
LEMMA ClosingMoves ==
    ASSUME Planned, NEW p \in DOMAIN todo, ClosingStep(p)
    PROVE  /\ Others(p)
           /\ Place(p) \in {"lock", "shut", "clear", "stop", "unlock", "wait", "closed"}
           /\ (Place(p))' \in {"idle", "shut", "clear", "stop", "endUpdate", "wait", "closed"}
           /\ (Place(p))' = "clear" => Place(p) = "shut" /\ Shut(p)
           /\ (Place(p))' = "stop" => Place(p) = "clear" /\ Clear(p)
           /\ (Place(p))' = "endUpdate" => Place(p) = "stop" /\ Stop(p)
           /\ (Place(p))' = "wait" => Place(p) = "unlock" /\ Unlock(p)
           /\ (Place(p))' = "closed" => Place(p) = "wait" /\ Wait(p)
           /\ Shut(p) => Place(p) = "shut"
           /\ Clear(p) => Place(p) = "clear"
           /\ Stop(p) => Place(p) = "stop"
           /\ Closed(p) => Place(p) = "closed"
  <1>1. ASSUME NEW op \in {"lock", "shut", "clear", "stop", "unlock", "wait", "closed"}, At(p, op), Then(p, <<>>)
        PROVE  Others(p) /\ Place(p) = op /\ (Place(p))' \in After(op)
    <2>1. Place(p) = op /\ Goes(p, After(op))
      BY <1>1, DoneAt
    <2> QED BY <2>1 DEF Goes
  <1>2. CASE Lock(p)
    BY <1>1, <1>2 DEF Lock, Shut, Clear, Stop, Closed, At, After, Update_
  <1>3. CASE Shut(p)
    BY <1>1, <1>3 DEF Shut, Clear, Stop, Closed, At, After, Update_
  <1>4. CASE Clear(p)
    BY <1>1, <1>4 DEF Shut, Clear, Stop, Closed, At, After, Update_
  <1>5. CASE Stop(p)
    BY <1>1, <1>5 DEF Shut, Clear, Stop, Closed, At, After, Update_
  <1>6. CASE Unlock(p)
    BY <1>1, <1>6 DEF Unlock, Shut, Clear, Stop, Closed, At, After, Update_
  <1>7. CASE Wait(p)
    <2>1. Place(p) = "wait" /\ (Goes(p, After("wait")) \/ Goes(p, {"idle"}))
      BY <1>7, DoneAt, PlaceAt, ReturnGoes DEF Wait
    <2>2. Others(p) /\ (Place(p))' \in {"idle", "closed"}
      BY <2>1 DEF Goes, After, Update_
    <2> QED BY <1>7, <2>1, <2>2 DEF Wait, Shut, Clear, Stop, Closed, At
  <1>8. CASE Closed(p)
    BY <1>1, <1>8 DEF Shut, Clear, Stop, Closed, At, After, Update_
  <1> QED BY <1>2, <1>3, <1>4, <1>5, <1>6, <1>7, <1>8 DEF ClosingStep

----------------------------------------------------------------------------
(* The tasks that run are counted. *)

Starting == {"match", "spawn"}

(* A step that begins and ends no task keeps the count.                    *)
LEMMA CountedStay ==
    ASSUME Counted, NEW p \in DOMAIN todo, Others(p), queue'.active = queue.active,
           Place(p) \notin Starting, (Place(p))' \notin Starting
    PROVE  Counted'
  <1>1. DOMAIN todo' = DOMAIN todo /\ \A q \in DOMAIN todo : q # p => (Place(q))' = Place(q)
    BY DEF Others
  <1>2. \A q \in DOMAIN todo : (Place(q))' \in Starting <=> Place(q) \in Starting
    BY <1>1
  <1>3. Running' = Running
    BY <1>1, <1>2 DEF Running, Starting
  <1> QED BY <1>3 DEF Counted

(* The tasks that run are counted after every step.                        *)
LEMMA CountedStep ==
    ASSUME Base, Counted, [Next]_vars
    PROVE  Counted'
  <1>0. Planned /\ TypeOK /\ Names
    BY DEF Base, Shape
  <1>1. ASSUME NEW p \in DOMAIN todo, Notifying(p)
        PROVE  Counted'
    <2>1. Others(p) /\ Place(p) \notin Starting /\ (Place(p))' \notin Starting
      BY <1>0, <1>1, NotifyingMoves DEF Starting
    <2> QED BY <1>1, <2>1, CountedStay, Alone
  <1>2. ASSUME NEW p \in DOMAIN todo, Timing(p)
        PROVE  Counted'
    <2>1. Others(p) /\ Place(p) \notin Starting /\ (Place(p))' \notin Starting
      BY <1>0, <1>2, TimingMoves DEF Starting
    <2> QED BY <1>2, <2>1, CountedStay, Alone
  <1>3. ASSUME NEW p \in DOMAIN todo, UpdatingStep(p)
        PROVE  Counted'
    <2>1. Others(p) /\ Place(p) \notin Starting /\ (Place(p))' \notin Starting
      BY <1>0, <1>3, UpdatingMoves DEF Starting
    <2> QED BY <1>3, <2>1, CountedStay, Alone
  <1>4. ASSUME NEW p \in DOMAIN todo, ClosingStep(p)
        PROVE  Counted'
    <2>1. Others(p) /\ Place(p) \notin Starting /\ (Place(p))' \notin Starting
      BY <1>0, <1>4, ClosingMoves DEF Starting
    <2>2. queue'.active = queue.active
      BY <1>0, <1>4 DEF ClosingStep, Lock, Shut, Clear, Stop, Unlock, Wait, Closed, TypeOK
    <2> QED BY <2>1, <2>2, CountedStay
  <1>5. ASSUME NEW p \in DOMAIN todo, Tasking(p)
        PROVE  Counted'
    <2>1. CASE Leaves(p) /\ Place(p) \in Starting /\ UNCHANGED queue
      <3>1. DOMAIN todo' = DOMAIN todo \ {p} /\ \A q \in DOMAIN todo' : (Place(q))' = Place(q)
        BY <2>1 DEF Leaves
      <3>2. Running' = Running
        BY <2>1, <3>1 DEF Running, Starting
      <3> QED BY <2>1, <3>2 DEF Counted
    <2>2. CASE Match(p)
      <3>1. Place(p) = "match" /\ UNCHANGED queue /\ (Leaves(p) \/ Goes(p, {"spawn"}))
        BY <1>0, <2>2, TaskGoes DEF Match
      <3>2. CASE Goes(p, {"spawn"})
        <4>1. /\ DOMAIN todo' = DOMAIN todo /\ (Place(p))' = "spawn"
              /\ \A q \in DOMAIN todo : q # p => (Place(q))' = Place(q)
          BY <3>2 DEF Goes, Others
        <4>2. Running' = Running
          BY <3>1, <4>1 DEF Running
        <4> QED BY <3>1, <4>2 DEF Counted
      <3> QED BY <2>1, <3>1, <3>2 DEF Starting
    <2>3. CASE Spawn(p)
      <3>1. CASE Leaves(p) /\ UNCHANGED queue
        BY <1>0, <2>1, <2>3, <3>1, TaskGoes DEF Starting
      <3>2. CASE Goes(p, {"run"}) /\ queue' = [queue EXCEPT !.active = queue.active + 1]
        <4>1. /\ DOMAIN todo' = DOMAIN todo /\ (Place(p))' = "run" /\ Place(p) = "spawn" /\ p \notin Thread
              /\ \A q \in DOMAIN todo : q # p => (Place(q))' = Place(q)
          BY <1>0, <2>3, <3>2, TaskGoes DEF Goes, Others
        <4>2. Running' = Running \cup {p} /\ p \notin Running
          BY <4>1 DEF Running
        <4>3. IsFiniteSet(Running') /\ Cardinality(Running') = Cardinality(Running) + 1
          BY <4>2, FS_AddElement DEF Counted
        <4>4. queue'.active = queue.active + 1
          BY <1>0, <3>2 DEF TypeOK
        <4> QED BY <4>3, <4>4 DEF Counted
      <3> QED BY <1>0, <2>3, <3>1, <3>2, TaskGoes
    <2>4. CASE Run(p)
      <3>1. Others(p) /\ Place(p) \notin Starting /\ (Place(p))' \notin Starting
        BY <1>0, <2>4, TaskGoes DEF Goes, Starting
      <3> QED BY <2>4, <3>1, CountedStay DEF Run
    <2>5. CASE Deliver(p)
      <3>1. Others(p) /\ Place(p) \notin Starting /\ (Place(p))' \notin Starting
        BY <1>0, <2>5, TaskGoes DEF Goes, Starting
      <3> QED BY <2>5, <3>1, CountedStay DEF Deliver
    <2>6. CASE Finish(p)
      <3>1. /\ DOMAIN todo' = DOMAIN todo \ {p} /\ Place(p) = "finish" /\ p \notin Thread
            /\ \A q \in DOMAIN todo' : (Place(q))' = Place(q)
        BY <1>0, <2>6, TaskGoes DEF Leaves
      <3>2. Running' = Running \ {p} /\ p \in Running
        BY <3>1 DEF Running
      <3>3. IsFiniteSet(Running') /\ Cardinality(Running') = Cardinality(Running) - 1
        BY <3>2, FS_RemoveElement DEF Counted
      <3>4. queue'.active = queue.active - 1
        BY <2>6 DEF Finish
      <3> QED BY <3>3, <3>4 DEF Counted
    <2> QED BY <1>5, <2>2, <2>3, <2>4, <2>5, <2>6 DEF Tasking
  <1>6. ASSUME NEW t \in armed, Fire(t)
        PROVE  Counted'
    <2>1. UNCHANGED queue /\ t \notin DOMAIN todo
      BY <1>0, <1>6 DEF Fire, Names
    <2>2. DOMAIN todo' = DOMAIN todo \cup {t} /\ (Place(t))' = "match" /\ \A q \in DOMAIN todo : (Place(q))' = Place(q)
      BY <1>6, <2>1, FireEnters DEF Enters
    <2>3. Running' = Running
      BY <2>1, <2>2 DEF Running
    <2> QED BY <2>1, <2>3 DEF Counted
  <1>7. ASSUME NEW p \in Thread, NEW op \in Calls, NEW f \in File, Call(p, op, f)
        PROVE  Counted'
    <2>1. Others(p) /\ Place(p) \notin Starting /\ (Place(p))' \notin Starting /\ p \in DOMAIN todo
      BY <1>0, <1>7, CallGoes DEF Goes, Starting
    <2> QED BY <1>7, <2>1, CountedStay DEF Call
  <1>8. CASE UNCHANGED vars
    <2>1. UNCHANGED <<queue, todo>>
      BY <1>8 DEF vars
    <2>2. \A q : (Place(q))' = Place(q)
      BY <2>1, PlacePrimed DEF Place
    <2>3. Running' = Running
      BY <2>1, <2>2 DEF Running
    <2> QED BY <2>1, <2>3 DEF Counted
  <1> QED BY <1>1, <1>2, <1>3, <1>4, <1>5, <1>6, <1>7, <1>8 DEF Next, Rest, Calls

----------------------------------------------------------------------------
(* Closing *)

(* What a close did is not undone. *)
LEMMA SnapshotGone ==
    ASSUME Base, [Next]_vars, snapshot = Nil
    PROVE  snapshot' = Nil /\ (pending = Empty => pending' = Empty)
  <1>0. Planned /\ TypeOK /\ Locks /\ readers = {}
    BY DEF Base, Shape, Locks
  <1>1. CASE UNCHANGED <<snapshot, pending>>
    BY <1>1
  <1>2. ASSUME NEW p \in DOMAIN todo, Notifying(p)
        PROVE  snapshot' = Nil /\ (pending = Empty => pending' = Empty)
    <2>1. UNCHANGED snapshot
      BY <1>2, Alone
    <2>2. ~Push(p)
      <3>1. Push(p) => Reads(p)
        BY <1>0, PlaceAt DEF Push, Reading
      <3> QED BY <1>0, <3>1 DEF Locks
    <2>3. pending = Empty /\ Rollback(p) => UNCHANGED pending
      <3>1. At(p, "rollback") => todo[p][1] \in Steps /\ todo[p][1][1] = "rollback" /\ Head(todo[p]) = todo[p][1]
        BY <1>0, PlaceAt
      <3>2. At(p, "rollback") => todo[p][1][2] \in Nat
        BY <3>1, StepKinds DEF Applied
      <3> QED BY <3>1, <3>2, SessionAssumption DEF Rollback, Arg, Empty
    <2>4. ~Rollback(p) => UNCHANGED pending
      BY <1>2, <2>2 DEF Notifying, Enqueue, Watched, Unread, Apply, Settle, Refused, work
    <2> QED BY <2>1, <2>3, <2>4
  <1>3. ASSUME NEW p \in DOMAIN todo, UpdatingStep(p)
        PROVE  UNCHANGED <<snapshot, pending>>
    <2>1. Place(p) \notin Holds
      BY <1>0 DEF Locks
    <2>2. Place(p) = "look"
      BY <1>0, <1>3, <2>1, UpdatingMoves DEF Holds, Builds
    <2>3. ~At(p, "take") /\ ~At(p, "build") /\ ~At(p, "publish") /\ ~At(p, "announce") /\ ~At(p, "restore")
      BY <1>0, <2>2, PlaceAt
    <2>4. Look(p)
      BY <1>3, <2>3 DEF UpdatingStep, Take, Build, Publish, Announce, Restore
    <2> QED BY <2>4 DEF Look, work
  <1>4. ASSUME NEW p \in DOMAIN todo, ClosingStep(p)
        PROVE  snapshot' = Nil /\ (pending = Empty => pending' = Empty)
    BY <1>4 DEF ClosingStep, Lock, Shut, Clear, Stop, Unlock, Wait, Closed, work
  <1>5. (\E p \in DOMAIN todo : Timing(p) \/ Tasking(p)) => UNCHANGED <<snapshot, pending>>
    BY Alone
  <1>6. (\E p \in Thread, op \in Calls, f \in File : Call(p, op, f)) => UNCHANGED <<snapshot, pending>>
    BY DEF Call, work
  <1>7. (\E t \in armed : Fire(t)) => UNCHANGED <<snapshot, pending>>
    BY DEF Fire, work
  <1>8. UNCHANGED vars => UNCHANGED <<snapshot, pending>>
    BY DEF vars, work
  <1> QED BY <1>1, <1>2, <1>3, <1>4, <1>5, <1>6, <1>7, <1>8 DEF Next, Rest, Calls

(* Once the timers are stopped none is kept, and no refresh is delivered. *)
LEMMA TimersGone ==
    ASSUME Base, [Next]_vars, token
    PROVE  token' /\ \A k \in Kind : Quiet(k) => (Quiet(k))'
  <1>0. Planned /\ TypeOK
    BY DEF Base, Shape
  <1>1. ASSUME token', live' \subseteq live, \A k \in Kind : slot'[k].timer = slot[k].timer \/ slot'[k].timer = Nil
        PROVE  token' /\ \A k \in Kind : Quiet(k) => (Quiet(k))'
    BY <1>1 DEF Quiet
  <1>2. CASE token' /\ live' \subseteq live /\ UNCHANGED slot
    BY <1>1, <1>2
  <1>3. ASSUME NEW k \in Kind, NEW d, NEW new, Renew(k, d, new), UNCHANGED token
        PROVE  token' /\ \A j \in Kind : Quiet(j) => (Quiet(j))'
    <2>1. live' \subseteq live
      BY <1>3 DEF Renew, Called
    <2>2. \A j \in Kind : slot'[j].timer = slot[j].timer \/ slot'[j].timer = Nil
      <3>1. /\ \A j \in Kind : j # k => slot'[j] = slot[j]
            /\ slot'[k] = [epoch |-> slot[k].epoch + 1, timer |-> Nil, delivery |-> d]
        BY <1>0, <1>3, Renewed
      <3> QED BY <3>1
    <2> QED BY <1>1, <1>3, <2>1, <2>2
  <1>4. ASSUME NEW p \in DOMAIN todo, Timing(p)
        PROVE  token' /\ \A k \in Kind : Quiet(k) => (Quiet(k))'
    <2>0. UNCHANGED token
      BY <1>4, Alone
    <2>1. CASE Cancel(p)
      <3>1. todo[p][1][2] \in Kind /\ Renew(todo[p][1][2], Nil, {})
        BY <1>0, <2>1, CancelGoes
      <3> QED BY <1>3, <2>0, <3>1
    <2>2. CASE Schedule(p)
      BY <1>2, <2>2 DEF Schedule, timers
    <2>3. CASE Arm(p)
      <3>1. PICK k, e : k \in Kind /\ Renew(k, IF k = "refresh" THEN e ELSE Nil, {<<k, e>>})
        BY <1>0, <2>3, ArmDoes
      <3> QED BY <1>3, <2>0, <3>1
    <2>4. CASE Store(p)
      <3>1. \A j \in Kind : slot'[j].timer = slot[j].timer
        BY <1>0, <2>4, StoreDoes
      <3> QED BY <1>1, <2>0, <2>4, <3>1 DEF Store
    <2> QED BY <1>4, <2>1, <2>2, <2>3, <2>4 DEF Timing
  <1>5. ASSUME NEW p \in DOMAIN todo, Tasking(p)
        PROVE  token' /\ live' \subseteq live /\ UNCHANGED slot
    <2>1. UNCHANGED <<token, slot>>
      BY <1>5, Alone
    <2>2. live' \subseteq live
      BY <1>5 DEF Tasking, Match, Spawn, Run, Deliver, Finish, timers, Matches
    <2> QED BY <2>1, <2>2
  <1>6. ASSUME NEW p \in DOMAIN todo, Notifying(p) \/ UpdatingStep(p)
        PROVE  token' /\ live' \subseteq live /\ UNCHANGED slot
    BY <1>6, Alone
  <1>7. ASSUME NEW p \in DOMAIN todo, ClosingStep(p)
        PROVE  token' /\ live' \subseteq live /\ UNCHANGED slot
    <2>1. UNCHANGED <<live, slot>>
      BY <1>7, Alone
    <2>2. token'
      BY <1>7 DEF ClosingStep, Lock, Shut, Clear, Stop, Unlock, Wait, Closed, timers
    <2> QED BY <2>1, <2>2
  <1>8. (\E p \in Thread, op \in Calls, f \in File : Call(p, op, f)) => token' /\ live' \subseteq live /\ UNCHANGED slot
    BY DEF Call, timers
  <1>9. (\E t \in armed : Fire(t)) => token' /\ live' \subseteq live /\ UNCHANGED slot
    BY DEF Fire
  <1>10. UNCHANGED vars => token' /\ live' \subseteq live /\ UNCHANGED slot
    BY DEF vars, timers
  <1> QED BY <1>2, <1>4, <1>5, <1>6, <1>7, <1>8, <1>9, <1>10 DEF Next, Rest, Calls

(* A closed queue takes no task, and one that is empty stays so. *)
LEMMA QueueGone ==
    ASSUME Base, Counted, [Next]_vars, queue.closed
    PROVE  queue'.closed /\ (queue.active = 0 => queue'.active = 0)
  <1>0. Planned /\ TypeOK
    BY DEF Base, Shape
  <1>1. CASE UNCHANGED queue
    BY <1>1
  <1>2. ASSUME NEW p \in DOMAIN todo, Tasking(p)
        PROVE  queue'.closed /\ (queue.active = 0 => queue'.active = 0)
    <2>1. CASE Finish(p)
      <3>1. Place(p) = "finish" /\ p \notin Thread
        BY <1>0, <2>1, TaskGoes
      <3>2. p \in Running
        BY <3>1 DEF Running
      <3>3. queue.active # 0
        BY <3>2, FS_EmptySet DEF Counted
      <3> QED BY <2>1, <3>3 DEF Finish
    <2>2. CASE Spawn(p)
      BY <2>2 DEF Spawn
    <2>3. CASE Match(p) \/ Run(p) \/ Deliver(p)
      BY <1>1, <2>3 DEF Match, Run, Deliver
    <2> QED BY <1>2, <2>1, <2>2, <2>3 DEF Tasking
  <1>3. ASSUME NEW p \in DOMAIN todo, ClosingStep(p)
        PROVE  queue'.closed /\ (queue.active = 0 => queue'.active = 0)
    BY <1>0, <1>3 DEF ClosingStep, Lock, Shut, Clear, Stop, Unlock, Wait, Closed, TypeOK
  <1>4. (\E p \in DOMAIN todo : Notifying(p) \/ Timing(p) \/ UpdatingStep(p)) => UNCHANGED queue
    BY Alone
  <1>5. (\E p \in Thread, op \in Calls, f \in File : Call(p, op, f)) => UNCHANGED queue
    BY DEF Call
  <1>6. (\E t \in armed : Fire(t)) => UNCHANGED queue
    BY DEF Fire
  <1>7. UNCHANGED vars => UNCHANGED queue
    BY DEF vars
  <1> QED BY <1>1, <1>2, <1>3, <1>4, <1>5, <1>6, <1>7 DEF Next, Rest, Calls

(* How a thread gets to a step of a close *)
Advances(q) ==
    \/ (Place(q))' = "clear" /\ Place(q) = "shut" /\ Shut(q)
    \/ (Place(q))' = "stop" /\ Place(q) = "clear" /\ Clear(q)
    \/ (Place(q))' = "endUpdate" /\ Place(q) = "stop" /\ Stop(q)
    \/ (Place(q))' = "endIdle" /\ Place(q) = "endUpdate" /\ Cancel(q)
    \/ (Place(q))' = "endRefresh" /\ Place(q) = "endIdle" /\ Cancel(q)
    \/ (Place(q))' = "unlock" /\ Place(q) = "endRefresh" /\ Cancel(q)
    \/ (Place(q))' = "wait" /\ Place(q) = "unlock" /\ Unlock(q)
    \/ (Place(q))' = "closed" /\ Place(q) = "wait" /\ Wait(q)

(* A thread gets to the later places of a close only one by one.           *)
LEMMA ClosePlaces ==
    ASSUME Base, [Next]_vars, NEW q \in DOMAIN todo', (Place(q))' \in PastShut
    PROVE  q \in DOMAIN todo /\ ((Place(q))' = Place(q) \/ Advances(q))
  <1> USE DEF PastShut, PastClear, PastStop, PastUpdate, PastIdle, PastRefresh
  <1>0. Planned /\ TypeOK
    BY DEF Base, Shape
  <1>1. ASSUME NEW p \in DOMAIN todo, Others(p),
               (Place(p))' \notin PastShut \/ Advances(p)
        PROVE  q \in DOMAIN todo /\ ((Place(q))' = Place(q) \/ Advances(q))
    BY <1>1 DEF Others
  <1>2. ASSUME NEW p \in DOMAIN todo, Notifying(p) \/ Timing(p) \/ UpdatingStep(p) \/ ClosingStep(p)
        PROVE  q \in DOMAIN todo /\ ((Place(q))' = Place(q) \/ Advances(q))
    <2>1. CASE Notifying(p)
      BY <1>0, <1>1, <2>1, NotifyingMoves
    <2>2. CASE Timing(p)
      <3>1. Others(p) /\ ((Place(p))' \notin PastShut \/ Advances(p))
        BY <1>0, <2>2, TimingMoves DEF Advances
      <3> QED BY <1>1, <3>1
    <2>3. CASE UpdatingStep(p)
      BY <1>0, <1>1, <2>3, UpdatingMoves
    <2>4. CASE ClosingStep(p)
      <3>1. Others(p) /\ ((Place(p))' \notin PastShut \/ Advances(p))
        BY <1>0, <2>4, ClosingMoves DEF Advances
      <3> QED BY <1>1, <3>1
    <2> QED BY <1>2, <2>1, <2>2, <2>3, <2>4
  <1>3. ASSUME NEW p \in DOMAIN todo, Tasking(p)
        PROVE  q \in DOMAIN todo /\ ((Place(q))' = Place(q) \/ Advances(q))
    <2>1. Leaves(p) \/ (Others(p) /\ (Place(p))' \notin PastShut)
      BY <1>0, <1>3, TaskGoes DEF Tasking, Goes
    <2> QED BY <1>1, <2>1 DEF Leaves
  <1>4. ASSUME NEW t \in armed, Fire(t)
        PROVE  q \in DOMAIN todo /\ ((Place(q))' = Place(q) \/ Advances(q))
    BY <1>4, FireEnters DEF Enters
  <1>5. ASSUME NEW p \in Thread, NEW op \in Calls, NEW f \in File, Call(p, op, f)
        PROVE  q \in DOMAIN todo /\ ((Place(q))' = Place(q) \/ Advances(q))
    <2>1. p \in DOMAIN todo /\ Others(p) /\ (Place(p))' \notin PastShut
      BY <1>0, <1>5, CallGoes DEF Goes
    <2> QED BY <1>1, <2>1
  <1>6. CASE UNCHANGED vars
    <2>1. UNCHANGED todo
      BY <1>6 DEF vars
    <2> QED BY <2>1, PlacePrimed DEF Place
  <1> QED BY <1>2, <1>3, <1>4, <1>5, <1>6 DEF Next, Rest, Calls

(* What is over once a thread is at a place of a close *)
Over(a) ==
    /\ a \in PastShut => snapshot = Nil
    /\ a \in PastClear => pending = Empty
    /\ a \in PastStop => token
    /\ a \in PastUpdate => Quiet("update")
    /\ a \in PastIdle => Quiet("idle")
    /\ a \in PastRefresh => Quiet("refresh")
    /\ a \in {"wait", "closed"} => queue.closed
    /\ a = "closed" => queue.active = 0

(* It stays over. *)
LEMMA StaysOver ==
    ASSUME Base, Counted, [Next]_vars, NEW a, Over(a)
    PROVE  (Over(a))'
  <1>1. \A k \in Kind : token /\ Quiet(k) => (Quiet(k))'
    BY TimersGone
  <1>2. Quiet("update") => (Quiet("update"))'
    BY <1>1 DEF Quiet, Kind
  <1>3. Quiet("idle") => (Quiet("idle"))'
    BY <1>1 DEF Quiet, Kind
  <1>4. Quiet("refresh") => (Quiet("refresh"))'
    BY <1>1 DEF Quiet, Kind
  <1>5. /\ a \in PastShut => snapshot' = Nil
        /\ a \in PastClear => pending' = Empty
    BY SnapshotGone DEF Over, PastShut
  <1>6. a \in PastStop => token'
    BY TimersGone DEF Over
  <1>7. /\ a \in {"wait", "closed"} => queue'.closed
        /\ a = "closed" => queue'.active = 0
    BY QueueGone DEF Over
  <1> QED BY <1>2, <1>3, <1>4, <1>5, <1>6, <1>7 DEF Over, PastShut, PastClear, PastStop, PastUpdate,
                                                      PastIdle, PastRefresh

(* A step of a close does what the places behind it say. *)
LEMMA AdvancesOver ==
    ASSUME Base, Counted, RefreshAgrees, [Next]_vars, NEW q \in DOMAIN todo, Over(Place(q)), Advances(q)
    PROVE  (Over((Place(q))))'
  <1> USE DEF PastShut, PastClear, PastStop, PastUpdate, PastIdle, PastRefresh
  <1>0. Planned /\ TypeOK
    BY DEF Base, Shape
  <1>1. PICK a : a = Place(q)
    OBVIOUS
  <1>2. (Over(a))'
    BY <1>1, StaysOver
  <1>3. PICK b : b = (Place(q))'
    OBVIOUS
  <1>4. SUFFICES (Over(b))'
    BY <1>3 DEF Over
  <1>5. CASE b = "clear" /\ Shut(q)
    <2>1. snapshot' = Nil
      BY <1>5 DEF Shut
    <2> QED BY <1>5, <2>1 DEF Over
  <1>6. CASE b = "stop" /\ a = "clear" /\ Clear(q)
    <2>1. pending' = Empty
      BY <1>6 DEF Clear
    <2> QED BY <1>2, <1>6, <2>1 DEF Over
  <1>7. CASE b = "endUpdate" /\ a = "stop" /\ Stop(q)
    <2>1. token'
      BY <1>7 DEF Stop
    <2> QED BY <1>2, <1>7, <2>1 DEF Over
  <1>8. ASSUME NEW k \in Kind, Renew(k, Nil, {}), token, token'
        PROVE  (Quiet(k))'
    <2>1. slot'[k] = [epoch |-> slot[k].epoch + 1, timer |-> Nil, delivery |-> Nil]
      BY <1>0, <1>8, Renewed
    <2>2. k = "refresh" => live' = {}
      BY <1>8 DEF Renew, Called, RefreshAgrees
    <2> QED BY <1>8, <2>1, <2>2 DEF Quiet
  <1>9. CASE b = "endIdle" /\ a = "endUpdate" /\ Cancel(q)
    <2>1. Renew("update", Nil, {})
      BY <1>0, <1>1, <1>9, CancelGoes
    <2>2. token /\ token'
      BY <1>1, <1>2, <1>9 DEF Over
    <2>3. (Quiet("update"))'
      BY <1>8, <2>1, <2>2 DEF Kind
    <2> QED BY <1>2, <1>9, <2>3 DEF Over
  <1>10. CASE b = "endRefresh" /\ a = "endIdle" /\ Cancel(q)
    <2>1. Renew("idle", Nil, {})
      BY <1>0, <1>1, <1>10, CancelGoes
    <2>2. token /\ token'
      BY <1>1, <1>2, <1>10 DEF Over
    <2>3. (Quiet("idle"))'
      BY <1>8, <2>1, <2>2 DEF Kind
    <2> QED BY <1>2, <1>10, <2>3 DEF Over
  <1>11. CASE b = "unlock" /\ a = "endRefresh" /\ Cancel(q)
    <2>1. Renew("refresh", Nil, {})
      BY <1>0, <1>1, <1>11, CancelGoes
    <2>2. token /\ token'
      BY <1>1, <1>2, <1>11 DEF Over
    <2>3. (Quiet("refresh"))'
      BY <1>8, <2>1, <2>2 DEF Kind
    <2> QED BY <1>2, <1>11, <2>3 DEF Over
  <1>12. CASE b = "wait" /\ a = "unlock" /\ Unlock(q)
    <2>1. queue'.closed
      BY <1>0, <1>12 DEF Unlock, TypeOK
    <2> QED BY <1>2, <1>12, <2>1 DEF Over
  <1>13. CASE b = "closed" /\ a = "wait" /\ Wait(q)
    <2>1. queue'.active = 0
      BY <1>0, <1>13 DEF Wait, Joined, TypeOK
    <2> QED BY <1>2, <1>13, <2>1 DEF Over
  <1> QED BY <1>1, <1>3, <1>5, <1>6, <1>7, <1>9, <1>10, <1>11, <1>12, <1>13 DEF Advances

(* The history of the events *)
LEMMA EndsStep ==
    ASSUME Base, Closes, [Next]_vars
    PROVE  /\ ~ends'.late
           /\ ends'.sent => ends.sent \/ \E q \in DOMAIN todo : Place(q) = "closed"
  <1>0. Planned /\ TypeOK /\ Locks
    BY DEF Base, Shape
  <1>1. ~ends.late
    BY DEF Closes
  <1>2. CASE UNCHANGED ends
    BY <1>1, <1>2
  <1>3. ASSUME NEW p \in DOMAIN todo, Tasking(p)
        PROVE  ~ends'.late /\ (ends'.sent => ends.sent)
    <2>1. CASE Deliver(p)
      <3>1. ~(ends.sent /\ Matches(p))
        BY DEF Closes, Quiet, Matches, Kind
      <3> QED BY <1>0, <1>1, <2>1, <3>1 DEF Deliver, TypeOK
    <2>2. CASE ~Deliver(p)
      BY <1>1, <1>3, <2>2 DEF Tasking, Match, Spawn, Run, Finish, history
    <2> QED BY <2>1, <2>2
  <1>4. ASSUME NEW p \in DOMAIN todo, UpdatingStep(p)
        PROVE  ~ends'.late /\ (ends'.sent => ends.sent)
    <2>1. CASE Announce(p)
      <3>1. Place(p) = "announce"
        BY <1>0, <2>1, PlaceAt DEF Announce
      <3>2. ~ends.sent
        BY <1>0, <3>1 DEF Locks, Holds, Closes
      <3> QED BY <1>0, <1>1, <2>1, <3>2 DEF Announce, TypeOK
    <2>2. CASE ~Announce(p)
      BY <1>1, <1>4, <2>2 DEF UpdatingStep, Look, Take, Build, Publish, Restore, history
    <2> QED BY <2>1, <2>2
  <1>5. ASSUME NEW p \in DOMAIN todo, ClosingStep(p)
        PROVE  ~ends'.late /\ (ends'.sent => ends.sent \/ \E q \in DOMAIN todo : Place(q) = "closed")
    <2>1. CASE Closed(p)
      <3>1. Place(p) = "closed"
        BY <1>0, <2>1, PlaceAt DEF Closed
      <3> QED BY <1>0, <1>1, <2>1, <3>1 DEF Closed, TypeOK
    <2>2. CASE ~Closed(p)
      BY <1>1, <1>5, <2>2 DEF ClosingStep, Lock, Shut, Clear, Stop, Unlock, Wait, history
    <2> QED BY <2>1, <2>2
  <1>6. (\E p \in DOMAIN todo : Notifying(p) \/ Timing(p)) => UNCHANGED ends
    BY Alone
  <1>7. (\E p \in Thread, op \in Calls, f \in File : Call(p, op, f)) => UNCHANGED ends
    BY DEF Call, history
  <1>8. (\E t \in armed : Fire(t)) => UNCHANGED ends
    BY DEF Fire, history
  <1>9. UNCHANGED vars => UNCHANGED ends
    BY DEF vars, history
  <1> QED BY <1>2, <1>3, <1>4, <1>5, <1>6, <1>7, <1>8, <1>9 DEF Next, Rest, Calls

(* What a close has done by each of its places stays done.                 *)
LEMMA ClosesStep ==
    ASSUME Base, Counted, RefreshAgrees, Closes, [Next]_vars
    PROVE  Closes'
  <1>0. \A q \in DOMAIN todo : Over(Place(q))
    BY DEF Closes, Over
  <1>1. ASSUME NEW q \in DOMAIN todo'
        PROVE  (Over(Place(q)))'
    <2>1. CASE (Place(q))' \notin PastShut
      BY <2>1 DEF Over, PastShut, PastClear, PastStop, PastUpdate, PastIdle, PastRefresh
    <2>2. CASE (Place(q))' \in PastShut
      <3>1. q \in DOMAIN todo /\ ((Place(q))' = Place(q) \/ Advances(q))
        BY <2>2, ClosePlaces
      <3>2. CASE (Place(q))' = Place(q)
        <4>1. PICK a : a = Place(q)
          OBVIOUS
        <4>2. (Over(a))'
          BY <1>0, <3>1, <4>1, StaysOver
        <4> QED BY <3>2, <4>1, <4>2 DEF Over
      <3> QED BY <1>0, <3>1, <3>2, AdvancesOver
    <2> QED BY <2>1, <2>2
  <1>2. ~ends'.late /\ (ends'.sent => ends.sent \/ \E q \in DOMAIN todo : Place(q) = "closed")
    BY EndsStep
  <1>3. ends.sent => Over("closed")
    BY DEF Closes, Over, Kind, Quiet
  <1>4. ends'.sent => Over("closed")
    BY <1>0, <1>2, <1>3
  <1>5. ends'.sent => (Over("closed"))'
    BY <1>4, StaysOver
  <1>6. ends'.sent => /\ snapshot' = Nil /\ pending' = Empty /\ queue'.closed /\ queue'.active = 0
                      /\ \A k \in Kind : (Quiet(k))'
    BY <1>5 DEF Over, Kind, PastShut, PastClear, PastStop, PastUpdate, PastIdle, PastRefresh
  <1>7. token' => snapshot' = Nil
    <2>1. CASE token
      BY <2>1, SnapshotGone DEF Closes
    <2>2. CASE ~token /\ token'
      <3>1. PICK p \in DOMAIN todo : Stop(p)
        <4>1. ASSUME NEW p \in DOMAIN todo, ClosingStep(p)
              PROVE  Stop(p)
          BY <2>2, <4>1 DEF ClosingStep, Lock, Shut, Clear, Unlock, Wait, Closed, timers
        <4> QED BY <2>2, <4>1, Alone DEF Next, Rest, Call, Fire, timers, vars
      <3>2. Place(p) = "stop"
        BY <3>1, PlaceAt DEF Stop, Base, Shape
      <3> QED BY <1>0, <3>1, <3>2 DEF Over, PastShut, PastClear, Stop
    <2> QED BY <2>1, <2>2
  <1>8. \A q \in DOMAIN todo' : (Over(Place(q)))'
    BY <1>1
  <1> QED BY <1>2, <1>6, <1>7, <1>8 DEF Closes, Over

(* Everything a close rests on *)
Ended == RefreshAgrees /\ Counted /\ Closes

(* Nothing is closed at first.                                             *)
LEMMA EndedInit == Init => Ended
  <1> SUFFICES ASSUME Init PROVE Ended
    OBVIOUS
  <1>1. \A p \in DOMAIN todo : Place(p) = "idle"
    BY DEF Init, Place, PlaceOf
  <1>2. Running = {}
    <2>1. DOMAIN todo = Thread
      BY DEF Init
    <2> QED BY <2>1 DEF Running
  <1>3. Counted
    BY <1>2, FS_EmptySet DEF Init, Counted
  <1>4. Closes
    BY <1>1 DEF Init, Closes, PastShut, PastClear, PastStop, PastUpdate, PastIdle, PastRefresh
  <1> QED BY <1>3, <1>4 DEF Ended, Init, RefreshAgrees

(* What a close has done is never undone, and the tasks that run are counted. *)
THEOREM EndedHolds == Spec => []Ended
  <1>1. Init => Ended
    BY EndedInit
  <1>2. Base /\ Ended /\ [Next]_vars => Ended'
    BY RefreshStep, CountedStep, ClosesStep DEF Ended
  <1> QED BY <1>1, <1>2, BaseHolds, PTL DEF Spec

(* When Closed is sent the session is over: no task runs, nothing is pending or
   being built, no timer is kept, no refresh is left uncancelled, and no event
   comes behind Closed, in whatever order the threads of a close, the updates
   and the timers ran (Session::close). *)
THEOREM QuietAfterCloseHolds == Spec => []QuietAfterClose
  <1>1. Base /\ Ended => QuietAfterClose
    <2> SUFFICES ASSUME Base, Ended, ends.sent
                 PROVE  /\ snapshot = Nil /\ pending = Empty /\ taken = Nil
                        /\ queue.active = 0 /\ live = {} /\ ~ends.late
                        /\ \A k \in Kind : slot[k].timer = Nil
      BY DEF QuietAfterClose
    <2>1. /\ snapshot = Nil /\ pending = Empty /\ queue.active = 0 /\ ~ends.late
          /\ \A k \in Kind : Quiet(k)
      BY DEF Ended, Closes
    <2>2. live = {} /\ \A k \in Kind : slot[k].timer = Nil
      BY <2>1 DEF Quiet, Kind
    <2>3. taken = Nil
      BY <2>1 DEF Base, Locks, Builds, Holds
    <2> QED BY <2>1, <2>2, <2>3
  <1> QED BY <1>1, BaseHolds, EndedHolds, PTL

----------------------------------------------------------------------------
(* The changes *)

Series(n) == [i \in 1 .. n |-> i]
(* The numbers up to n, and the next one.                                  *)
LEMMA SeriesGrows ==
    ASSUME NEW n \in Nat, NEW s \in Seq(Nat), s = Series(n)
    PROVE  Append(s, n + 1) = Series(n + 1) /\ Len(s) = n
  <1>1. Len(s) = n /\ \A i \in 1 .. n : s[i] = i
    BY DEF Series
  <1>2. /\ Append(s, n + 1) \in Seq(Nat) /\ Len(Append(s, n + 1)) = n + 1
        /\ \A i \in 1 .. n + 1 : Append(s, n + 1)[i] = i
    <2>1. Append(s, n + 1) \in Seq(Nat) /\ Len(Append(s, n + 1)) = n + 1
      BY <1>1
    <2>2. \A i \in 1 .. n + 1 : Append(s, n + 1)[i] = i
      BY <1>1
    <2> QED BY <2>1, <2>2
  <1>3. Series(n + 1) \in Seq(Nat) /\ Len(Series(n + 1)) = n + 1 /\ \A i \in 1 .. n + 1 : Series(n + 1)[i] = i
    BY DEF Series
  <1>4. Append(s, n + 1) = Series(n + 1)
    BY <1>2, <1>3
  <1> QED BY <1>1, <1>4

(* Two lists of changes put together.                                      *)
LEMMA ChangesJoined ==
    ASSUME NEW s \in Seq(Change), NEW t \in Seq(Change), NEW z, z = s \o t
    PROVE  /\ Len(z) = Len(s) + Len(t) /\ Len(s) \in Nat /\ Len(t) \in Nat
           /\ \A i \in 1 .. Len(s) + Len(t) : z[i] = IF i <= Len(s) THEN s[i] ELSE t[i - Len(s)]
  <1>1. Len(s) \in Nat /\ Len(t) \in Nat
    OBVIOUS
  <1>2. Len(s \o t) = Len(s) + Len(t)
    OBVIOUS
  <1>3. \A i \in 1 .. Len(s) + Len(t) : (s \o t)[i] = IF i <= Len(s) THEN s[i] ELSE t[i - Len(s)]
    OBVIOUS
  <1> QED BY <1>1, <1>2, <1>3

(* The numbers of a list that grows by a change.                           *)
LEMMA SerialsAppend ==
    ASSUME NEW s \in Seq(Change), NEW x \in Change
    PROVE  Append(s, x) \in Seq(Change) /\ Serials(Append(s, x)) = Append(Serials(s), x.n)
  <1>1. PICK z : z = Append(s, x)
    OBVIOUS
  <1>2. z \in Seq(Change) /\ Len(z) = Len(s) + 1 /\ Len(s) \in Nat
        /\ (\A i \in 1 .. Len(s) : z[i] = s[i]) /\ z[Len(s) + 1] = x
    BY <1>1
  <1>3. /\ Serials(s) \in Seq(Nat) /\ Len(Serials(s)) = Len(s) /\ \A i \in 1 .. Len(s) : Serials(s)[i] = s[i].n
    BY SerialsType
  <1>4. /\ Serials(z) \in Seq(Nat) /\ Len(Serials(z)) = Len(z) /\ \A i \in 1 .. Len(z) : Serials(z)[i] = z[i].n
    BY <1>2, SerialsType
  <1>5. x.n \in Nat
    BY DEF Change
  <1>6. Append(Serials(s), x.n) \in Seq(Nat) /\ Len(Append(Serials(s), x.n)) = Len(s) + 1
    BY <1>3, <1>5
  <1>7. \A i \in 1 .. Len(s) + 1 : Append(Serials(s), x.n)[i] = Serials(z)[i]
    BY <1>2, <1>3, <1>4, <1>5
  <1>8. Serials(z) = Append(Serials(s), x.n)
    BY <1>2, <1>4, <1>6, <1>7
  <1> QED BY <1>1, <1>2, <1>8

(* The numbers of two lists put together.                                  *)
LEMMA SerialsJoin ==
    ASSUME NEW s \in Seq(Change), NEW t \in Seq(Change)
    PROVE  s \o t \in Seq(Change) /\ Serials(s \o t) = Serials(s) \o Serials(t)
  <1>1. PICK z : z = s \o t
    OBVIOUS
  <1>2. z \in Seq(Change) /\ Len(z) = Len(s) + Len(t) /\ Len(s) \in Nat /\ Len(t) \in Nat
        /\ \A i \in 1 .. Len(s) + Len(t) : z[i] = IF i <= Len(s) THEN s[i] ELSE t[i - Len(s)]
    BY <1>1
  <1>3. /\ Serials(s) \in Seq(Nat) /\ Len(Serials(s)) = Len(s) /\ \A i \in 1 .. Len(s) : Serials(s)[i] = s[i].n
    BY SerialsType
  <1>4. /\ Serials(t) \in Seq(Nat) /\ Len(Serials(t)) = Len(t) /\ \A i \in 1 .. Len(t) : Serials(t)[i] = t[i].n
    BY SerialsType
  <1>5. /\ Serials(z) \in Seq(Nat) /\ Len(Serials(z)) = Len(z) /\ \A i \in 1 .. Len(z) : Serials(z)[i] = z[i].n
    BY <1>2, SerialsType
  <1>6. PICK u, v, w, m, n : u = Serials(s) /\ v = Serials(t) /\ w = Serials(z) /\ m = Len(s) /\ n = Len(t)
    OBVIOUS
  <1>7. /\ u \in Seq(Nat) /\ v \in Seq(Nat) /\ w \in Seq(Nat) /\ m \in Nat /\ n \in Nat
        /\ Len(u) = m /\ Len(v) = n /\ Len(w) = m + n
        /\ \A i \in 1 .. m : u[i] = s[i].n
        /\ \A i \in 1 .. n : v[i] = t[i].n
        /\ \A i \in 1 .. m + n : w[i] = z[i].n
        /\ \A i \in 1 .. m + n : z[i] = IF i <= m THEN s[i] ELSE t[i - m]
    BY <1>2, <1>3, <1>4, <1>5, <1>6
  <1>8. ASSUME NEW i \in 1 .. m + n, i <= m
        PROVE  w[i] = u[i]
    <2>1. i \in 1 .. m /\ z[i] = s[i]
      BY <1>7, <1>8
    <2> QED BY <2>1, <1>7
  <1>9. ASSUME NEW i \in 1 .. m + n, ~(i <= m)
        PROVE  w[i] = v[i - m]
    <2>1. i - m \in 1 .. n
      BY <1>7, <1>9
    <2> QED BY <2>1, <1>7, <1>9
  <1>10. u \o v \in Seq(Nat) /\ Len(u \o v) = m + n
         /\ \A i \in 1 .. m + n : (u \o v)[i] = IF i <= m THEN u[i] ELSE v[i - m]
    <2>1. u \in Seq(Nat) /\ v \in Seq(Nat) /\ Len(u) = m /\ Len(v) = n
      BY <1>7
    <2> QED BY <2>1, ConcatProperties
  <1>11. w = u \o v
    <2>1. PICK x : x = u \o v
      OBVIOUS
    <2>3. \A i \in 1 .. m + n : x[i] = IF i <= m THEN u[i] ELSE v[i - m]
      BY <1>10, <2>1
    <2>4. Len(w) = m + n
      BY <1>7
    <2>2. \A i \in 1 .. Len(w) : w[i] = x[i]
      BY <1>8, <1>9, <2>3, <2>4
    <2> QED BY <1>7, <1>10, <2>1, <2>2, SeqEqual
  <1> QED BY <1>1, <1>2, <1>6, <1>11

(* Where the changes are *)
Building == IF taken = Nil THEN <<>> ELSE Serials(taken.changes)
(* The places where changes are hold numbers.                              *)
LEMMA Whereabouts ==
    ASSUME TypeOK
    PROVE  /\ Building \in Seq(Nat) /\ Serials(pending.changes) \in Seq(Nat)
           /\ snapshot # Nil => snapshot.changes \in Seq(Nat)
           /\ Serials(<<>>) = <<>>
  <1>1. <<>> \in Seq(Nat) /\ <<>> \in Seq(Change) /\ Len(<<>>) = 0
    OBVIOUS
  <1>2. Len(Serials(<<>>)) = 0 /\ Serials(<<>>) \in Seq(Nat)
    BY <1>1, SerialsType
  <1>3. Serials(<<>>) = <<>>
    BY <1>2
  <1> QED BY <1>1, <1>3, PendingParts, SerialsType DEF Building

(* Three sequences of numbers, joined. *)
LEMMA Regroup ==
    ASSUME NEW a \in Seq(Nat), NEW b \in Seq(Nat), NEW c \in Seq(Nat)
    PROVE  /\ a \o b \o c = a \o (b \o c) /\ a \o <<>> = a
           /\ a \o b \in Seq(Nat) /\ a \o b \o c \in Seq(Nat)
  <1>1. a \o b \o c = a \o (b \o c)
    BY ConcatAssociative
  <1>2. a \o <<>> = a
    BY ConcatEmptySeq
  <1>3. a \o b \in Seq(Nat)
    OBVIOUS
  <1>4. a \o b \o c \in Seq(Nat)
    <2>1. PICK d : d = a \o b
      OBVIOUS
    <2>2. d \o c \in Seq(Nat)
      BY <1>3, <2>1
    <2> QED BY <2>1, <2>2
  <1> QED BY <1>1, <1>2, <1>3, <1>4

(* A number at the end of the last of them. *)
LEMMA RegroupAppend ==
    ASSUME NEW a \in Seq(Nat), NEW b \in Seq(Nat), NEW c \in Seq(Nat), NEW n \in Nat
    PROVE  a \o b \o Append(c, n) = Append(a \o b \o c, n)
  <1>1. PICK d : d = a \o b
    OBVIOUS
  <1>2. d \in Seq(Nat)
    BY <1>1
  <1>3. d \o Append(c, n) = Append(d \o c, n)
    BY <1>2
  <1> QED BY <1>1, <1>3

(* A change that is admitted *)
LEMMA Admitted ==
    ASSUME TypeOK, NEW c \in {"open", "change", "close", "watch"}, NEW f \in File, NEW asks \in BOOLEAN, Admit(c, f, asks)
    PROVE  \E x \in Change : /\ x.n = count.changes + 1 /\ x.asks = asks
                             /\ pending'.changes = Append(pending.changes, x)
                             /\ pending'.inferred = pending.inferred
                             /\ count'.changes = count.changes + 1 /\ count.changes \in Nat
                             /\ count'.options = count.options
  <1>1. PICK x : x = [n |-> count.changes + 1, kind |-> c, file |-> f, asks |-> asks]
    OBVIOUS
  <1>2. count.changes \in Nat /\ count'.changes = count.changes + 1 /\ count'.options = count.options
    BY DEF TypeOK, Admit
  <1>3. x \in Change /\ x.n = count.changes + 1 /\ x.asks = asks
    BY <1>1, <1>2 DEF Change
  <1>4. pending'.changes = Append(pending.changes, x) /\ pending'.inferred = pending.inferred
    BY <1>1 DEF Admit, TypeOK, Pending
  <1> QED BY <1>2, <1>3, <1>4

(* An admitted change is the last of those that are there.                 *)
LEMMA LostAdmit ==
    ASSUME TypeOK, NothingLost, NEW c \in {"open", "change", "close", "watch"}, NEW f \in File, NEW asks \in BOOLEAN,
           Admit(c, f, asks), UNCHANGED <<snapshot, taken>>
    PROVE  NothingLost'
  <1> SUFFICES ASSUME snapshot # Nil
               PROVE  NothingLost'
    BY DEF NothingLost
  <1>1. PICK x \in Change : /\ x.n = count.changes + 1
                            /\ pending'.changes = Append(pending.changes, x)
                            /\ count'.changes = count.changes + 1 /\ count.changes \in Nat
    BY Admitted
  <1>2. pending.changes \in Seq(Change)
    BY PendingParts
  <1>3. PICK a, b, s, n : a = snapshot.changes /\ b = Building /\ s = Serials(pending.changes) /\ n = count.changes
    OBVIOUS
  <1>4. a \in Seq(Nat) /\ b \in Seq(Nat) /\ s \in Seq(Nat) /\ n \in Nat /\ n + 1 \in Nat
    BY <1>1, <1>3, Whereabouts
  <1>5. Serials(pending'.changes) = Append(s, n + 1)
    BY <1>1, <1>2, <1>3, SerialsAppend
  <1>6. a \o b \o s = Series(n)
    BY <1>3 DEF NothingLost, Building, Series
  <1>7. a \o b \o Append(s, n + 1) = Append(a \o b \o s, n + 1) /\ a \o b \o s \in Seq(Nat)
    <2>1. PICK v : v = n + 1
      OBVIOUS
    <2>2. v \in Nat
      BY <1>4, <2>1
    <2>3. a \o b \o Append(s, v) = Append(a \o b \o s, v)
      BY <1>4, <2>2, RegroupAppend
    <2>4. a \o b \o s \in Seq(Nat)
      BY <1>4, Regroup
    <2> QED BY <2>1, <2>3, <2>4
  <1>8. a \o b \o Append(s, n + 1) = Series(n + 1)
    BY <1>4, <1>6, <1>7, SeriesGrows
  <1>9. Building' = b
    BY <1>3 DEF Building, Serials
  <1>10. snapshot'.changes \o Building' \o Serials(pending'.changes) = Series(count'.changes)
    BY <1>1, <1>3, <1>5, <1>8, <1>9
  <1> QED BY <1>10 DEF NothingLost, Building, Series, Serials

(* Every change stays in exactly one place, in order, after every step.    *)
LEMMA LostStep ==
    ASSUME Base, Closes, NothingLost, [Next]_vars
    PROVE  NothingLost'
  <1>0. Planned /\ TypeOK /\ Locks
    BY DEF Base, Shape
  <1>1. CASE UNCHANGED <<snapshot, taken>> /\ pending'.changes = pending.changes /\ count'.changes = count.changes
    BY <1>1 DEF NothingLost, Serials
  <1>2. CASE snapshot' = Nil
    BY <1>2 DEF NothingLost
  <1>3. ASSUME NEW p \in DOMAIN todo, Notifying(p)
        PROVE  NothingLost'
    <2>0. UNCHANGED <<snapshot, taken>>
      BY <1>3, Alone
    <2>1. CASE Push(p)
      <3>1. todo[p][1] \in Steps /\ todo[p][1][1] = "push" /\ Head(todo[p]) = todo[p][1]
        BY <1>0, <2>1, PlaceAt DEF Push
      <3>2. todo[p][1][2] \in Edits /\ todo[p][1][3] \in File
        BY <3>1, StepKinds
      <3>3. Admit(todo[p][1][2], todo[p][1][3], todo[p][1][2] = "close")
        BY <2>1, <3>1 DEF Push, Arg
      <3> QED BY <1>0, <2>0, <3>2, <3>3, LostAdmit DEF Edits
    <2>2. ASSUME NEW relevant \in BOOLEAN, NEW config \in BOOLEAN, Watched(p, relevant, config)
          PROVE  NothingLost'
      <3>1. CASE UNCHANGED <<pending, count>>
        BY <1>1, <2>0, <3>1
      <3>2. CASE Admit("watch", todo[p][1][2], config) /\ todo[p][1] \in Steps /\ todo[p][1][1] = "watched"
        <4>1. todo[p][1][2] \in File
          BY <3>2, StepKinds
        <4> QED BY <1>0, <2>0, <3>2, <4>1, LostAdmit
      <3> QED BY <1>0, <2>2, <3>1, <3>2, WatchedGoes
    <2>3. CASE Apply(p) \/ Rollback(p)
      <3>1. pending'.changes = pending.changes /\ count'.changes = count.changes
        BY <1>0, <2>3 DEF Apply, Refused, Rollback, TypeOK, Pending, work
      <3> QED BY <1>1, <2>0, <3>1
    <2>4. ASSUME NEW mapped \in BOOLEAN, Enqueue(p, mapped)
          PROVE  UNCHANGED <<pending, count>>
      BY <2>4 DEF Enqueue, Refused, work
    <2>5. Unread(p) \/ Settle(p) => UNCHANGED <<pending, count>>
      BY DEF Unread, Settle, work
    <2> QED BY <1>1, <1>3, <2>0, <2>1, <2>2, <2>3, <2>4, <2>5 DEF Notifying
  <1>4. ASSUME NEW p \in DOMAIN todo, UpdatingStep(p)
        PROVE  NothingLost'
    <2>0. UNCHANGED count
      BY <1>4, Alone
    <2>1. ASSUME NEW need \in BOOLEAN, Take(p, need)
          PROVE  NothingLost'
      <3>1. Place(p) = "take"
        BY <1>0, <2>1, TakeGoes
      <3>2. taken = Nil /\ snapshot # Nil
        BY <1>0, <3>1 DEF Locks, Holds, Builds
      <3>3. CASE UNCHANGED work
        BY <1>1, <2>0, <2>1, <3>3 DEF Take, work
      <3>4. CASE taken' = pending /\ pending' = Empty
        <4>1. pending # Nil /\ UNCHANGED snapshot
          BY <1>0, <2>1, SessionAssumption DEF TypeOK, Take
        <4>2. PICK a, s : a = snapshot.changes /\ s = Serials(pending.changes)
          OBVIOUS
        <4>3. a \in Seq(Nat) /\ s \in Seq(Nat) /\ <<>> \in Seq(Nat)
          BY <1>0, <3>2, <4>2, Whereabouts
        <4>4. a \o <<>> \o s = Series(count.changes)
          BY <3>2, <4>2 DEF NothingLost, Series
        <4>5. a \o s \o <<>> = a \o <<>> \o s
          <5>1. a \o <<>> = a
            BY <4>3, ConcatEmptySeq
          <5>2. PICK q : q = a \o s
            OBVIOUS
          <5>3. q \in Seq(Nat)
            BY <4>3, <5>2
          <5>4. q \o <<>> = q
            BY <5>3, ConcatEmptySeq
          <5> QED BY <5>1, <5>2, <5>4
        <4>6. Serials(taken'.changes) = s /\ Serials(pending'.changes) = <<>> /\ taken' # Nil
          BY <1>0, <3>4, <4>1, <4>2, Whereabouts, PendingParts
        <4>7. snapshot'.changes \o Serials(taken'.changes) \o Serials(pending'.changes) = Series(count'.changes)
          BY <2>0, <4>1, <4>2, <4>4, <4>5, <4>6
        <4> QED BY <4>6, <4>7 DEF NothingLost, Series, Serials
      <3> QED BY <2>1, <3>3, <3>4 DEF Take
    <2>2. CASE Publish(p)
      <3>1. Place(p) = "publish"
        BY <1>0, <2>2, PublishGoes
      <3>2. snapshot # Nil /\ taken # Nil
        BY <1>0, <3>1 DEF Locks, Builds, Holds
      <3>3. PICK a, b, s : a = snapshot.changes /\ b = Serials(taken.changes) /\ s = Serials(pending.changes)
        OBVIOUS
      <3>4. a \in Seq(Nat) /\ b \in Seq(Nat) /\ s \in Seq(Nat) /\ a \o b \in Seq(Nat)
        BY <1>0, <3>2, <3>3, Whereabouts DEF Building
      <3>5. a \o b \o s = Series(count.changes)
        BY <3>2, <3>3 DEF NothingLost, Series
      <3>6. a \o b \o <<>> = a \o b
        BY <3>4, ConcatEmptySeq
      <3>7. snapshot'.changes = a \o b /\ taken' = Nil /\ UNCHANGED pending
        BY <2>2, <3>3 DEF Publish
      <3>8. snapshot'.changes \o <<>> \o Serials(pending'.changes) = Series(count'.changes)
        BY <2>0, <3>3, <3>5, <3>6, <3>7
      <3> QED BY <3>7, <3>8 DEF NothingLost, Series, Serials
    <2>3. CASE Restore(p)
      <3>1. Place(p) = "restore" /\ UNCHANGED snapshot
        BY <1>0, <2>3, PlaceAt DEF Restore
      <3>2. snapshot # Nil /\ taken # Nil
        BY <1>0, <3>1 DEF Locks, Builds, Holds
      <3>3. PICK a, b, s : a = snapshot.changes /\ b = Serials(taken.changes) /\ s = Serials(pending.changes)
        OBVIOUS
      <3>4. a \in Seq(Nat) /\ b \in Seq(Nat) /\ s \in Seq(Nat)
        BY <1>0, <3>2, <3>3, Whereabouts DEF Building
      <3>5. a \o b \o s = Series(count.changes)
        BY <3>2, <3>3 DEF NothingLost, Series
      <3>6. a \o <<>> = a /\ a \o b \o s = a \o (b \o s)
        <4>1. a \o <<>> = a
          BY <3>4, ConcatEmptySeq
        <4>2. a \o b \o s = a \o (b \o s)
          BY <3>4, ConcatAssociative
        <4> QED BY <4>1, <4>2
      <3>7. pending'.changes = taken.changes \o pending.changes /\ taken' = Nil
        BY <2>3 DEF Restore, Merged
      <3>8. Serials(pending'.changes) = b \o s
        BY <1>0, <3>2, <3>3, <3>7, PendingParts, SerialsJoin
      <3>9. snapshot'.changes \o <<>> \o Serials(pending'.changes) = Series(count'.changes)
        BY <2>0, <3>1, <3>3, <3>5, <3>6, <3>8
      <3> QED BY <3>7, <3>9 DEF NothingLost, Series, Serials
    <2>4. ASSUME NEW outcome \in {"ok", "error", "panic"}, Build(p, outcome)
          PROVE  UNCHANGED <<snapshot, taken, pending>>
      BY <2>4 DEF Build, work
    <2>5. Look(p) \/ Announce(p) => UNCHANGED <<snapshot, taken, pending>>
      BY DEF Look, Announce, work
    <2> QED BY <1>1, <1>4, <2>0, <2>1, <2>2, <2>3, <2>4, <2>5 DEF UpdatingStep
  <1>5. ASSUME NEW p \in DOMAIN todo, ClosingStep(p)
        PROVE  NothingLost'
    <2>1. CASE Clear(p)
      <3>1. Place(p) = "clear"
        BY <1>0, <2>1, PlaceAt DEF Clear
      <3>2. snapshot = Nil
        BY <3>1 DEF Closes, PastShut
      <3> QED BY <1>2, <2>1, <3>2 DEF Clear
    <2>2. CASE Shut(p)
      BY <1>2, <2>2 DEF Shut
    <2>3. CASE Lock(p) \/ Stop(p) \/ Unlock(p) \/ Wait(p) \/ Closed(p)
      BY <1>1, <2>3 DEF Lock, Stop, Unlock, Wait, Closed, work
    <2> QED BY <1>5, <2>1, <2>2, <2>3 DEF ClosingStep
  <1>6. (\E p \in DOMAIN todo : Timing(p) \/ Tasking(p)) => UNCHANGED <<snapshot, taken, pending, count>>
    BY Alone
  <1>7. (\E p \in Thread, op \in Calls, f \in File : Call(p, op, f))
           => UNCHANGED <<snapshot, taken, pending>> /\ count'.changes = count.changes
    BY <1>0 DEF Call, work, TypeOK
  <1>8. (\E t \in armed : Fire(t)) => UNCHANGED <<snapshot, taken, pending>> /\ count'.changes = count.changes
    BY <1>0 DEF Fire, work, TypeOK
  <1>9. UNCHANGED vars => UNCHANGED <<snapshot, taken, pending, count>>
    BY DEF vars, work
  <1> QED BY <1>1, <1>3, <1>4, <1>5, <1>6, <1>7, <1>8, <1>9 DEF Next, Rest, Calls

(* Every change that was admitted is in the snapshot, in the update under way
   or pending, once and in the order of admission. *)
THEOREM NothingLostHolds == Spec => []NothingLost
  <1>1. Init => NothingLost
    <2> SUFFICES ASSUME Init PROVE NothingLost
      OBVIOUS
    <2>1. <<>> \in Seq(Nat) /\ <<>> \in Seq(Change) /\ Len(<<>>) = 0
      OBVIOUS
    <2>2. Serials(<<>>) = <<>>
      <3>1. Len(Serials(<<>>)) = 0 /\ Serials(<<>>) \in Seq(Nat)
        BY <2>1, SerialsType
      <3> QED BY <3>1
    <2>3. <<>> \o <<>> \o <<>> = <<>> /\ Series(0) = <<>>
      BY DEF Series
    <2>4. snapshot.changes = <<>> /\ taken = Nil /\ pending.changes = <<>> /\ count.changes = 0
      BY DEF Init, Empty
    <2>5. snapshot.changes \o <<>> \o Serials(pending.changes) = Series(count.changes)
      BY <2>2, <2>3, <2>4
    <2> QED BY <2>4, <2>5 DEF NothingLost, Series
  <1>2. Base /\ Ended /\ NothingLost /\ [Next]_vars => NothingLost'
    BY LostStep DEF Ended
  <1> QED BY <1>1, <1>2, BaseHolds, EndedHolds, PTL DEF Spec

----------------------------------------------------------------------------
(* The updates that were asked for *)

(* Epochs only grow. *)
LEMMA EpochsGrow ==
    ASSUME Base, [Next]_vars
    PROVE  \A k \in Kind : slot[k].epoch \in Nat /\ slot'[k].epoch \in Nat /\ slot[k].epoch <= slot'[k].epoch
  <1>0. Planned /\ TypeOK
    BY DEF Base, Shape
  <1>1. \A k \in Kind : slot[k].epoch \in Nat
    BY <1>0 DEF TypeOK, Slot
  <1>2. CASE UNCHANGED slot
    BY <1>1, <1>2
  <1>3. ASSUME NEW p \in DOMAIN todo, Timing(p)
        PROVE  \A k \in Kind : slot[k].epoch \in Nat /\ slot'[k].epoch \in Nat /\ slot[k].epoch <= slot'[k].epoch
    <2>1. CASE Cancel(p)
      BY <1>0, <2>1, CancelGoes, Renewed
    <2>2. CASE Arm(p)
      <3>1. PICK k, e, d, n : k \in Kind /\ d = (IF k = "refresh" THEN e ELSE Nil) /\ n = {<<k, e>>} /\ Renew(k, d, n)
        BY <1>0, <2>2, ArmDoes
      <3> QED BY <1>0, <3>1, Renewed
    <2>3. CASE Store(p)
      <3>1. \A k \in Kind : slot'[k].epoch = slot[k].epoch
        BY <1>0, <2>3, StoreDoes
      <3> QED BY <1>1, <3>1
    <2>4. CASE Schedule(p)
      BY <1>2, <2>4 DEF Schedule, timers
    <2> QED BY <1>3, <2>1, <2>2, <2>3, <2>4 DEF Timing
  <1>4. (\E p \in DOMAIN todo : Notifying(p) \/ Tasking(p) \/ UpdatingStep(p) \/ ClosingStep(p)) => UNCHANGED slot
    BY Alone
  <1>5. (\E p \in Thread, op \in Calls, f \in File : Call(p, op, f)) => UNCHANGED slot
    BY DEF Call, timers
  <1>6. (\E t \in armed : Fire(t)) => UNCHANGED slot
    BY DEF Fire
  <1>7. UNCHANGED vars => UNCHANGED slot
    BY DEF vars, timers
  <1> QED BY <1>2, <1>3, <1>4, <1>5, <1>6, <1>7 DEF Next, Rest, Calls

(* A task that updates has ended its own timer, after every step.          *)
LEMMA LateStep ==
    ASSUME Base, Late, [Next]_vars
    PROVE  Late'
  <1> USE DEF Holds, Builds
  <1>0. Planned /\ TypeOK /\ Names
    BY DEF Base, Shape
  <1>1. /\ slot["update"].epoch \in Nat /\ slot'["update"].epoch \in Nat
        /\ slot["update"].epoch <= slot'["update"].epoch
    BY EpochsGrow DEF Kind
  <1>2. SUFFICES ASSUME NEW t \in DOMAIN todo' \ Thread, t[1] = "update", (Place(t))' \in Holds \ {"begin"}
                 PROVE  t[2] < slot'["update"].epoch
    BY DEF Late
  <1>3. t \in DOMAIN todo /\ (Place(t) \in Holds \ {"begin"} \/ (Place(t) = "begin" /\ Cancel(t)))
    <2>1. ASSUME NEW p \in DOMAIN todo, Others(p),
                 (Place(p))' \in Holds \ {"begin"} => Place(p) \in Holds \ {"begin"} \/ (Place(p) = "begin" /\ Cancel(p))
          PROVE  t \in DOMAIN todo /\ (Place(t) \in Holds \ {"begin"} \/ (Place(t) = "begin" /\ Cancel(t)))
      BY <1>2, <2>1 DEF Others
    <2>2. ASSUME NEW p \in DOMAIN todo, Notifying(p)
          PROVE  t \in DOMAIN todo /\ (Place(t) \in Holds \ {"begin"} \/ (Place(t) = "begin" /\ Cancel(t)))
      BY <1>0, <2>1, <2>2, NotifyingMoves
    <2>3. ASSUME NEW p \in DOMAIN todo, Timing(p)
          PROVE  t \in DOMAIN todo /\ (Place(t) \in Holds \ {"begin"} \/ (Place(t) = "begin" /\ Cancel(t)))
      <3>1. Others(p) /\ ((Place(p))' \in Holds \ {"begin"} => Place(p) = "begin" /\ Cancel(p))
        BY <1>0, <2>3, TimingMoves
      <3> QED BY <2>1, <3>1
    <2>4. ASSUME NEW p \in DOMAIN todo, UpdatingStep(p)
          PROVE  t \in DOMAIN todo /\ (Place(t) \in Holds \ {"begin"} \/ (Place(t) = "begin" /\ Cancel(t)))
      <3>1. Others(p) /\ ((Place(p))' \in Holds \ {"begin"} => Place(p) \in Holds \ {"begin"})
        BY <1>0, <2>4, UpdatingMoves
      <3> QED BY <2>1, <3>1
    <2>5. ASSUME NEW p \in DOMAIN todo, ClosingStep(p)
          PROVE  t \in DOMAIN todo /\ (Place(t) \in Holds \ {"begin"} \/ (Place(t) = "begin" /\ Cancel(t)))
      BY <1>0, <2>1, <2>5, ClosingMoves
    <2>6. ASSUME NEW p \in DOMAIN todo, Tasking(p)
          PROVE  t \in DOMAIN todo /\ (Place(t) \in Holds \ {"begin"} \/ (Place(t) = "begin" /\ Cancel(t)))
      <3>1. Leaves(p) \/ (Others(p) /\ (Place(p))' \notin Holds)
        BY <1>0, <2>6, TaskGoes DEF Tasking, Goes
      <3> QED BY <1>2, <2>1, <3>1 DEF Leaves
    <2>7. ASSUME NEW u \in armed, Fire(u)
          PROVE  t \in DOMAIN todo /\ Place(t) \in Holds \ {"begin"}
      <3>1. Enters(u)
        BY <2>7, FireEnters
      <3>2. t # u
        <4>1. "match" \notin Holds \ {"begin"}
          BY DEF Holds
        <4> QED BY <4>1, <3>1, <1>2 DEF Enters
      <3>3. t \in DOMAIN todo /\ (Place(t))' = Place(t)
        BY <3>1, <3>2, <1>2 DEF Enters
      <3> QED BY <3>3, <1>2
    <2>8. ASSUME NEW p \in Thread, NEW op \in Calls, NEW f \in File, Call(p, op, f)
          PROVE  t \in DOMAIN todo /\ (Place(t) \in Holds \ {"begin"} \/ (Place(t) = "begin" /\ Cancel(t)))
      <3>1. p \in DOMAIN todo /\ Others(p) /\ (Place(p))' \notin Holds
        BY <1>0, <2>8, CallGoes DEF Goes
      <3> QED BY <2>1, <3>1
    <2>9. UNCHANGED vars => t \in DOMAIN todo /\ Place(t) \in Holds \ {"begin"}
      <3>1. UNCHANGED vars => UNCHANGED todo
        BY DEF vars
      <3> QED BY <1>2, <3>1, PlacePrimed DEF Place
    <2> QED BY <2>2, <2>3, <2>4, <2>5, <2>6, <2>7, <2>8, <2>9 DEF Next, Rest, Calls
  <1>4. t[2] \in Nat /\ t[2] <= slot["update"].epoch
    BY <1>0, <1>2, <1>3 DEF Names, Planned, Timer
  <1>5. CASE Place(t) \in Holds \ {"begin"}
    BY <1>1, <1>2, <1>3, <1>4, <1>5 DEF Late
  <1>6. CASE Place(t) = "begin" /\ Cancel(t)
    <2>1. Renew("update", Nil, {})
      BY <1>0, <1>3, <1>6, CancelGoes
    <2>2. slot'["update"].epoch = slot["update"].epoch + 1
      BY <1>0, <2>1, Renewed DEF Kind
    <2> QED BY <1>1, <1>4, <2>2
  <1> QED BY <1>3, <1>5, <1>6

(* A pending change that no failed update put back has asked for an update. *)
Wants(c) == c.asks /\ c.n \notin excused
Asked == \E i \in 1 .. Len(pending.changes) : Wants(pending.changes[i])
HasIn(s, steps) == \E i \in 1 .. Len(s) : s[i][1] \in steps /\ s[i][2] = "update"
Scheduling == {"schedule", "arm"}

(* Having a step, in both states.                                          *)
LEMMA HasPrimed ==
    ASSUME NEW p
    PROVE  (Has(p, Scheduling) <=> HasIn(todo[p], Scheduling)) /\ ((Has(p, Scheduling))' <=> HasIn(todo'[p], Scheduling))
  BY DEF Has, HasIn, Scheduling

(* The numbers of the changes that are pending and of those being built *)
LEMMA Distinct ==
    ASSUME TypeOK, NothingLost, snapshot # Nil, taken # Nil,
           NEW i \in 1 .. Len(taken.changes), NEW j \in 1 .. Len(pending.changes)
    PROVE  taken.changes[i].n # pending.changes[j].n
  <1>1. PICK a, b, s, N : /\ a = snapshot.changes /\ b = Serials(taken.changes) /\ s = Serials(pending.changes)
                          /\ N = count.changes
    OBVIOUS
  <1>2. a \in Seq(Nat) /\ b \in Seq(Nat) /\ s \in Seq(Nat) /\ N \in Nat
    BY <1>1, Whereabouts DEF Building, TypeOK
  <1>3. taken.changes \in Seq(Change) /\ pending.changes \in Seq(Change)
    BY PendingParts
  <1>4. Len(b) = Len(taken.changes) /\ b[i] = taken.changes[i].n
    BY <1>1, <1>3, SerialsType
  <1>5. Len(s) = Len(pending.changes) /\ s[j] = pending.changes[j].n
    BY <1>1, <1>3, SerialsType
  <1>6. PICK k, m, l : k = Len(a) /\ m = Len(b) /\ l = Len(s)
    OBVIOUS
  <1>7. k \in Nat /\ m \in Nat /\ l \in Nat /\ i \in 1 .. m /\ j \in 1 .. l
    BY <1>2, <1>4, <1>5, <1>6
  <1>8. PICK d, z : d = a \o b /\ z = d \o s
    OBVIOUS
  <1>9. d \in Seq(Nat) /\ Len(d) = k + m /\ d[k + i] = b[i]
    <2>1. /\ d \in Seq(Nat) /\ Len(d) = k + m
          /\ \A x \in 1 .. k + m : d[x] = IF x <= k THEN a[x] ELSE b[x - k]
      BY <1>2, <1>6, <1>8, ConcatProperties
    <2>2. k + i \in 1 .. k + m /\ ~(k + i <= k) /\ (k + i) - k = i
      BY <1>7
    <2> QED BY <2>1, <2>2
  <1>10. Len(z) = k + m + l /\ z[k + i] = d[k + i] /\ z[k + m + j] = s[j]
    BY <1>2, <1>6, <1>7, <1>8, <1>9
  <1>11. z = Series(N)
    BY <1>1, <1>8 DEF NothingLost, Series
  <1>12. k + i \in 1 .. k + m + l /\ k + m + j \in 1 .. k + m + l /\ k + i # k + m + j
    BY <1>7
  <1>13. \A x \in 1 .. k + m + l : z[x] = x
    <2>1. Len(Series(N)) = N
      BY <1>2 DEF Series
    <2>2. k + m + l = N
      BY <1>10, <1>11, <2>1
    <2> QED BY <1>11, <2>2 DEF Series
  <1> QED BY <1>4, <1>5, <1>9, <1>10, <1>12, <1>13

(* A change that asks is pending with the request for an update behind it. *)
LEMMA AskedAdmit ==
    ASSUME TypeOK, NEW c \in {"open", "change", "close", "watch"}, NEW f \in File, NEW asks \in BOOLEAN,
           Admit(c, f, asks), UNCHANGED excused, Asked', ~asks
    PROVE  Asked
  <1>1. PICK x \in Change : x.asks = asks /\ pending'.changes = Append(pending.changes, x)
    BY Admitted
  <1>2. PICK s, z : s = pending.changes /\ z = pending'.changes
    OBVIOUS
  <1>3. s \in Seq(Change)
    BY <1>2, PendingParts
  <1>4. /\ Len(z) = Len(s) + 1 /\ Len(s) \in Nat /\ z[Len(s) + 1] = x /\ \A i \in 1 .. Len(s) : z[i] = s[i]
    BY <1>1, <1>2, <1>3
  <1>5. PICK i \in 1 .. Len(z) : z[i].asks /\ z[i].n \notin excused
    BY <1>2 DEF Asked, Wants
  <1>6. i \in 1 .. Len(s)
    BY <1>1, <1>4, <1>5
  <1> QED BY <1>2, <1>4, <1>5, <1>6 DEF Asked, Wants

(* A change that asks for an update comes with a step that schedules it.   *)
LEMMA AskedStep ==
    ASSUME Base, Closes, NothingLost, [Next]_vars, snapshot' # Nil, Asked'
    PROVE  \/ Asked /\ \A p \in DOMAIN todo, need \in BOOLEAN : ~Take(p, need)
           \/ \E p \in DOMAIN todo' : (Has(p, Scheduling))'
  <1>0. Planned /\ TypeOK /\ Locks /\ snapshot # Nil
    BY SnapshotGone DEF Base, Shape
  <1>1. CASE UNCHANGED excused /\ pending'.changes = pending.changes
    <2>1. Asked
      BY <1>1 DEF Asked, Wants
    <2>2. ASSUME NEW p \in DOMAIN todo, NEW need \in BOOLEAN, Take(p, need)
          PROVE  FALSE
      <3>1. pending.changes # <<>>
        BY <2>1 DEF Asked
      <3>2. pending # Empty /\ Empty.changes = <<>>
        BY <3>1 DEF Empty
      <3>3. pending' = Empty
        BY <2>2, <3>2 DEF Take
      <3> QED BY <1>1, <3>1, <3>2, <3>3
    <2> QED BY <2>1, <2>2
  <1>t. ASSUME NEW p \in DOMAIN todo, NEW need \in BOOLEAN, Take(p, need)
        PROVE  FALSE
    <2>1. Empty.changes = <<>> /\ Len(<<>>) = 0
      BY DEF Empty
    <2>2. pending' = Empty
      BY <1>t DEF Take, work
    <2> QED BY <2>1, <2>2 DEF Asked
  <1>2. ASSUME NEW p \in DOMAIN todo, Notifying(p)
        PROVE  \/ Asked
               \/ \E q \in DOMAIN todo' : (Has(q, Scheduling))'
    <2>0. UNCHANGED excused /\ DOMAIN todo' = DOMAIN todo
      BY <1>2, Alone
    <2>1. CASE Push(p)
      <3>1. /\ todo[p][1] \in Steps /\ todo[p][1][1] = "push" /\ Head(todo[p]) = todo[p][1] /\ todo[p] # <<>>
            /\ todo[p] \in Seq(Steps) /\ Plan(p, todo[p])
        BY <1>0, <2>1, HeadOf DEF Push, At
      <3>2. todo[p][1][2] \in Edits /\ todo[p][1][3] \in File
        BY <3>1, StepKinds
      <3>3. Admit(todo[p][1][2], todo[p][1][3], todo[p][1][2] = "close")
        BY <2>1, <3>1 DEF Push, Arg
      <3>4. CASE todo[p][1][2] # "close"
        BY <1>0, <2>0, <3>2, <3>3, <3>4, AskedAdmit DEF Edits
      <3>5. CASE todo[p][1][2] = "close"
        <4>1. PICK s, z : s = todo[p] /\ z = Tail(s)
          OBVIOUS
        <4>2. /\ z \in Seq(Steps) /\ Len(z) = Len(s) - 1 /\ Len(s) \in Nat /\ Len(s) >= 1
              /\ \A i \in 1 .. Len(s) - 1 : z[i] = s[i + 1]
          BY <3>1, <4>1, TailOf
        <4>3. <<>> \o z = z
          BY <4>2, ConcatEmptySeq
        <4>4. todo'[p] = z
          BY <1>0, <2>1, <4>1, <4>3 DEF Push, Then, Planned
        <4>5. PICK j \in 1 .. Len(s) : j > 1 /\ s[j][1] = "schedule" /\ s[j][2] = "update"
          <5>1. 1 \in 1 .. Len(s)
            BY <4>2
          <5> QED BY <3>1, <3>5, <4>1, <5>1 DEF Plan, Asking
        <4>6. j - 1 \in 1 .. Len(z) /\ z[j - 1] = s[j]
          BY <4>2, <4>5
        <4>7. HasIn(todo'[p], Scheduling)
          BY <4>4, <4>5, <4>6 DEF HasIn, Scheduling
        <4> QED BY <2>0, <4>7, HasPrimed
      <3> QED BY <3>4, <3>5
    <2>2. ASSUME NEW relevant \in BOOLEAN, NEW config \in BOOLEAN, Watched(p, relevant, config)
          PROVE  \/ Asked
                 \/ \E q \in DOMAIN todo' : (Has(q, Scheduling))'
      <3>1. /\ Admit("watch", todo[p][1][2], config) /\ todo[p][1] \in Steps /\ todo[p][1][1] = "watched"
        BY <1>0, <2>2, WatchedGoes
      <3>2. todo[p][1][2] \in File
        BY <3>1, StepKinds
      <3>3. CASE ~config
        BY <1>0, <2>0, <3>1, <3>2, <3>3, AskedAdmit
      <3>4. CASE config
        <4>1. PICK n : n = Watching(relevant, config)
          OBVIOUS
        <4>2. n \in Seq(Steps) /\ n # <<>> /\ HasIn(n, Scheduling)
          <5>1. PICK x : x = <<"schedule", "update">>
            OBVIOUS
          <5>2. x[1] = "schedule" /\ x[2] = "update"
            BY <5>1
          <5>3. n \in Seq(Steps) /\ n # <<>> /\ \E i \in 1 .. Len(n) : n[i] = x
            BY <3>4, <4>1, <5>1, WatchingPlan
          <5> QED BY <5>2, <5>3 DEF HasIn, Scheduling
        <4>3. Then(p, n) /\ todo[p] # <<>>
          BY <1>0, <2>2, <4>1 DEF Watched, Watching, Arg, Refused, At
        <4>4. PICK z : z = n \o Tail(todo[p])
          OBVIOUS
        <4>5. todo'[p] = z
          BY <1>0, <4>3, <4>4 DEF Then, Planned
        <4>6. Len(n) \in Nat /\ Len(z) >= Len(n) /\ Len(z) \in Nat /\ \A i \in 1 .. Len(n) : z[i] = n[i]
          <5>1. todo[p] \in Seq(Steps)
            BY <1>0 DEF Planned
          <5>2. /\ Len(z) = Len(n) + Len(todo[p]) - 1 /\ Len(n) \in Nat /\ Len(todo[p]) \in Nat /\ Len(todo[p]) >= 1
                /\ \A i \in 1 .. Len(n) : z[i] = n[i]
            BY <4>2, <4>3, <4>4, <5>1, Behind_
          <5> QED BY <5>2
        <4>7. HasIn(z, Scheduling)
          BY <4>2, <4>6 DEF HasIn
        <4> QED BY <2>0, <4>5, <4>7, HasPrimed
      <3> QED BY <3>3, <3>4
    <2>3. CASE Apply(p) \/ Rollback(p)
      <3>1. pending'.changes = pending.changes
        BY <1>0, <2>3 DEF Apply, Refused, Rollback, TypeOK, Pending, work
      <3> QED BY <1>1, <2>0, <3>1
    <2>4. ASSUME NEW mapped \in BOOLEAN, Enqueue(p, mapped)
          PROVE  UNCHANGED pending
      BY <2>4 DEF Enqueue, Refused, work
    <2>5. Unread(p) \/ Settle(p) => UNCHANGED pending
      BY DEF Unread, Settle, work
    <2> QED BY <1>1, <1>2, <2>0, <2>1, <2>2, <2>3, <2>4, <2>5 DEF Notifying
  <1>3. ASSUME NEW p \in DOMAIN todo, UpdatingStep(p)
        PROVE  Asked
    <2>1. CASE Publish(p)
      <3>1. Place(p) = "publish"
        BY <1>0, <2>1, PublishGoes
      <3>2. taken # Nil
        BY <1>0, <3>1 DEF Locks, Builds
      <3>3. UNCHANGED pending /\ excused' = excused \ Numbers(taken.changes)
        BY <2>1 DEF Publish
      <3>4. PICK j \in 1 .. Len(pending.changes) : pending.changes[j].asks /\ pending.changes[j].n \notin excused'
        BY <3>3 DEF Asked, Wants
      <3>5. pending.changes[j].n \notin Numbers(taken.changes)
        BY <1>0, <3>2, Distinct DEF Numbers
      <3> QED BY <3>3, <3>4, <3>5 DEF Asked, Wants
    <2>2. CASE Restore(p)
      <3>1. Place(p) = "restore"
        BY <1>0, <2>2, PlaceAt DEF Restore
      <3>2. taken # Nil
        BY <1>0, <3>1 DEF Locks, Builds
      <3>3. PICK s, t, z : s = taken.changes /\ t = pending.changes /\ z = s \o t
        OBVIOUS
      <3>4. pending'.changes = z /\ excused' = excused \cup Numbers(s)
        BY <2>2, <3>3 DEF Restore, Merged
      <3>5. s \in Seq(Change) /\ t \in Seq(Change)
        BY <1>0, <3>2, <3>3, PendingParts
      <3>6. /\ Len(z) = Len(s) + Len(t) /\ Len(s) \in Nat /\ Len(t) \in Nat
            /\ \A i \in 1 .. Len(s) + Len(t) : z[i] = IF i <= Len(s) THEN s[i] ELSE t[i - Len(s)]
        <4>1. z = s \o t
          BY <3>3
        <4> QED BY <3>5, <4>1, ChangesJoined, Zenon
      <3>7. PICK i \in 1 .. Len(z) : z[i].asks /\ z[i].n \notin excused'
        BY <3>4 DEF Asked, Wants
      <3>8. CASE i <= Len(s)
        <4>1. i \in 1 .. Len(s) /\ z[i] = s[i]
          BY <3>6, <3>7, <3>8
        <4>2. z[i].n \in Numbers(s)
          BY <4>1 DEF Numbers
        <4> QED BY <3>4, <3>7, <4>2
      <3>9. CASE ~(i <= Len(s))
        <4>1. i - Len(s) \in 1 .. Len(t) /\ z[i] = t[i - Len(s)]
          BY <3>6, <3>7, <3>9
        <4> QED BY <3>3, <3>4, <3>7, <4>1 DEF Asked, Wants
      <3> QED BY <3>8, <3>9
    <2>3. ASSUME NEW outcome \in {"ok", "error", "panic"}, Build(p, outcome)
          PROVE  UNCHANGED <<pending, excused>>
      BY <2>3 DEF Build, work, history
    <2>4. Look(p) \/ Announce(p) => UNCHANGED <<pending, excused>>
      BY DEF Look, Announce, work, history
    <2>5. UNCHANGED <<pending, excused>> => Asked
      BY DEF Asked, Wants
    <2> QED BY <1>3, <1>t, <2>1, <2>2, <2>3, <2>4, <2>5 DEF UpdatingStep
  <1>4. ASSUME NEW p \in DOMAIN todo, ClosingStep(p)
        PROVE  UNCHANGED <<pending, excused>>
    <2>1. ~Clear(p)
      <3>1. Clear(p) => Place(p) = "clear"
        BY <1>0, PlaceAt DEF Clear
      <3> QED BY <1>0, <3>1 DEF Closes, PastShut
    <2> QED BY <1>4, <2>1 DEF ClosingStep, Lock, Shut, Stop, Unlock, Wait, Closed, work, history
  <1>5. (\E p \in DOMAIN todo : Timing(p) \/ Tasking(p)) => UNCHANGED <<pending, excused>>
    BY Alone
  <1>6. (\E p \in Thread, op \in Calls, f \in File : Call(p, op, f)) => UNCHANGED <<pending, excused>>
    BY DEF Call, work, history
  <1>7. (\E t \in armed : Fire(t)) => UNCHANGED <<pending, excused>>
    BY DEF Fire, work, history
  <1>8. UNCHANGED vars => UNCHANGED <<pending, excused>>
    BY DEF vars, work, history
  <1> QED BY <1>1, <1>t, <1>2, <1>3, <1>4, <1>5, <1>6, <1>7, <1>8 DEF Next, Rest, Calls

(* What brings an update, by the place of a thread *)
Brings(p) ==
    \/ Has(p, Scheduling)
    \/ Current(p) /\ Place(p) # "finish"
    \/ Place(p) \in {"begin", "take"}
Coming ==
    \/ <<"update", slot["update"].epoch>> \in armed
    \/ queue.closed
    \/ \E p \in DOMAIN todo : Brings(p)

(* No step has the name of a place that is none. *)
LEMMA StepNames ==
    ASSUME NEW x \in Steps
    PROVE  x[1] \notin {"idle", "begin", "endUpdate", "endIdle", "endRefresh"}
  BY DEF Steps, Bare, Timed

(* The ways in which a thread brings an update about.                      *)
LEMMA BringsIs ==
    ASSUME Planned, NEW p \in DOMAIN todo
    PROVE  Brings(p) <=> \/ Has(p, {"schedule", "arm"})
                         \/ Current(p) /\ ~At(p, "finish")
                         \/ WillTake(p)
  <1>1. PICK s : s = todo[p]
    OBVIOUS
  <1>2. s \in Seq(Steps) /\ Plan(p, s) /\ Place(p) = PlaceOf(s)
    BY <1>1 DEF Planned, Place
  <1>3. CASE s = <<>>
    <2>1. Len(s) = 0
      BY <1>3
    <2>2. Place(p) = "idle" /\ ~WillTake(p) /\ ~At(p, "finish")
      BY <1>1, <1>2, <1>3, <2>1 DEF PlaceOf, WillTake, At
    <2> QED BY <2>2 DEF Brings, Scheduling
  <1>4. CASE s # <<>>
    <2>1. /\ Head(s) = s[1] /\ Len(s) \in Nat /\ Len(s) >= 1 /\ 1 \in 1 .. Len(s)
      BY <1>2, <1>4
    <2>2. At(p, "finish") <=> Place(p) = "finish"
      BY <1>1, <1>2, <1>4, <2>1 DEF At, PlaceOf, Ending
    <2>3. ASSUME WillTake(p)
          PROVE  Place(p) \in {"begin", "take"}
      <3>1. PICK i \in 1 .. Len(s) : s[i][1] = "take"
        BY <1>1, <2>3 DEF WillTake
      <3>2. i = 1 \/ (i = 2 /\ s[1][1] = "cancel")
        BY <1>2, <3>1 DEF Plan, Going
      <3>3. CASE i = 1
        BY <1>2, <1>4, <3>1, <3>3 DEF PlaceOf
      <3>4. CASE i = 2 /\ s[1][1] = "cancel"
        <4>1. Second(s, "take")
          BY <2>1, <3>1, <3>4 DEF Second
        <4> QED BY <1>2, <1>4, <3>4, <4>1 DEF PlaceOf
      <3> QED BY <3>2, <3>3, <3>4
    <2>4. ASSUME Place(p) \in {"begin", "take"}
          PROVE  WillTake(p)
      <3>0. s[1][1] # "begin"
        BY <1>2, <2>1, StepNames
      <3>1. s[1][1] = "take" \/ Second(s, "take")
        BY <1>2, <1>4, <2>4, <3>0 DEF PlaceOf, Ending
      <3>2. CASE s[1][1] = "take"
        BY <1>1, <2>1, <3>2 DEF WillTake
      <3>3. CASE Second(s, "take")
        <4>1. 2 \in 1 .. Len(s) /\ s[2][1] = "take"
          BY <2>1, <3>3 DEF Second
        <4> QED BY <1>1, <4>1 DEF WillTake
      <3> QED BY <3>1, <3>2, <3>3
    <2> QED BY <2>2, <2>3, <2>4 DEF Brings, Scheduling
  <1> QED BY <1>3, <1>4

(* The lists with the request for an update in them *)
LEMMA HasPlaces ==
    ASSUME Planned, NEW p \in DOMAIN todo, Has(p, Scheduling)
    PROVE  /\ todo[p] # <<>>
           /\ Place(p) \notin {"idle", "enqueue", "watched", "apply", "unread", "settle", "rollback", "match", "spawn",
                               "run", "deliver", "finish", "wait", "closed", "restore"} \cup Update_
  <1>1. PICK s : s = todo[p]
    OBVIOUS
  <1>2. s \in Seq(Steps) /\ Plan(p, s) /\ Place(p) = PlaceOf(s) /\ HasIn(s, Scheduling)
    BY <1>1, HasPrimed DEF Planned, Place
  <1>3. PICK i \in 1 .. Len(s) : s[i][1] \in Scheduling
    BY <1>2 DEF HasIn
  <1>4. s # <<>>
    BY <1>3
  <1>5. /\ Len(s) \in Nat /\ Len(s) >= 1
        /\ Len(s) > 1 => Follows(s[1], s[2])
        /\ s[1][1] \in {"settle", "rollback", "finish", "watched", "unread", "match", "spawn",
                        "run", "closed"} => Len(s) = 1
        /\ s[1][1] \in Update_ \cup {"restore", "wait", "deliver"} => Len(s) <= 2
        /\ s[1][1] = "apply" => Len(s) = 2
        /\ s[1][1] \in {"enqueue"} => \A j \in 2 .. Len(s) : s[j][1] \notin Reading \cup {"schedule", "arm"}
    BY <1>2, <1>4, Ends
  <1>6. s[1][1] \notin {"enqueue", "settle", "rollback", "finish", "watched", "unread", "match", "spawn", "run", "closed"}
    <2>1. \A n \in Nat : n = 1 => \A j \in 1 .. n : j = 1
      OBVIOUS
    <2>2. i = 1 \/ i \in 2 .. Len(s)
      BY <1>3, <1>5
    <2> QED BY <1>3, <1>5, <2>1, <2>2 DEF Scheduling
  <1>7. s[1][1] \notin Update_ \cup {"restore", "wait", "deliver", "apply"}
    <2>1. SUFFICES ASSUME s[1][1] \in Update_ \cup {"restore", "wait", "deliver", "apply"}
                   PROVE  FALSE
      OBVIOUS
    <2>2. Len(s) <= 2
      <3>1. \A n \in Nat : n = 2 => n <= 2
        OBVIOUS
      <3> QED BY <1>5, <2>1, <3>1
    <2>3. i = 1 \/ (i = 2 /\ Len(s) > 1)
      BY <1>3, <1>5, <2>2
    <2>4. CASE i = 1
      BY <1>3, <2>1, <2>4 DEF Scheduling, Update_
    <2>5. CASE i = 2 /\ Len(s) > 1
      BY <1>3, <1>5, <2>1, <2>5 DEF Scheduling, Update_, Follows
    <2> QED BY <2>3, <2>4, <2>5
  <1>8. s[1][1] # "cancel" => PlaceOf(s) = s[1][1]
    BY <1>4 DEF PlaceOf
  <1>9. s[1][1] = "cancel" => PlaceOf(s) \in {"begin", "endUpdate", "endIdle", "endRefresh", "cancel"}
    BY <1>4 DEF PlaceOf, Ending
  <1>10. s[1][1] # "idle"
    BY <1>2, <1>5, StepNames
  <1> QED BY <1>1, <1>2, <1>4, <1>6, <1>7, <1>8, <1>9, <1>10 DEF Update_

(* A step that is done leaves the requests behind it. *)
LEMMA HasKeeps ==
    ASSUME Planned, NEW p \in DOMAIN todo, todo[p] # <<>>, Then(p, <<>>), todo[p][1][1] \notin Scheduling,
           Has(p, Scheduling)
    PROVE  (Has(p, Scheduling))'
  <1>1. PICK s, z : s = todo[p] /\ z = Tail(s)
    OBVIOUS
  <1>2. s \in Seq(Steps) /\ HasIn(s, Scheduling)
    BY <1>1, HasPrimed DEF Planned
  <1>3. /\ z \in Seq(Steps) /\ Len(z) = Len(s) - 1 /\ Len(s) \in Nat /\ Len(s) >= 1
        /\ \A i \in 1 .. Len(s) - 1 : z[i] = s[i + 1]
    BY <1>1, <1>2, TailOf
  <1>4. <<>> \o z = z
    BY <1>3, ConcatEmptySeq
  <1>5. todo'[p] = z
    BY <1>1, <1>4 DEF Then, Planned
  <1>6. PICK i \in 1 .. Len(s) : s[i][1] \in Scheduling /\ s[i][2] = "update"
    BY <1>2 DEF HasIn
  <1>7. i - 1 \in 1 .. Len(z) /\ z[i - 1] = s[i]
    BY <1>1, <1>3, <1>6
  <1>8. HasIn(z, Scheduling)
    BY <1>6, <1>7 DEF HasIn
  <1> QED BY <1>5, <1>8, HasPrimed

(* A thread goes on, and an update is still on its way. *)
LEMMA ComingStays ==
    ASSUME Coming, NEW p \in DOMAIN todo, Others(p), slot'["update"].epoch = slot["update"].epoch,
           <<"update", slot["update"].epoch>> \in armed => <<"update", slot["update"].epoch>> \in armed',
           queue.closed => queue'.closed,
           Brings(p) => (Brings(p))' \/ queue'.closed
    PROVE  Coming'
  <1>1. DOMAIN todo' = DOMAIN todo
    BY DEF Others
  <1>2. ASSUME NEW q \in DOMAIN todo, q # p, Brings(q)
        PROVE  (Brings(q))'
    <2>1. todo'[q] = todo[q] /\ (Place(q))' = Place(q)
      BY <1>2 DEF Others
    <2>2. Has(q, Scheduling) => (Has(q, Scheduling))'
      BY <2>1, HasPrimed
    <2>3. Current(q) => (Current(q))'
      BY DEF Current, Task
    <2> QED BY <1>2, <2>1, <2>2, <2>3 DEF Brings
  <1> QED BY <1>1, <1>2 DEF Coming

(* A step that schedules an update gives way only to another one.          *)
LEMMA HasOne ==
    ASSUME Planned, NEW p \in DOMAIN todo, todo[p] # <<>>, NEW x \in Steps, Then(p, <<x>>), Has(p, Scheduling),
           todo[p][1][1] \in Scheduling /\ todo[p][1][2] = "update" => x[1] \in Scheduling /\ x[2] = "update"
    PROVE  (Has(p, Scheduling))'
  <1>1. PICK s, n, z : s = todo[p] /\ n = <<x>> /\ z = n \o Tail(s)
    OBVIOUS
  <1>2. s \in Seq(Steps) /\ HasIn(s, Scheduling)
    BY <1>1, HasPrimed DEF Planned
  <1>3. n \in Seq(Steps) /\ Len(n) = 1 /\ n[1] = x
    BY <1>1
  <1>4. /\ Len(s) \in Nat /\ Len(z) = Len(n) + Len(s) - 1 /\ Len(s) >= 1
        /\ \A i \in 1 .. Len(n) : z[i] = n[i]
        /\ \A i \in 2 .. Len(s) : z[Len(n) + i - 1] = s[i]
    BY <1>1, <1>2, <1>3, Behind_
  <1>5. Len(z) = Len(s) /\ z[1] = x /\ \A i \in 2 .. Len(s) : z[i] = s[i]
    BY <1>3, <1>4
  <1>6. todo'[p] = z
    BY <1>1 DEF Then, Planned
  <1>7. PICK i \in 1 .. Len(s) : s[i][1] \in Scheduling /\ s[i][2] = "update"
    BY <1>2 DEF HasIn
  <1>8. HasIn(z, Scheduling)
    <2>1. CASE i = 1
      BY <1>1, <1>4, <1>5, <1>7, <2>1 DEF HasIn
    <2>2. CASE i # 1
      <3>1. i \in 2 .. Len(s)
        BY <1>4, <1>7, <2>2
      <3> QED BY <1>5, <1>7, <3>1 DEF HasIn
    <2> QED BY <2>1, <2>2
  <1> QED BY <1>6, <1>8, HasPrimed

(* A task that ends was not the one that brings the update.                *)
LEMMA ComingLeaves ==
    ASSUME Coming, NEW p \in DOMAIN todo, Leaves(p), ~Brings(p), UNCHANGED <<slot, armed>>, ~queue.closed
    PROVE  Coming'
  <1>1. ASSUME NEW q \in DOMAIN todo, q # p, Brings(q)
        PROVE  q \in DOMAIN todo' /\ (Brings(q))'
    <2>1. q \in DOMAIN todo' /\ todo'[q] = todo[q] /\ (Place(q))' = Place(q)
      BY <1>1 DEF Leaves
    <2>2. Has(q, Scheduling) => (Has(q, Scheduling))'
      BY <2>1, HasPrimed
    <2>3. Current(q) => (Current(q))'
      BY DEF Current, Task
    <2> QED BY <1>1, <2>1, <2>2, <2>3 DEF Brings
  <1> QED BY <1>1 DEF Coming

(* A step of one of the timers' operations *)
LEMMA TimingComing ==
    ASSUME Base, Closes, Coming, ~queue.closed, snapshot # Nil, NEW p \in DOMAIN todo, Timing(p)
    PROVE  Coming'
  <1>0. Planned /\ TypeOK /\ ~token /\ ~(Place(p) \in PastShut)
    BY DEF Base, Shape, Closes
  <1>u. "update" \in Kind
    BY DEF Kind
  <1>1. Others(p) /\ (Place(p))' # "finish" /\ DOMAIN todo' = DOMAIN todo
    BY <1>0, TimingMoves DEF Others
  <1>2. ASSUME slot'["update"].epoch = slot["update"].epoch, Current(p)
        PROVE  (Brings(p))'
    BY <1>1, <1>2 DEF Brings, Current, Task
  <1>3. UNCHANGED queue
    BY Alone
  <1>4. PICK e : e = slot["update"].epoch
    OBVIOUS
  <1>r. ASSUME NEW k \in Kind, k # "update", NEW d, NEW n, Renew(k, d, n)
        PROVE  slot'["update"].epoch = slot["update"].epoch /\ (<<"update", e>> \in armed => <<"update", e>> \in armed')
    <2>1. slot'["update"] = slot["update"]
      BY <1>0, <1>u, <1>r, Renewed
    <2>2. <<"update", e>> # <<k, slot[k].timer>>
      BY <1>r
    <2>3. armed \ {<<k, slot[k].timer>>} \subseteq armed'
      BY <1>r DEF Renew
    <2> QED BY <2>1, <2>2, <2>3
  <1>5. CASE Cancel(p)
    <2>1. todo[p] # <<>> /\ Then(p, <<>>) /\ todo[p][1][1] = "cancel"
      BY <1>0, <1>5, HeadOf DEF Cancel, At
    <2>2. CASE Place(p) = "begin"
      <3>1. (Place(p))' = "take"
        <4>1. (Place(p))' \in After(Place(p))
          BY <1>0, <1>5, CancelGoes DEF Goes
        <4> QED BY <2>2, <4>1 DEF After, Update_
      <3>2. (Brings(p))'
        BY <3>1 DEF Brings
      <3> QED BY <1>1, <3>2 DEF Coming
    <2>3. CASE Place(p) \in {"endUpdate", "endIdle", "endRefresh"}
      BY <1>0, <2>3 DEF PastShut, PastClear, PastStop, PastUpdate, PastIdle
    <2>4. CASE Place(p) = "cancel"
      <3>1. PICK k : k = todo[p][1][2]
        OBVIOUS
      <3>2. k \in Kind /\ k # "update" /\ Renew(k, Nil, {})
        BY <1>0, <1>5, <2>4, <3>1, CancelGoes
      <3>3. slot'["update"].epoch = slot["update"].epoch /\ (<<"update", e>> \in armed => <<"update", e>> \in armed')
        BY <1>r, <3>2
      <3>4. Has(p, Scheduling) => (Has(p, Scheduling))'
        BY <1>0, <2>1, HasKeeps DEF Scheduling
      <3>5. Brings(p) => (Brings(p))'
        BY <1>2, <2>4, <3>3, <3>4 DEF Brings
      <3> QED BY <1>1, <1>3, <1>4, <3>3, <3>5, ComingStays
    <2> QED BY <1>0, <1>5, <2>2, <2>3, <2>4, CancelGoes
  <1>6. CASE Schedule(p)
    <2>1. UNCHANGED <<slot, armed>>
      BY <1>6 DEF Schedule, timers
    <2>2. /\ Place(p) = "schedule" /\ todo[p][1] \in Steps /\ todo[p][1][1] = "schedule" /\ Head(todo[p]) = todo[p][1]
          /\ todo[p] # <<>>
      BY <1>0, <1>6, PlaceAt DEF Schedule
    <2>3. PICK x : x = <<"arm", todo[p][1][2]>>
      OBVIOUS
    <2>4. x \in Steps /\ x[1] = "arm" /\ x[2] = todo[p][1][2]
      BY <2>2, <2>3, StepKinds, InSteps DEF Timed
    <2>5. Then(p, <<x>>)
      BY <1>0, <1>6, <2>2, <2>3 DEF Schedule, Arg
    <2>6. Has(p, Scheduling) => (Has(p, Scheduling))'
      BY <1>0, <2>2, <2>4, <2>5, HasOne DEF Scheduling
    <2>7. Brings(p) => (Brings(p))'
      BY <1>2, <2>1, <2>2, <2>6 DEF Brings
    <2> QED BY <1>1, <1>3, <2>1, <2>7, ComingStays
  <1>7. CASE Arm(p)
    <2>1. PICK k \in Kind, f \in Nat : /\ k = todo[p][1][2] /\ f = slot[k].epoch + 1 /\ todo[p][1][1] = "arm"
                                       /\ todo[p] # <<>>
                                       /\ Renew(k, IF k = "refresh" THEN f ELSE Nil, {<<k, f>>})
                                       /\ Then(p, << <<"store", k, f>> >>)
      BY <1>0, <1>7, ArmDoes
    <2>2. PICK d, n, x : d = (IF k = "refresh" THEN f ELSE Nil) /\ n = {<<k, f>>} /\ x = <<"store", k, f>>
      OBVIOUS
    <2>3. Renew(k, d, n) /\ Then(p, <<x>>)
      BY <2>1, <2>2
    <2>4. CASE k = "update"
      <3>1. slot'["update"].epoch = f
        BY <1>0, <1>u, <2>1, <2>3, <2>4, Renewed
      <3>2. <<"update", f>> \in armed'
        BY <2>2, <2>3, <2>4 DEF Renew
      <3> QED BY <3>1, <3>2 DEF Coming
    <2>5. CASE k # "update"
      <3>1. slot'["update"].epoch = slot["update"].epoch /\ (<<"update", e>> \in armed => <<"update", e>> \in armed')
        BY <1>r, <2>3, <2>5
      <3>2. x \in Steps
        BY <2>2, InSteps
      <3>3. Has(p, Scheduling) => (Has(p, Scheduling))'
        BY <1>0, <2>1, <2>3, <2>5, <3>2, HasOne
      <3>4. Place(p) = "arm"
        BY <1>0, <1>7, PlaceAt DEF Arm
      <3>5. Brings(p) => (Brings(p))'
        BY <1>2, <3>1, <3>3, <3>4 DEF Brings
      <3> QED BY <1>1, <1>3, <1>4, <3>1, <3>5, ComingStays
    <2> QED BY <2>4, <2>5
  <1>8. CASE Store(p)
    <2>1. PICK k \in Kind, f \in Nat :
             /\ \A j \in Kind : slot'[j].epoch = slot[j].epoch
             /\ \/ UNCHANGED armed
                \/ ~Matches(<<k, f>>) /\ armed' = armed \ {<<k, f>>}
      BY <1>0, <1>8, StoreDoes
    <2>2. <<"update", e>> \in armed => <<"update", e>> \in armed'
      <3>1. CASE UNCHANGED armed
        BY <3>1
      <3>2. CASE ~Matches(<<k, f>>) /\ armed' = armed \ {<<k, f>>}
        <4>1. slot[k].epoch # f
          BY <1>0, <3>2 DEF Matches
        <4>2. <<k, f>> # <<"update", e>>
          BY <1>4, <4>1
        <4> QED BY <3>2, <4>2
      <3> QED BY <2>1, <3>1, <3>2
    <2>3. slot'["update"].epoch = slot["update"].epoch
      BY <1>u, <2>1
    <2>4. Place(p) = "store" /\ todo[p] # <<>> /\ todo[p][1][1] = "store" /\ Then(p, <<>>)
      BY <1>0, <1>8, PlaceAt DEF Store
    <2>5. Has(p, Scheduling) => (Has(p, Scheduling))'
      BY <1>0, <2>4, HasKeeps DEF Scheduling
    <2>6. Brings(p) => (Brings(p))'
      BY <1>2, <2>3, <2>4, <2>5 DEF Brings
    <2> QED BY <1>1, <1>3, <1>4, <2>2, <2>3, <2>6, ComingStays
  <1> QED BY <1>5, <1>6, <1>7, <1>8 DEF Timing

(* A step of a task *)
LEMMA TaskingComing ==
    ASSUME Base, Closes, Coming, ~queue.closed, snapshot # Nil, NEW p \in DOMAIN todo, Tasking(p)
    PROVE  Coming'
  <1>0. Planned /\ TypeOK /\ ~token
    BY DEF Base, Shape, Closes
  <1>1. UNCHANGED <<slot, armed, token>>
    BY Alone
  <1>2. Current(p) => Matches(p)
    BY <1>0 DEF Current, Matches
  <1>3. ASSUME Others(p), Current(p) => (Place(p))' # "finish", ~Has(p, Scheduling), Place(p) \notin {"begin", "take"}
        PROVE  Coming'
    <2>1. Current(p) => (Current(p))'
      BY <1>1 DEF Current, Task
    <2>2. Brings(p) => (Brings(p))'
      BY <1>3, <2>1 DEF Brings
    <2> QED BY <1>0, <1>1, <1>3, <2>2, ComingStays
  <1>4. CASE Match(p)
    <2>1. Place(p) = "match" /\ (Leaves(p) \/ Goes(p, {"spawn"})) /\ ~Has(p, Scheduling)
      BY <1>0, <1>4, TaskGoes, HasPlaces
    <2>2. CASE Current(p)
      <3>1. Then(p, << <<"spawn">> >>)
        BY <1>2, <1>4, <2>2 DEF Match
      <3>2. DOMAIN todo' = DOMAIN todo
        BY <3>1 DEF Then
      <3>3. Goes(p, {"spawn"})
        BY <2>1, <3>2 DEF Leaves
      <3> QED BY <1>3, <2>1, <3>3 DEF Goes
    <2>3. CASE ~Current(p)
      <3>1. ~Brings(p)
        BY <2>1, <2>3 DEF Brings
      <3> QED BY <1>1, <1>3, <2>1, <2>3, <3>1, ComingLeaves DEF Goes
    <2> QED BY <2>2, <2>3
  <1>5. CASE Spawn(p)
    <2>1. Place(p) = "spawn" /\ (Leaves(p) \/ Goes(p, {"run"})) /\ ~Has(p, Scheduling)
      BY <1>0, <1>5, TaskGoes, HasPlaces
    <2>2. Then(p, << <<"run">> >>)
      BY <1>0, <1>5 DEF Spawn
    <2>3. DOMAIN todo' = DOMAIN todo
      BY <2>2 DEF Then
    <2>4. Goes(p, {"run"})
      BY <2>1, <2>3 DEF Leaves
    <2> QED BY <1>3, <2>1, <2>4 DEF Goes
  <1>6. CASE Run(p)
    <2>1. Place(p) = "run" /\ Others(p) /\ ~Has(p, Scheduling) /\ (p[1] = "update" => (Place(p))' = "look")
      BY <1>0, <1>6, TaskGoes, HasPlaces DEF Goes
    <2> QED BY <1>3, <2>1 DEF Current
  <1>7. CASE Deliver(p)
    <2>1. Place(p) = "deliver" /\ Others(p) /\ ~Has(p, Scheduling) /\ p[1] = "refresh"
      BY <1>0, <1>7, TaskGoes, HasPlaces DEF Goes
    <2> QED BY <1>3, <2>1 DEF Current
  <1>8. CASE Finish(p)
    <2>1. Place(p) = "finish" /\ Leaves(p) /\ ~Has(p, Scheduling)
      BY <1>0, <1>8, TaskGoes, HasPlaces
    <2>2. ~Brings(p)
      BY <2>1 DEF Brings
    <2> QED BY <1>1, <2>1, <2>2, ComingLeaves
  <1> QED BY <1>4, <1>5, <1>6, <1>7, <1>8 DEF Tasking

(* A step of an update, other than the one that takes the changes *)
LEMMA UpdatingComing ==
    ASSUME Base, Closes, Late, Coming, ~queue.closed, snapshot # Nil, NEW p \in DOMAIN todo, UpdatingStep(p),
           \A need \in BOOLEAN : ~Take(p, need)
    PROVE  Coming'
  <1>0. Planned /\ TypeOK /\ ~token /\ UNCHANGED <<slot, armed, queue>>
    BY Alone DEF Base, Shape, Closes
  <1>1. Others(p) /\ ~Has(p, Scheduling)
    BY <1>0, UpdatingMoves, HasPlaces DEF Update_
  <1>2. CASE Look(p)
    <2>0. Place(p) = "look" /\ DOMAIN todo' = DOMAIN todo
      BY <1>0, <1>1, <1>2, LookGoes DEF Others
    <2>1. CASE p \notin Thread /\ ~Matches(p)
      <3>1. ~Current(p)
        BY <1>0, <2>1 DEF Current, Matches
      <3>2. ~Brings(p)
        BY <1>1, <2>0, <3>1 DEF Brings
      <3> QED BY <1>0, <1>1, <3>2, ComingStays
    <2>2. CASE Goes(p, {"begin"})
      <3>1. (Brings(p))'
        BY <2>2 DEF Brings, Goes
      <3> QED BY <2>0, <3>1 DEF Coming
    <2> QED BY <1>0, <1>2, <2>1, <2>2, LookGoes
  <1>3. CASE ~Look(p)
    <2>1. Place(p) \in {"build", "publish", "announce", "restore"}
      <3>1. At(p, "build") \/ At(p, "publish") \/ At(p, "announce") \/ At(p, "restore")
        BY <1>3 DEF UpdatingStep, Build, Publish, Announce, Restore
      <3> QED BY <1>0, <3>1, PlaceAt
    <2>2. ~Current(p)
      <3>1. Current(p) => p[2] < slot["update"].epoch
        BY <2>1 DEF Late, Current, Task, Holds, Builds
      <3>2. slot["update"].epoch \in Nat
        BY <1>0 DEF TypeOK, Slot, Kind
      <3> QED BY <3>1, <3>2 DEF Current
    <2>3. ~Brings(p)
      BY <1>1, <2>1, <2>2 DEF Brings
    <2> QED BY <1>0, <1>1, <2>3, ComingStays
  <1> QED BY <1>2, <1>3

(* A step of a notification *)
LEMMA NotifyingComing ==
    ASSUME Base, Coming, NEW p \in DOMAIN todo, Notifying(p)
    PROVE  Coming'
  <1>0. Planned /\ TypeOK /\ UNCHANGED <<slot, armed, queue>>
    BY Alone DEF Base, Shape
  <1>1. /\ Others(p) /\ (Place(p))' # "finish"
        /\ Place(p) \in {"enqueue", "watched", "push", "unread", "apply", "settle", "rollback"}
    BY <1>0, NotifyingMoves
  <1>2. ASSUME Has(p, Scheduling)
        PROVE  (Has(p, Scheduling))'
    <2>1. Place(p) = "push"
      BY <1>0, <1>1, <1>2, HasPlaces
    <2>2. Push(p)
      <3>1. \A op \in {"enqueue", "watched", "unread", "apply", "settle", "rollback"} : ~At(p, op)
        BY <1>0, <2>1, PlaceAt
      <3> QED BY <3>1 DEF Notifying, Enqueue, Watched, Unread, Apply, Settle, Rollback
    <2>3. todo[p] # <<>> /\ todo[p][1][1] = "push" /\ Then(p, <<>>)
      BY <1>0, <2>2, PlaceAt DEF Push
    <2> QED BY <1>0, <1>2, <2>3, HasKeeps DEF Scheduling
  <1>3. Current(p) => (Current(p))'
    BY <1>0 DEF Current, Task
  <1>4. Brings(p) => (Brings(p))'
    BY <1>1, <1>2, <1>3 DEF Brings
  <1> QED BY <1>0, <1>1, <1>4, ComingStays

(* A step of a close, before the snapshot is gone *)
LEMMA ClosingComing ==
    ASSUME Base, Closes, Coming, snapshot # Nil, snapshot' # Nil, NEW p \in DOMAIN todo, ClosingStep(p)
    PROVE  Coming'
  <1>0. Planned /\ TypeOK /\ Place(p) \notin PastShut
    BY DEF Base, Shape, Closes
  <1>1. /\ Others(p) /\ (Place(p))' # "finish"
        /\ Place(p) \in {"lock", "shut", "clear", "stop", "unlock", "wait", "closed"}
    BY <1>0, ClosingMoves
  <1>2. Lock(p)
    <2>1. \A op \in {"clear", "stop", "unlock", "wait", "closed"} : ~At(p, op)
      BY <1>0, PlaceAt DEF PastShut, PastClear, PastStop, PastUpdate, PastIdle, PastRefresh
    <2>2. ~Shut(p)
      BY DEF Shut
    <2> QED BY <2>1, <2>2 DEF ClosingStep, Clear, Stop, Unlock, Wait, Closed
  <1>3. Place(p) = "lock" /\ todo[p] # <<>> /\ todo[p][1][1] = "lock" /\ Then(p, <<>>)
    BY <1>0, <1>2, PlaceAt DEF Lock
  <1>4. UNCHANGED <<slot, armed, queue>>
    BY <1>2 DEF Lock, timers
  <1>5. Has(p, Scheduling) => (Has(p, Scheduling))'
    BY <1>0, <1>3, HasKeeps DEF Scheduling
  <1>6. Current(p) => (Current(p))'
    BY <1>4 DEF Current, Task
  <1>7. Brings(p) => (Brings(p))'
    BY <1>1, <1>3, <1>5, <1>6 DEF Brings
  <1> QED BY <1>1, <1>4, <1>7, ComingStays

(* A timer that fires is the thread that the update comes from. *)
LEMMA FireComing ==
    ASSUME Base, Coming, NEW t \in armed, Fire(t)
    PROVE  Coming'
  <1>0. Planned /\ TypeOK /\ Names /\ UNCHANGED <<slot, queue>>
    BY DEF Base, Shape, Fire, work
  <1>1. Enters(t)
    BY FireEnters
  <1>2. t \in Timer /\ t \notin DOMAIN todo /\ t \notin Thread
    BY <1>0, SessionAssumption DEF TypeOK, Names
  <1>3. ASSUME NEW q \in DOMAIN todo, Brings(q)
        PROVE  q \in DOMAIN todo' /\ (Brings(q))'
    <2>1. q # t
      BY <1>2
    <2>2. q \in DOMAIN todo' /\ todo'[q] = todo[q] /\ (Place(q))' = Place(q)
      BY <1>1, <2>1 DEF Enters, Fire
    <2>3. Has(q, Scheduling) => (Has(q, Scheduling))'
      BY <2>2, HasPrimed
    <2>4. Current(q) => (Current(q))'
      BY <1>0 DEF Current, Task
    <2> QED BY <1>3, <2>2, <2>3, <2>4 DEF Brings
  <1>4. ASSUME <<"update", slot["update"].epoch>> \in armed
        PROVE  Coming'
    <2>1. PICK u : u = <<"update", slot["update"].epoch>>
      OBVIOUS
    <2>2. CASE t = u
      <3>1. t[1] = "update" /\ t[2] = slot["update"].epoch
        BY <2>1, <2>2
      <3>2. t \in DOMAIN todo' /\ (Place(t))' = "match"
        BY <1>1 DEF Enters
      <3>3. (Current(t))'
        BY <1>0, <1>2, <3>1 DEF Current, Task
      <3>4. (Brings(t))'
        BY <3>2, <3>3 DEF Brings
      <3> QED BY <3>2, <3>4 DEF Coming
    <2>3. CASE t # u
      <3>1. u \in armed'
        BY <1>4, <2>1, <2>3 DEF Fire
      <3> QED BY <1>0, <2>1, <3>1 DEF Coming
    <2> QED BY <2>2, <2>3
  <1> QED BY <1>0, <1>3, <1>4 DEF Coming

(* No step leaves the changes behind, but the one that takes them. *)
LEMMA ComingStep ==
    ASSUME Base, Counted, Closes, Late, Coming, snapshot # Nil, snapshot' # Nil, [Next]_vars,
           \A p \in DOMAIN todo, need \in BOOLEAN : ~Take(p, need)
    PROVE  Coming'
  <1>0. Planned
    BY DEF Base, Shape
  <1>1. CASE queue.closed
    BY <1>1, QueueGone DEF Coming
  <1>2. CASE ~queue.closed
    <2>1. ASSUME NEW p \in Thread, NEW op \in Calls, NEW f \in File, Call(p, op, f)
          PROVE  Coming'
      <3>1. p \in DOMAIN todo /\ Place(p) = "idle" /\ Others(p)
        BY <1>0, <2>1, CallGoes DEF Goes
      <3>2. ~Brings(p)
        BY <1>0, <3>1, HasPlaces DEF Brings, Current, Task
      <3>3. UNCHANGED <<slot, armed, queue>>
        BY <2>1 DEF Call, timers
      <3> QED BY <3>1, <3>2, <3>3, ComingStays
    <2>2. ASSUME NEW t \in armed, Fire(t)
          PROVE  Coming'
      BY <2>2, FireComing
    <2>3. ASSUME NEW p \in DOMAIN todo,
                 Notifying(p) \/ Timing(p) \/ Tasking(p) \/ UpdatingStep(p) \/ ClosingStep(p)
          PROVE  Coming'
      BY <1>2, <2>3, NotifyingComing, TimingComing, TaskingComing, UpdatingComing, ClosingComing
    <2>4. CASE UNCHANGED vars
      <3>1. UNCHANGED <<slot, armed, queue, todo>>
        BY <2>4 DEF vars, timers
      <3>2. ASSUME NEW q \in DOMAIN todo, Brings(q)
            PROVE  (Brings(q))'
        <4>1. (Place(q))' = Place(q)
          BY <3>1, PlacePrimed DEF Place
        <4>2. Has(q, Scheduling) => (Has(q, Scheduling))'
          BY <3>1, HasPrimed
        <4>3. Current(q) => (Current(q))'
          BY <3>1 DEF Current, Task
        <4> QED BY <3>2, <4>1, <4>2, <4>3 DEF Brings
      <3> QED BY <3>1, <3>2 DEF Coming
    <2> QED BY <2>1, <2>2, <2>3, <2>4 DEF Next, Rest, Calls
  <1> QED BY <1>1, <1>2

(* A change that asked for an update has one coming. *)
Comes == snapshot # Nil /\ Asked => Coming

(* No update is asked for at first.                                        *)
LEMMA ComesInit == Init => Late /\ Comes
  <1> SUFFICES ASSUME Init PROVE Late /\ Comes
    OBVIOUS
  <1>1. DOMAIN todo \ Thread = {} /\ pending.changes = <<>>
    BY DEF Init, Empty
  <1>2. Len(<<>>) = 0
    OBVIOUS
  <1>3. ~Asked
    BY <1>1, <1>2 DEF Asked
  <1> QED BY <1>1, <1>3 DEF Late, Comes

(* An update that is asked for stays on its way, in every step.            *)
LEMMA ComesStep ==
    ASSUME Base, Ended, NothingLost, Late, Comes, [Next]_vars
    PROVE  Comes'
  <1>1. SUFFICES ASSUME snapshot' # Nil, Asked'
                 PROVE  Coming'
    BY DEF Comes
  <1>2. snapshot # Nil
    BY <1>1, SnapshotGone
  <1>3. Closes /\ Counted
    BY DEF Ended
  <1>4. CASE Asked /\ \A p \in DOMAIN todo, need \in BOOLEAN : ~Take(p, need)
    BY <1>1, <1>2, <1>3, <1>4, ComingStep DEF Comes
  <1>5. CASE \E p \in DOMAIN todo' : (Has(p, Scheduling))'
    BY <1>5 DEF Coming, Brings
  <1> QED BY <1>1, <1>3, <1>4, <1>5, AskedStep

(* A pending change that asked for an update, and that no failed update put
   back, has one coming: a timer that is set or about to be, its task before the
   update, or an update that has yet to take what is pending, until the timers are
   closed: neither a timer that was replaced nor an update that cancels the timer
   and then succeeds leaves a change behind (Session::update_snapshot,
   Timers::schedule).  What a failed update put back is excused. *)
THEOREM UpdateIsComingHolds == Spec => []UpdateIsComing
  <1>1. Init => Late /\ Comes
    BY ComesInit
  <1>2. Base /\ Ended /\ NothingLost /\ (Late /\ Comes) /\ [Next]_vars => (Late /\ Comes)'
    BY LateStep, ComesStep
  <1>3. Base /\ Late /\ Comes => UpdateIsComing
    <2> SUFFICES ASSUME Planned, Comes, NEW i \in 1 .. Len(pending.changes), snapshot # Nil,
                        pending.changes[i].asks, pending.changes[i].n \notin excused
                 PROVE  \/ <<"update", slot["update"].epoch>> \in armed
                        \/ queue.closed
                        \/ \E p \in DOMAIN todo :
                              \/ Has(p, {"schedule", "arm"})
                              \/ Current(p) /\ ~At(p, "finish")
                              \/ WillTake(p)
      BY DEF UpdateIsComing, Base, Shape
    <2>1. Coming
      BY DEF Comes, Asked, Wants
    <2> QED BY <2>1, BringsIs DEF Coming
  <1> QED BY <1>1, <1>2, <1>3, BaseHolds, EndedHolds, NothingLostHolds, PTL DEF Spec

----------------------------------------------------------------------------
(* The options *)

(* Only the thread that applies options has them to settle. *)
LEMMA ChoiceOwner ==
    ASSUME Planned, NEW p \in DOMAIN todo, NEW x, ChoiceOf(todo[p], x)
    PROVE  /\ p \in Thread /\ "apply" \in Does[p] /\ todo[p] # <<>> /\ x \in Steps
           /\ x[2] \in Nat /\ x[3] \in Nat \cup {Nil}
  <1>1. PICK s : s = todo[p]
    OBVIOUS
  <1>2. s \in Seq(Steps) /\ Plan(p, s)
    BY <1>1 DEF Planned
  <1>3. PICK i \in 1 .. Len(s) : s[i] = x /\ x[1] \in Applied
    BY <1>1 DEF ChoiceOf
  <1>4. x \in Steps /\ Fits(p, x) /\ s # <<>>
    BY <1>2, <1>3 DEF Plan, Fitting
  <1>5. p \in Thread /\ "apply" \in Does[p]
    BY <1>3, <1>4 DEF Fits, Applied
  <1> QED BY <1>1, <1>3, <1>4, <1>5, StepKinds

(* The choices of a thread are those it had, taken back perhaps. *)
Keeps(s, z) ==
    \A x \in Steps : ChoiceOf(z, x) =>
        \E y \in Steps : ChoiceOf(s, y) /\ y[2] = x[2] /\ y[3] = x[3] /\ (x[1] = "settle" => y[1] = "settle")

(* A list that stays keeps its options.                                    *)
LEMMA KeepsSame ==
    ASSUME NEW s
    PROVE  Keeps(s, s)
  BY DEF Keeps

(* A list without options keeps what another one has.                      *)
LEMMA KeepsNone ==
    ASSUME NEW s, NEW z, \A i \in 1 .. Len(z) : z[i][1] \notin Applied
    PROVE  Keeps(s, z)
  BY DEF Keeps, ChoiceOf

(* New steps in front bring no options.                                    *)
LEMMA KeepsThen ==
    ASSUME Planned, NEW p \in DOMAIN todo, todo[p] # <<>>, NEW new \in Seq(Steps),
           \A i \in 1 .. Len(new) : new[i][1] \notin Applied, Then(p, new)
    PROVE  Keeps(todo[p], todo'[p])
  <1>1. PICK s, z : s = todo[p] /\ z = new \o Tail(s)
    OBVIOUS
  <1>2. s \in Seq(Steps)
    BY <1>1 DEF Planned
  <1>3. todo'[p] = z
    BY <1>1 DEF Then, Planned
  <1>4. /\ Len(s) \in Nat /\ Len(s) >= 1 /\ Len(new) \in Nat /\ Len(z) = Len(new) + Len(s) - 1
        /\ \A i \in 1 .. Len(new) : z[i] = new[i]
        /\ \A i \in 2 .. Len(s) : z[Len(new) + i - 1] = s[i]
        /\ \A i \in 1 .. Len(new) + Len(s) - 1 :
              i \in 1 .. Len(new) \/ (i - Len(new) + 1 \in 2 .. Len(s) /\ i = Len(new) + (i - Len(new) + 1) - 1)
    BY <1>1, <1>2, Behind_
  <1>5. ASSUME NEW x \in Steps, ChoiceOf(z, x)
        PROVE  ChoiceOf(s, x)
    <2>1. PICK i \in 1 .. Len(z) : z[i] = x /\ x[1] \in Applied
      BY <1>5 DEF ChoiceOf
    <2>2. i \notin 1 .. Len(new)
      BY <1>4, <2>1
    <2>3. PICK j : j = i - Len(new) + 1
      OBVIOUS
    <2>4. j \in 2 .. Len(s) /\ i = Len(new) + j - 1
      BY <1>4, <2>1, <2>2, <2>3
    <2>5. j \in 1 .. Len(s) /\ s[j] = x
      BY <1>4, <2>1, <2>4
    <2> QED BY <2>1, <2>5 DEF ChoiceOf
  <1> QED BY <1>1, <1>3, <1>5 DEF Keeps

(* A step that is done brings no options.                                  *)
LEMMA KeepsDone ==
    ASSUME Planned, NEW p \in DOMAIN todo, todo[p] # <<>>, Then(p, <<>>)
    PROVE  Keeps(todo[p], todo'[p])
  <1>1. PICK n : n = <<>>
    OBVIOUS
  <1>2. n \in Seq(Steps) /\ Len(n) = 0
    BY <1>1
  <1>3. \A i \in 1 .. Len(n) : n[i][1] \notin Applied
    BY <1>2
  <1> QED BY <1>1, <1>2, <1>3, KeepsThen

(* One other step in front brings no options.                              *)
LEMMA KeepsOne ==
    ASSUME Planned, NEW p \in DOMAIN todo, todo[p] # <<>>, NEW x \in Steps, x[1] \notin Applied, Then(p, <<x>>)
    PROVE  Keeps(todo[p], todo'[p])
  <1>1. PICK n : n = <<x>>
    OBVIOUS
  <1>2. n \in Seq(Steps) /\ Len(n) = 1 /\ n[1] = x
    BY <1>1
  <1>3. \A i \in 1 .. Len(n) : n[i][1] \notin Applied
    BY <1>2
  <1> QED BY <1>1, <1>2, <1>3, KeepsThen

(* The options are where they were, for the threads that go on like this. *)
Steady(q) ==
    /\ q \in DOMAIN todo' /\ Keeps(todo[q], todo'[q])
    /\ Place(q) \in Early => (Place(q))' \in Early
    /\ taken # Nil /\ Place(q) \in Builds \cup {"look"} => (Place(q))' \in Builds \cup {"look"}

(* A step that neither moves nor settles options.                          *)
LEMMA OptionsStay ==
    ASSUME Options, snapshot # Nil, UNCHANGED <<snapshot, taken, acked>>,
           pending'.inferred = pending.inferred, count'.options = count.options,
           \A q \in Thread : Steady(q)
    PROVE  Options'
  <1>1. ASSUME NEW o
        PROVE  Known(o) <=> (Known(o))'
    BY DEF Known
  <1>2. ASSUME NEW q \in Thread, NEW x \in Steps, ChoiceOf(todo'[q], x)
        PROVE  (Chosen(q, x))'
    <2>1. PICK y \in Steps : ChoiceOf(todo[q], y) /\ y[2] = x[2] /\ y[3] = x[3] /\ (x[1] = "settle" => y[1] = "settle")
      BY <1>2 DEF Steady, Keeps
    <2>2. Chosen(q, y)
      BY <2>1 DEF Options, Choices
    <2>3. Underway(q, x[2]) => (Underway(q, x[2]))'
      BY DEF Underway, Steady
    <2>4. Known(x[3]) => (Known(x[3]))'
      BY <1>1
    <2> QED BY <2>1, <2>2, <2>3, <2>4 DEF Chosen
  <1>3. Choices'
    BY <1>2 DEF Choices, ChoiceOf
  <1>4. /\ Known(pending.inferred) /\ Known(snapshot.inferred) /\ (taken # Nil => Known(taken.inferred))
    BY DEF Options
  <1>5. (Known(pending.inferred))' /\ (Known(snapshot.inferred))' /\ (taken' # Nil => (Known(taken.inferred))')
    BY <1>4 DEF Known
  <1> QED BY <1>3, <1>5 DEF Options

(* The others, while one thread goes on *)
LEMMA OthersSteady ==
    ASSUME Planned, NEW p, Others(p), NEW q \in Thread, q # p
    PROVE  Steady(q)
  <1>1. q \in DOMAIN todo /\ q \in DOMAIN todo' /\ todo'[q] = todo[q] /\ (Place(q))' = Place(q)
    BY DEF Others, Planned
  <1> QED BY <1>1, KeepsSame DEF Steady

(* Only one thread has options to settle.                                  *)
LEMMA SoleApplier ==
    ASSUME Planned, NEW p \in Thread, "apply" \in Does[p], NEW q \in Thread, q # p, NEW x
    PROVE  ~ChoiceOf(todo[q], x)
  <1>1. q \in DOMAIN todo
    BY DEF Planned
  <1> QED BY <1>1, ChoiceOwner, OneApplier

(* The first step of a thread with its options to settle *)
LEMMA ChoiceFirst ==
    ASSUME Planned, Options, snapshot # Nil, NEW p \in DOMAIN todo, NEW op \in Applied, At(p, op)
    PROVE  /\ p \in Thread /\ "apply" \in Does[p] /\ Place(p) = op /\ Head(todo[p]) = todo[p][1]
           /\ todo[p][1][1] = op /\ Chosen(p, todo[p][1]) /\ todo[p][1][2] \in Nat
           /\ todo[p][1][3] \in Nat \cup {Nil}
           /\ Then(p, <<>>) => todo'[p] = <<>> /\ Others(p)
  <1>1. /\ Place(p) = op /\ todo[p] # <<>> /\ todo[p][1][1] = op /\ Head(todo[p]) = todo[p][1]
        /\ todo[p][1] \in Steps
    BY PlaceAt DEF Applied
  <1>2. todo[p] \in Seq(Steps) /\ Plan(p, todo[p])
    BY DEF Planned
  <1>3. Len(todo[p]) = 1
    BY <1>1, <1>2, Ends DEF Applied
  <1>4. 1 \in 1 .. Len(todo[p])
    BY <1>3
  <1>5. ChoiceOf(todo[p], todo[p][1])
    BY <1>1, <1>4 DEF ChoiceOf
  <1>6. /\ p \in Thread /\ "apply" \in Does[p] /\ todo[p][1][2] \in Nat /\ todo[p][1][3] \in Nat \cup {Nil}
    BY <1>5, ChoiceOwner
  <1>7. Chosen(p, todo[p][1])
    BY <1>1, <1>5, <1>6 DEF Options, Choices
  <1>8. ASSUME Then(p, <<>>)
        PROVE  todo'[p] = <<>> /\ Others(p)
    <2>1. Tail(todo[p]) = <<>>
      BY <1>1, <1>2, <1>3, TailOf
    <2>2. <<>> \o <<>> = <<>>
      OBVIOUS
    <2>3. todo' = [todo EXCEPT ![p] = <<>>]
      BY <1>8, <2>1, <2>2 DEF Then
    <2> QED BY <2>3, NewGoes
  <1> QED BY <1>1, <1>6, <1>7, <1>8

(* No options are left to settle. *)
LEMMA NoChoices ==
    ASSUME Planned, NEW p \in Thread, "apply" \in Does[p], Others(p), todo'[p] = <<>>
    PROVE  Choices'
  <1>1. Len(<<>>) = 0
    OBVIOUS
  <1>2. ASSUME NEW q \in Thread, NEW x \in Steps, ChoiceOf(todo'[q], x)
        PROVE  FALSE
    <2>1. CASE q = p
      BY <1>1, <1>2, <2>1 DEF ChoiceOf
    <2>2. CASE q # p
      <3>1. todo'[q] = todo[q]
        BY <2>2 DEF Others, Planned
      <3> QED BY <1>2, <2>2, <3>1, SoleApplier
    <2> QED BY <2>1, <2>2
  <1> QED BY <1>2 DEF Choices, ChoiceOf

(* New options are pending, and those before them are remembered.          *)
LEMMA ApplyOptions ==
    ASSUME Base, Options, snapshot # Nil, NEW p \in DOMAIN todo, Apply(p)
    PROVE  Options'
  <1>0. Planned /\ TypeOK
    BY DEF Base, Shape
  <1>1. /\ p \in Thread /\ "apply" \in Does[p] /\ Goes(p, {"look"}) /\ Len(todo'[p]) = 2 /\ todo'[p][1][1] = "look"
        /\ todo'[p][2] = <<"settle", count.options + 1, pending.inferred>>
        /\ pending' = [pending EXCEPT !.inferred = count.options + 1]
        /\ count' = [count EXCEPT !.options = count.options + 1]
        /\ UNCHANGED <<snapshot, taken, history>>
    BY <1>0, ApplyGoes
  <1>2. /\ pending'.inferred = count.options + 1 /\ count'.options = count.options + 1 /\ count.options \in Nat
        /\ UNCHANGED acked /\ pending.inferred \in Nat \cup {Nil} /\ snapshot.inferred \in Nat
        /\ snapshot.inferred # Nil
    <2>1. /\ pending.inferred \in Nat \cup {Nil} /\ snapshot.inferred \in Nat
          /\ pending = [changes |-> pending.changes, inferred |-> pending.inferred]
      BY <1>0, PendingParts
    <2>2. snapshot.inferred # Nil
      BY <2>1, SessionAssumption
    <2>3. count \in [calls : Nat, fires : Nat, changes : Nat, options : Nat]
      BY <1>0 DEF TypeOK
    <2>4. count'.options = count.options + 1 /\ count.options \in Nat
      BY <1>1, <2>3
    <2>5. pending'.inferred = count.options + 1
      BY <1>1, <2>1
    <2> QED BY <1>1, <2>1, <2>2, <2>4, <2>5 DEF history
  <1>3. /\ Known(pending.inferred) /\ Known(snapshot.inferred) /\ (taken # Nil => Known(taken.inferred))
    BY DEF Options
  <1>4. acked \subseteq Nat /\ \A a \in acked : a <= count.options
    <2>1. acked \subseteq Nat /\ \A a \in acked : a <= snapshot.inferred /\ snapshot.inferred <= count.options
      BY <1>0, <1>2, <1>3 DEF TypeOK, Known
    <2> QED BY <1>2, <2>1
  <1>5. ASSUME NEW o \in Nat \cup {Nil}, Known(o)
        PROVE  (Known(o))'
    BY <1>2, <1>5 DEF Known
  <1>6. \A a \in acked : a <= count.options + 1
    BY <1>2, <1>4
  <1>7. (Known(pending.inferred))'
    BY <1>2, <1>6 DEF Known
  <1>8. (Known(snapshot.inferred))' /\ (taken' # Nil => (Known(taken.inferred))')
    <2>1. (Known(snapshot.inferred))'
      BY <1>1, <1>2, <1>3 DEF Known
    <2>2. taken # Nil => taken.inferred \in Nat \cup {Nil}
      BY <1>0, PendingParts
    <2> QED BY <1>1, <1>2, <1>3, <2>1, <2>2 DEF Known
  <1>9. ASSUME NEW q \in Thread, NEW x \in Steps, ChoiceOf(todo'[q], x)
        PROVE  (Chosen(q, x))'
    <2>1. q = p
      <3>1. SUFFICES ASSUME q # p PROVE FALSE
        OBVIOUS
      <3>2. todo'[q] = todo[q]
        BY <1>0, <1>1, <3>1 DEF Goes, Others, Planned
      <3> QED BY <1>0, <1>1, <1>9, <3>1, <3>2, SoleApplier
    <2>2. PICK i \in 1 .. 2 : todo'[p][i] = x /\ x[1] \in Applied
      BY <1>1, <1>9, <2>1 DEF ChoiceOf
    <2>3. i = 2
      BY <1>1, <2>2 DEF Applied
    <2>4. x = <<"settle", count.options + 1, pending.inferred>>
      BY <1>1, <2>2, <2>3
    <2>5. x[2] = count'.options /\ x[2] = pending'.inferred /\ x[3] = pending.inferred
      BY <1>2, <2>4
    <2>6. (Known(x[3]))'
      BY <1>2, <1>3, <2>5 DEF Known
    <2>7. (Underway(p, x[2]))'
      BY <1>1, <2>5 DEF Underway, Early, Goes
    <2> QED BY <2>1, <2>5, <2>6, <2>7 DEF Chosen
  <1>10. Choices'
    BY <1>9 DEF Choices, ChoiceOf
  <1> QED BY <1>7, <1>8, <1>10 DEF Options

(* Options that an update has published are acknowledged.                  *)
LEMMA SettleOptions ==
    ASSUME Base, Options, snapshot # Nil, NEW p \in DOMAIN todo, Settle(p)
    PROVE  Options'
  <1>0. Planned /\ TypeOK
    BY DEF Base, Shape
  <1>1. /\ p \in Thread /\ "apply" \in Does[p] /\ Place(p) = "settle" /\ Chosen(p, todo[p][1])
        /\ todo[p][1][1] = "settle" /\ todo[p][1][2] \in Nat /\ todo'[p] = <<>> /\ Others(p)
        /\ Head(todo[p]) = todo[p][1]
    BY <1>0, ChoiceFirst DEF Settle, Applied
  <1>2. PICK o \in Nat : o = todo[p][1][2]
    BY <1>1
  <1>3. acked' = acked \cup {o} /\ UNCHANGED <<snapshot, pending, taken, count>>
    BY <1>1, <1>2 DEF Settle, Arg, work
  <1>4. /\ pending.inferred = Nil /\ (taken # Nil => taken.inferred = Nil) /\ snapshot.inferred = o
        /\ o = count.options
    BY <1>1, <1>2 DEF Chosen, Underway, Early, Builds
  <1>5. o # Nil
    BY SessionAssumption
  <1>6. \A a \in acked' : a <= o
    BY <1>3, <1>4, <1>5 DEF Options, Known
  <1>7. (Known(snapshot.inferred))' /\ (Known(pending.inferred))' /\ (taken' # Nil => (Known(taken.inferred))')
    BY <1>3, <1>4, <1>6 DEF Known
  <1>8. Choices'
    BY <1>0, <1>1, NoChoices
  <1> QED BY <1>7, <1>8 DEF Options

(* Options whose update failed give way to those before them.              *)
LEMMA RollbackOptions ==
    ASSUME Base, Options, snapshot # Nil, NEW p \in DOMAIN todo, Rollback(p)
    PROVE  Options'
  <1>0. Planned /\ TypeOK
    BY DEF Base, Shape
  <1>1. /\ p \in Thread /\ "apply" \in Does[p] /\ Chosen(p, todo[p][1]) /\ todo'[p] = <<>> /\ Others(p)
        /\ Head(todo[p]) = todo[p][1]
    BY <1>0, ChoiceFirst DEF Rollback, Applied
  <1>2. UNCHANGED <<snapshot, taken, count, acked>>
    BY DEF Rollback, work, history
  <1>3. pending'.inferred = pending.inferred \/ pending'.inferred = todo[p][1][3]
    <2>1. pending' = IF pending.inferred = todo[p][1][2] THEN [pending EXCEPT !.inferred = todo[p][1][3]] ELSE pending
      BY <1>1 DEF Rollback, Arg
    <2> QED BY <1>0, <2>1 DEF TypeOK, Pending
  <1>4. Known(pending.inferred) /\ Known(todo[p][1][3]) /\ Known(snapshot.inferred)
        /\ (taken # Nil => Known(taken.inferred))
    BY <1>1 DEF Options, Chosen
  <1>5. (Known(snapshot.inferred))' /\ (Known(pending.inferred))' /\ (taken' # Nil => (Known(taken.inferred))')
    BY <1>2, <1>3, <1>4 DEF Known
  <1>6. Choices'
    BY <1>0, <1>1, NoChoices
  <1> QED BY <1>5, <1>6 DEF Options

(* A step of a notification *)
LEMMA NotifyingOptions ==
    ASSUME Base, Options, snapshot # Nil, NEW p \in DOMAIN todo, Notifying(p)
    PROVE  Options'
  <1>0. Planned /\ TypeOK /\ UNCHANGED <<snapshot, taken>>
    BY Alone DEF Base, Shape
  <1>1. ASSUME NEW c, NEW f, NEW asks, Admit(c, f, asks)
        PROVE  pending'.inferred = pending.inferred /\ count'.options = count.options
    BY <1>0, <1>1 DEF Admit, TypeOK, Pending
  <1>2. ASSUME Place(p) \in {"enqueue", "watched", "push", "unread"}, Keeps(todo[p], todo'[p]),
               pending'.inferred = pending.inferred, count'.options = count.options, UNCHANGED acked
        PROVE  Options'
    <2>1. Others(p)
      BY <1>0, NotifyingMoves
    <2>2. p \in Thread => Steady(p)
      BY <1>2, <2>1 DEF Steady, Early, Builds, Others
    <2>3. \A q \in Thread : Steady(q)
      BY <1>0, <2>1, <2>2, OthersSteady
    <2> QED BY <1>0, <1>2, <2>3, OptionsStay
  <1>3. ASSUME NEW mapped \in BOOLEAN, Enqueue(p, mapped)
        PROVE  Options'
    <2>1. /\ Place(p) = "enqueue" /\ todo[p] # <<>> /\ todo[p][1][1] = "enqueue"
          /\ Head(todo[p]) = todo[p][1] /\ todo[p][1] \in Steps
      BY <1>0, <1>3, PlaceAt DEF Enqueue
    <2>2. PICK c, f, op : /\ c = todo[p][1][2] /\ f = todo[p][1][3]
                          /\ op = (IF mapped THEN "schedule" ELSE "cancel")
      OBVIOUS
    <2>3. c \in Edits /\ f \in File /\ op \in {"schedule", "cancel"}
      BY <2>1, <2>2, StepKinds
    <2>4. PICK n : n = Noting(c, f, op)
      OBVIOUS
    <2>5. n \in Seq(Steps) /\ \A i \in 1 .. Len(n) : n[i][1] \notin Applied
      BY <2>3, <2>4, NotingPlan DEF Noted, Applied
    <2>6. Then(p, n) /\ UNCHANGED <<pending, count, acked>>
      BY <1>3, <2>1, <2>2, <2>4 DEF Enqueue, Refused, Noting, Arg, work, history
    <2>7. Keeps(todo[p], todo'[p])
      BY <1>0, <2>1, <2>5, <2>6, KeepsThen
    <2> QED BY <1>2, <2>1, <2>6, <2>7
  <1>4. ASSUME NEW relevant \in BOOLEAN, NEW config \in BOOLEAN, Watched(p, relevant, config)
        PROVE  Options'
    <2>1. Place(p) = "watched" /\ todo[p] # <<>> /\ Head(todo[p]) = todo[p][1]
      BY <1>0, <1>4, PlaceAt DEF Watched
    <2>2. PICK n : n = Watching(relevant, config)
      OBVIOUS
    <2>3. n \in Seq(Steps) /\ \A i \in 1 .. Len(n) : n[i][1] \notin Applied
      BY <2>2, WatchingPlan DEF Applied
    <2>4. Then(p, n) /\ UNCHANGED acked /\ Admit("watch", todo[p][1][2], config)
      BY <1>4, <2>1, <2>2 DEF Watched, Refused, Watching, Arg, history
    <2>5. Keeps(todo[p], todo'[p])
      BY <1>0, <2>1, <2>3, <2>4, KeepsThen
    <2> QED BY <1>1, <1>2, <2>1, <2>4, <2>5
  <1>5. CASE Push(p)
    <2>1. Place(p) = "push" /\ todo[p] # <<>> /\ Then(p, <<>>) /\ UNCHANGED acked
      BY <1>0, <1>5, PlaceAt DEF Push, history
    <2>2. pending'.inferred = pending.inferred /\ count'.options = count.options
      BY <1>1, <1>5 DEF Push
    <2> QED BY <1>0, <1>2, <2>1, <2>2, KeepsDone
  <1>6. CASE Unread(p)
    <2>1. Place(p) = "unread" /\ todo[p] # <<>> /\ Then(p, <<>>) /\ UNCHANGED <<pending, count, acked>>
      BY <1>0, <1>6, PlaceAt DEF Unread, work, history
    <2> QED BY <1>0, <1>2, <2>1, KeepsDone
  <1> QED BY <1>3, <1>4, <1>5, <1>6, ApplyOptions, SettleOptions, RollbackOptions DEF Notifying

(* A step of one of the timers' operations *)
LEMMA TimingOptions ==
    ASSUME Base, Options, snapshot # Nil, NEW p \in DOMAIN todo, Timing(p)
    PROVE  Options'
  <1>0. Planned /\ TypeOK /\ UNCHANGED <<snapshot, taken, pending, count, acked>>
    BY Alone DEF Base, Shape
  <1>1. Others(p)
    BY <1>0, TimingMoves
  <1>2. ASSUME Keeps(todo[p], todo'[p]),
               Place(p) \notin Early \cup Builds \/ (Place(p) = "begin" /\ (Place(p))' = "take")
        PROVE  Options'
    <2>1. p \in Thread => Steady(p)
      BY <1>1, <1>2 DEF Steady, Early, Builds, Others
    <2>2. \A q \in Thread : Steady(q)
      BY <1>0, <1>1, <2>1, OthersSteady
    <2> QED BY <1>0, <2>2, OptionsStay
  <1>3. CASE Cancel(p)
    <2>1. todo[p] # <<>> /\ Then(p, <<>>)
      BY <1>3 DEF Cancel, At
    <2>2. Place(p) \in {"begin", "endUpdate", "endIdle", "endRefresh", "cancel"} /\ (Place(p))' \in After(Place(p))
      BY <1>0, <1>3, CancelGoes DEF Goes
    <2>3. Place(p) \notin Early \cup Builds \/ (Place(p) = "begin" /\ (Place(p))' = "take")
      BY <2>2 DEF Early, Builds, After, Update_
    <2> QED BY <1>0, <1>2, <2>1, <2>3, KeepsDone
  <1>4. CASE Schedule(p)
    <2>1. /\ Place(p) = "schedule" /\ todo[p] # <<>> /\ todo[p][1] \in Steps /\ todo[p][1][1] = "schedule"
          /\ Head(todo[p]) = todo[p][1]
      BY <1>0, <1>4, PlaceAt DEF Schedule
    <2>2. PICK x : x = <<"arm", todo[p][1][2]>>
      OBVIOUS
    <2>3. x \in Steps /\ x[1] \notin Applied
      BY <2>1, <2>2, StepKinds, InSteps DEF Timed, Applied
    <2>4. Then(p, <<>>) \/ Then(p, <<x>>)
      BY <1>4, <2>1, <2>2 DEF Schedule, Arg
    <2> QED BY <1>0, <1>2, <2>1, <2>3, <2>4, KeepsDone, KeepsOne DEF Early, Builds
  <1>5. CASE Arm(p)
    <2>1. PICK k \in Kind, e \in Nat : todo[p] # <<>> /\ Then(p, << <<"store", k, e>> >>)
      BY <1>0, <1>5, ArmDoes
    <2>2. PICK x : x = <<"store", k, e>>
      OBVIOUS
    <2>3. x \in Steps /\ x[1] \notin Applied /\ Then(p, <<x>>)
      BY <2>1, <2>2, InSteps DEF Applied
    <2>4. Place(p) = "arm"
      BY <1>0, <1>5, PlaceAt DEF Arm
    <2> QED BY <1>0, <1>2, <2>1, <2>3, <2>4, KeepsOne DEF Early, Builds
  <1>6. CASE Store(p)
    <2>1. Place(p) = "store" /\ todo[p] # <<>> /\ Then(p, <<>>)
      BY <1>0, <1>6, PlaceAt DEF Store
    <2> QED BY <1>0, <1>2, <2>1, KeepsDone DEF Early, Builds
  <1> QED BY <1>3, <1>4, <1>5, <1>6 DEF Timing

(* A step of a task *)
LEMMA TaskingOptions ==
    ASSUME Base, Options, snapshot # Nil, NEW p \in DOMAIN todo, Tasking(p)
    PROVE  Options'
  <1>0. Planned /\ TypeOK /\ UNCHANGED <<snapshot, taken, pending, count, acked>>
    BY Alone DEF Base, Shape
  <1>1. p \notin Thread /\ (Others(p) \/ Leaves(p))
    BY <1>0, TaskGoes DEF Tasking, Goes
  <1>2. ASSUME NEW q \in Thread
        PROVE  Steady(q)
    <2>1. q # p /\ q \in DOMAIN todo
      BY <1>0, <1>1 DEF Planned
    <2>2. q \in DOMAIN todo' /\ todo'[q] = todo[q] /\ (Place(q))' = Place(q)
      BY <1>1, <2>1 DEF Others, Leaves
    <2> QED BY <2>2, KeepsSame DEF Steady
  <1> QED BY <1>0, <1>2, OptionsStay

(* What fails *)
LEMMA KeepsFailing ==
    ASSUME Planned, NEW p \in DOMAIN todo, todo[p] # <<>>, todo[p][1][1] = "build", NEW r, r[1] = "restore",
           Failing(p, <<r>>)
    PROVE  Keeps(todo[p], todo'[p])
  <1>1. PICK y, z : y = Failed(todo[p]) /\ z = todo'[p]
    OBVIOUS
  <1>2. /\ Len(todo[p]) \in {1, 2}
        /\ todo' = [todo EXCEPT ![p] = <<r>> \o (IF Len(todo[p]) = 1 THEN <<>> ELSE <<y>>)]
        /\ Len(todo[p]) = 2 => todo[p][2][1] \in {"settle", "finish"} /\ todo[p][2] \in Steps
    BY <1>1, FailingRest DEF Update_
  <1>3. CASE Len(todo[p]) = 1
    <2>1. z = <<r>> \o <<>>
      BY <1>1, <1>2, <1>3 DEF Planned
    <2>2. Len(z) = 1 /\ z[1] = r
      BY <2>1
    <2>3. \A i \in 1 .. Len(z) : z[i][1] \notin Applied
      BY <2>2 DEF Applied
    <2> QED BY <1>1, <2>3, KeepsNone
  <1>4. CASE Len(todo[p]) = 2
    <2>1. z = <<r>> \o <<y>>
      BY <1>1, <1>2, <1>4 DEF Planned
    <2>2. Len(z) = 2 /\ z[1] = r /\ z[2] = y
      BY <2>1
    <2>3. ASSUME NEW x \in Steps, ChoiceOf(z, x)
          PROVE  /\ ChoiceOf(todo[p], todo[p][2]) /\ todo[p][2] \in Steps /\ todo[p][2][1] = "settle"
                 /\ todo[p][2][2] = x[2] /\ todo[p][2][3] = x[3]
      <3>1. PICK i \in 1 .. 2 : z[i] = x /\ x[1] \in Applied
        BY <2>2, <2>3 DEF ChoiceOf
      <3>2. i = 2
        BY <2>2, <3>1 DEF Applied
      <3>3. x = y
        BY <2>2, <3>1, <3>2
      <3>4. todo[p][2][1] = "settle"
        BY <1>1, <1>2, <1>4, <3>1, <3>3 DEF Failed, Applied
      <3>5. x = <<"rollback", todo[p][2][2], todo[p][2][3]>>
        BY <1>1, <3>3, <3>4 DEF Failed
      <3>6. x[2] = todo[p][2][2] /\ x[3] = todo[p][2][3]
        BY <3>5
      <3>7. 2 \in 1 .. Len(todo[p])
        BY <1>4
      <3>8. ChoiceOf(todo[p], todo[p][2])
        BY <3>4, <3>7 DEF ChoiceOf, Applied
      <3> QED BY <1>2, <1>4, <3>4, <3>6, <3>8
    <2> QED BY <1>1, <2>3 DEF Keeps
  <1> QED BY <1>2, <1>3, <1>4

(* The steps of an update that move no options *)
LEMMA UpdatingStays ==
    ASSUME Base, Options, snapshot # Nil, NEW p \in DOMAIN todo,
           Look(p) \/ Announce(p) \/ \E outcome \in {"ok", "error", "panic"} : Build(p, outcome)
    PROVE  Options'
  <1>0. Planned /\ TypeOK /\ Locks /\ UNCHANGED <<snapshot, taken, pending, count, acked>>
    BY DEF Base, Shape, Look, Announce, Build, work, history
  <1>1. ASSUME Others(p), p \in Thread => Steady(p)
        PROVE  Options'
    <2>1. \A q \in Thread : Steady(q)
      BY <1>0, <1>1, OthersSteady
    <2> QED BY <1>0, <2>1, OptionsStay
  <1>2. CASE Look(p)
    <2>1. Others(p)
      BY <1>0, <1>2, LookGoes DEF Goes
    <2>2. ASSUME p \in Thread
          PROVE  Steady(p)
      <3>1. /\ Place(p) = "look" /\ update = Nil /\ Goes(p, {"begin"}) /\ Then(p, Begin(todo[p][1][2]))
            /\ todo[p][1][2] = Nil
        BY <1>0, <1>2, <2>2, LookGoes
      <3>2. taken = Nil
        <4>1. Nil \notin DOMAIN todo
          BY <1>0, SessionAssumption DEF Planned
        <4> QED BY <1>0, <3>1, <4>1 DEF Locks
      <3>3. PICK x, y, n : x = <<"cancel", "update">> /\ y = <<"take", Nil>> /\ n = <<x, y>>
        OBVIOUS
      <3>4. x \in Steps /\ y \in Steps /\ x[1] \notin Applied /\ y[1] \notin Applied
        BY <3>3, InSteps DEF Applied, Timed, Kind
      <3>5. n \in Seq(Steps) /\ Len(n) = 2 /\ n[1] = x /\ n[2] = y
        BY <3>3, <3>4
      <3>6. \A i \in 1 .. 2 : i = 1 \/ i = 2
        OBVIOUS
      <3>7. Then(p, n) /\ todo[p] # <<>>
        BY <1>2, <3>1, <3>3 DEF Begin, Look, At
      <3>8. Keeps(todo[p], todo'[p])
        BY <1>0, <3>4, <3>5, <3>6, <3>7, KeepsThen
      <3> QED BY <2>1, <3>1, <3>2, <3>8 DEF Steady, Early, Goes, Others
    <2> QED BY <1>1, <2>1, <2>2
  <1>3. CASE Announce(p)
    <2>1. Place(p) = "announce" /\ todo[p] # <<>> /\ Then(p, <<>>)
      BY <1>0, <1>3, PlaceAt DEF Announce
    <2>2. Others(p)
      BY <1>0, <1>3, UpdatingMoves DEF UpdatingStep
    <2>3. Steady(p)
      BY <1>0, <2>1, <2>2, KeepsDone DEF Steady, Early, Builds, Others
    <2> QED BY <1>1, <2>2, <2>3
  <1>4. ASSUME NEW outcome \in {"ok", "error", "panic"}, Build(p, outcome)
        PROVE  Options'
    <2>1. Place(p) = "build" /\ Goes(p, {"publish", "restore"})
      BY <1>0, <1>4, BuildGoes
    <2>2. todo[p] # <<>> /\ todo[p][1][1] = "build"
      BY <1>0, <1>4, PlaceAt DEF Build
    <2>3. Keeps(todo[p], todo'[p])
      <3>1. CASE outcome = "ok"
        <4>1. PICK x : x = <<"publish">>
          OBVIOUS
        <4>2. x \in Steps /\ x[1] \notin Applied /\ Then(p, <<x>>)
          BY <1>4, <3>1, <4>1, InSteps DEF Bare, Build, Applied
        <4> QED BY <1>0, <2>2, <4>2, KeepsOne
      <3>2. CASE outcome = "error"
        <4>1. PICK r : r = <<"restore">>
          OBVIOUS
        <4>2. Failing(p, <<r>>) /\ r[1] = "restore"
          BY <1>4, <3>2, <4>1 DEF Build
        <4> QED BY <1>0, <2>2, <4>2, KeepsFailing
      <3>3. CASE outcome = "panic"
        <4>1. PICK r, y, z : r = <<"restore">> /\ y = <<"finish", TRUE>> /\ z = todo'[p]
          OBVIOUS
        <4>2. r[1] \notin Applied /\ y[1] \notin Applied
          BY <4>1 DEF Applied
        <4>3. z = <<r>> \o <<y>> \/ z = <<r>> \o <<>>
          BY <1>0, <1>4, <3>3, <4>1 DEF Build, Planned
        <4>4. z[1] = r /\ (Len(z) = 1 \/ (Len(z) = 2 /\ z[2] = y))
          <5>1. CASE z = <<r>> \o <<y>>
            <6>1. z = <<r, y>>
              BY <5>1, Join
            <6> QED BY <6>1
          <5>2. CASE z = <<r>> \o <<>>
            <6>1. <<r>> \o <<>> = <<r>>
              OBVIOUS
            <6>2. z = <<r>>
              BY <5>2, <6>1
            <6> QED BY <6>2
          <5> QED BY <4>3, <5>1, <5>2
        <4>5. \A i \in 1 .. Len(z) : z[i][1] \notin Applied
          <5>1. (\A i \in 1 .. 2 : i = 1 \/ i = 2) /\ (\A i \in 1 .. 1 : i = 1)
            OBVIOUS
          <5> QED BY <4>2, <4>4, <5>1
        <4> QED BY <4>1, <4>5, KeepsNone
      <3> QED BY <3>1, <3>2, <3>3
    <2>4. Steady(p)
      BY <2>1, <2>3 DEF Steady, Early, Builds, Goes, Others
    <2> QED BY <1>1, <2>1, <2>4 DEF Goes
  <1> QED BY <1>2, <1>3, <1>4

(* A step that moves options *)
LEMMA OptionsMove ==
    ASSUME Options, snapshot # Nil, UNCHANGED acked, count'.options = count.options,
           Known(pending'.inferred), Known(snapshot'.inferred), taken' # Nil => Known(taken'.inferred),
           \A q \in Thread : Keeps(todo[q], todo'[q]),
           \A q \in Thread : \A y \in Steps :
              ChoiceOf(todo[q], y) /\ y[1] = "settle" /\ Underway(q, y[2]) => (Underway(q, y[2]))'
    PROVE  Options'
  <1>1. ASSUME NEW q \in Thread, NEW x \in Steps, ChoiceOf(todo'[q], x)
        PROVE  (Chosen(q, x))'
    <2>1. PICK y \in Steps : ChoiceOf(todo[q], y) /\ y[2] = x[2] /\ y[3] = x[3] /\ (x[1] = "settle" => y[1] = "settle")
      BY <1>1 DEF Keeps
    <2>2. Chosen(q, y)
      BY <2>1 DEF Options, Choices
    <2>3. x[1] = "settle" => (Underway(q, y[2]))'
      BY <2>1, <2>2 DEF Chosen
    <2>4. x[1] = "settle" => (Underway(q, x[2]))'
      BY <2>1, <2>3 DEF Underway
    <2>5. (Known(x[3]))' /\ x[2] = count'.options
      BY <2>1, <2>2 DEF Chosen, Known
    <2> QED BY <2>4, <2>5 DEF Chosen
  <1>2. Choices'
    BY <1>1 DEF Choices, ChoiceOf
  <1>3. (Known(pending.inferred))' /\ (Known(snapshot.inferred))' /\ (taken' # Nil => (Known(taken.inferred))')
    BY DEF Known
  <1> QED BY <1>2, <1>3 DEF Options

(* What the lock says of the update under way and of the others *)
LEMMA UpdateAlone ==
    ASSUME Base, NEW p \in DOMAIN todo, Place(p) \in Holds
    PROVE  /\ \A q \in Thread : q # p => Place(q) \notin Holds
           /\ Place(p) \in Builds <=> taken # Nil
  <1>1. Locks /\ Planned
    BY DEF Base, Shape
  <1>2. update = p
    BY <1>1 DEF Locks
  <1>3. \A q \in Thread : q # p => Place(q) \notin Holds
    BY <1>1, <1>2 DEF Locks, Planned
  <1>4. Place(p) \in Builds <=> taken # Nil
    BY <1>1, <1>2 DEF Locks
  <1> QED BY <1>3, <1>4

(* An update takes the options with it.                                    *)
LEMMA TakeOptions ==
    ASSUME Base, Options, snapshot # Nil, NEW p \in DOMAIN todo, NEW need \in BOOLEAN, Take(p, need)
    PROVE  Options'
  <1>0. Planned /\ TypeOK /\ UNCHANGED <<snapshot, count, acked>>
    BY DEF Base, Shape, Take, history
  <1>1. Place(p) = "take" /\ todo[p] # <<>>
    BY <1>0, PlaceAt DEF Take
  <1>2. taken = Nil /\ \A q \in Thread : q # p => Place(q) \notin Holds
    BY <1>1, UpdateAlone DEF Holds, Builds
  <1>3. Empty.inferred = Nil /\ pending # Nil
    BY <1>0, SessionAssumption DEF Empty, TypeOK
  <1>k. Known(pending.inferred) /\ Known(snapshot.inferred) /\ Known(Nil)
    BY DEF Options, Known
  <1>o. ASSUME NEW q \in Thread, NEW y \in Steps, ChoiceOf(todo[q], y)
        PROVE  y[2] \in Nat /\ y[2] # Nil
    BY <1>0, <1>o, ChoiceOwner, SessionAssumption DEF Planned
  <1>4. CASE UNCHANGED work /\ Goes(p, {"idle", "settle", "finish"}) /\ pending = Empty /\ Then(p, <<>>)
    <2>1. ASSUME NEW q \in Thread PROVE Keeps(todo[q], todo'[q])
      BY <1>0, <1>1, <1>4, KeepsDone, OthersSteady DEF Goes, Steady
    <2>2. ASSUME NEW q \in Thread, NEW y \in Steps, ChoiceOf(todo[q], y), Underway(q, y[2])
          PROVE  (Underway(q, y[2]))'
      <3>1. y[2] # Nil
        BY <1>o, <2>2
      <3>2. snapshot.inferred = y[2]
        BY <1>2, <1>3, <1>4, <2>2, <3>1 DEF Underway
      <3> QED BY <1>0, <1>2, <1>3, <1>4, <3>2 DEF Underway, work
    <2>3. UNCHANGED <<pending, taken>>
      BY <1>4 DEF work
    <2> QED BY <1>0, <1>2, <1>k, <2>1, <2>2, <2>3, OptionsMove
  <1>5. CASE taken' = pending /\ pending' = Empty /\ Goes(p, {"build"}) /\ Then(p, << <<"build">> >>)
    <2>1. ASSUME NEW q \in Thread PROVE Keeps(todo[q], todo'[q])
      <3>1. PICK x : x = <<"build">>
        OBVIOUS
      <3>2. x \in Steps /\ x[1] \notin Applied /\ Then(p, <<x>>)
        BY <1>5, <3>1, InSteps DEF Bare, Applied
      <3>3. Keeps(todo[p], todo'[p])
        BY <1>0, <1>1, <3>2, KeepsOne
      <3> QED BY <1>0, <1>5, <3>3, OthersSteady DEF Goes, Steady
    <2>2. ASSUME NEW q \in Thread, NEW y \in Steps, ChoiceOf(todo[q], y), Underway(q, y[2])
          PROVE  (Underway(q, y[2]))'
      <3>1. CASE pending.inferred = y[2] /\ Place(q) \in Early
        <4>1. (Place(q))' \in Builds \cup {"look"}
          <5>1. CASE q = p
            BY <1>5, <5>1 DEF Goes, Builds
          <5>2. CASE q # p
            <6>1. Place(q) = "look"
              BY <1>2, <3>1, <5>2 DEF Early, Holds
            <6>2. q \in DOMAIN todo /\ (Place(q))' = Place(q)
              BY <1>0, <1>5, <5>2 DEF Goes, Others, Planned
            <6> QED BY <6>1, <6>2
          <5> QED BY <5>1, <5>2
        <4> QED BY <1>3, <1>5, <3>1, <4>1 DEF Underway
      <3>2. CASE pending.inferred = Nil /\ snapshot.inferred = y[2]
        BY <1>0, <1>3, <1>5, <3>2 DEF Underway
      <3> QED BY <1>2, <2>2, <3>1, <3>2 DEF Underway
    <2> QED BY <1>0, <1>3, <1>5, <1>k, <2>1, <2>2, OptionsMove
  <1> QED BY <1>0, <1>4, <1>5, TakeGoes

(* An update publishes the options it took.                                *)
LEMMA PublishOptions ==
    ASSUME Base, Options, snapshot # Nil, NEW p \in DOMAIN todo, Publish(p)
    PROVE  Options'
  <1>0. Planned /\ TypeOK /\ UNCHANGED <<pending, count, acked>> /\ taken' = Nil
    BY DEF Base, Shape, Publish
  <1>1. Place(p) = "publish" /\ todo[p] # <<>> /\ Goes(p, {"announce"})
    BY <1>0, PlaceAt, PublishGoes DEF Publish
  <1>2. taken # Nil
    BY <1>1, UpdateAlone DEF Holds, Builds
  <1>3. snapshot'.inferred = IF taken.inferred = Nil THEN snapshot.inferred ELSE taken.inferred
    BY DEF Publish
  <1>k. Known(pending.inferred) /\ Known(snapshot.inferred) /\ Known(taken.inferred)
    BY <1>2 DEF Options
  <1>4. ASSUME NEW q \in Thread PROVE Keeps(todo[q], todo'[q])
    <2>1. PICK x : x = <<"announce">>
      OBVIOUS
    <2>2. x \in Steps /\ x[1] \notin Applied /\ Then(p, <<x>>)
      BY <2>1, InSteps DEF Bare, Applied, Publish
    <2>3. Keeps(todo[p], todo'[p])
      BY <1>0, <1>1, <2>2, KeepsOne
    <2> QED BY <1>0, <1>1, <2>3, OthersSteady DEF Goes, Steady
  <1>5. ASSUME NEW q \in Thread, NEW y \in Steps, ChoiceOf(todo[q], y), Underway(q, y[2])
        PROVE  (Underway(q, y[2]))'
    <2>0. y[2] # Nil
      BY <1>0, <1>5, ChoiceOwner, SessionAssumption DEF Planned
    <2>1. CASE pending.inferred = y[2] /\ Place(q) \in Early
      <3>1. q # p
        BY <1>1, <2>1 DEF Early
      <3>2. (Place(q))' = Place(q)
        BY <1>0, <1>1, <3>1 DEF Goes, Others, Planned
      <3> QED BY <1>0, <2>1, <3>2 DEF Underway
    <2>2. CASE pending.inferred = Nil /\ taken.inferred = y[2]
      BY <1>0, <1>3, <2>0, <2>2 DEF Underway
    <2>3. CASE pending.inferred = Nil /\ taken.inferred = Nil /\ snapshot.inferred = y[2]
      BY <1>0, <1>3, <2>3 DEF Underway
    <2> QED BY <1>2, <1>5, <2>1, <2>2, <2>3 DEF Underway
  <1>6. Known(snapshot'.inferred)
    BY <1>3, <1>k
  <1> QED BY <1>0, <1>4, <1>5, <1>6, <1>k, OptionsMove

(* A failed build gives back the options it took.                          *)
LEMMA RestoreOptions ==
    ASSUME Base, Options, snapshot # Nil, NEW p \in DOMAIN todo, Restore(p)
    PROVE  Options'
  <1>0. Planned /\ TypeOK /\ UNCHANGED <<snapshot, count, acked>> /\ taken' = Nil
    BY DEF Base, Shape, Restore
  <1>1. Place(p) = "restore" /\ todo[p] # <<>> /\ todo[p][1][1] = "restore" /\ Then(p, <<>>) /\ Others(p)
    BY <1>0, PlaceAt, UpdatingMoves DEF Restore, UpdatingStep
  <1>2. taken # Nil /\ \A q \in Thread : q # p => Place(q) \notin Holds
    BY <1>1, UpdateAlone DEF Holds, Builds
  <1>3. pending'.inferred = IF pending.inferred = Nil THEN taken.inferred ELSE pending.inferred
    BY DEF Restore, Merged
  <1>k. Known(pending.inferred) /\ Known(snapshot.inferred) /\ Known(taken.inferred)
    BY <1>2 DEF Options
  <1>4. ASSUME NEW q \in Thread PROVE Keeps(todo[q], todo'[q])
    BY <1>0, <1>1, KeepsDone, OthersSteady DEF Steady
  <1>5. ASSUME NEW y \in Steps, ChoiceOf(todo[p], y)
        PROVE  y[1] # "settle"
    <2>1. todo[p] \in Seq(Steps) /\ Plan(p, todo[p])
      BY <1>0 DEF Planned
    <2>2. /\ Len(todo[p]) \in Nat /\ Len(todo[p]) >= 1 /\ Len(todo[p]) <= 2
          /\ Len(todo[p]) > 1 => Follows(todo[p][1], todo[p][2])
      BY <1>1, <2>1, Ends
    <2>3. PICK i \in 1 .. Len(todo[p]) : todo[p][i] = y
      BY <1>5 DEF ChoiceOf
    <2>4. i = 1 \/ (i = 2 /\ Len(todo[p]) > 1)
      BY <2>2, <2>3
    <2> QED BY <1>1, <2>2, <2>3, <2>4 DEF Follows, Update_
  <1>6. ASSUME NEW q \in Thread, NEW y \in Steps, ChoiceOf(todo[q], y), y[1] = "settle", Underway(q, y[2])
        PROVE  (Underway(q, y[2]))'
    <2>0. y[2] # Nil /\ q # p
      BY <1>0, <1>5, <1>6, ChoiceOwner, SessionAssumption DEF Planned
    <2>1. (Place(q))' = Place(q)
      BY <1>0, <1>1, <2>0 DEF Others, Planned
    <2>2. CASE pending.inferred = y[2] /\ Place(q) \in Early
      BY <1>3, <2>0, <2>1, <2>2 DEF Underway
    <2>3. CASE pending.inferred = Nil /\ taken.inferred = y[2] /\ Place(q) \in Builds \cup {"look"}
      <3>1. Place(q) = "look"
        BY <1>2, <2>0, <2>3 DEF Holds
      <3> QED BY <1>3, <2>1, <2>3, <3>1 DEF Underway, Early
    <2>4. CASE pending.inferred = Nil /\ taken.inferred = Nil /\ snapshot.inferred = y[2]
      BY <1>0, <1>3, <2>4 DEF Underway
    <2> QED BY <1>2, <1>6, <2>2, <2>3, <2>4 DEF Underway
  <1>7. Known(pending'.inferred)
    BY <1>3, <1>k
  <1> QED BY <1>0, <1>4, <1>6, <1>7, <1>k, OptionsMove

(* No step loses the options of a call, or brings back older ones than those
   that were acknowledged. *)
LEMMA OptionsStep ==
    ASSUME Base, Closes, Options, [Next]_vars
    PROVE  Options'
  <1>0. Planned /\ TypeOK
    BY DEF Base, Shape
  <1>1. CASE snapshot' = Nil
    BY <1>1 DEF Options
  <1>2. CASE snapshot' # Nil
    <2>0. snapshot # Nil
      BY <1>2, SnapshotGone
    <2>1. ASSUME NEW p \in DOMAIN todo, UpdatingStep(p)
          PROVE  Options'
      BY <2>0, <2>1, UpdatingStays, TakeOptions, PublishOptions, RestoreOptions DEF UpdatingStep
    <2>2. ASSUME NEW p \in DOMAIN todo, ClosingStep(p)
          PROVE  Options'
      <3>1. Place(p) \notin PastShut /\ Others(p)
        BY <1>0, <2>0, <2>2, ClosingMoves DEF Closes
      <3>2. Lock(p)
        <4>1. \A op \in {"clear", "stop", "unlock", "wait", "closed"} : ~At(p, op)
          BY <1>0, <3>1, PlaceAt DEF PastShut, PastClear, PastStop, PastUpdate, PastIdle, PastRefresh
        <4>2. ~Shut(p)
          BY <1>2 DEF Shut
        <4> QED BY <2>2, <4>1, <4>2 DEF ClosingStep, Clear, Stop, Unlock, Wait, Closed
      <3>3. Place(p) = "lock" /\ todo[p] # <<>> /\ Then(p, <<>>) /\ UNCHANGED <<snapshot, taken, pending, count, acked>>
        BY <1>0, <3>2, PlaceAt DEF Lock, work, history
      <3>4. Steady(p)
        BY <1>0, <3>1, <3>3, KeepsDone DEF Steady, Early, Builds, Others
      <3>5. \A q \in Thread : Steady(q)
        BY <1>0, <3>1, <3>4, OthersSteady
      <3> QED BY <2>0, <3>3, <3>5, OptionsStay
    <2>3. ASSUME NEW p \in Thread, NEW op \in Calls, NEW f \in File, Call(p, op, f)
          PROVE  Options'
      <3>1. Place(p) = "idle" /\ Others(p) /\ p \in DOMAIN todo /\ todo'[p] = Program(op, f)
        BY <1>0, <2>3, CallGoes DEF Goes
      <3>2. PICK z : z = Program(op, f)
        OBVIOUS
      <3>3. \A i \in 1 .. Len(z) : z[i][1] \notin Applied
        BY <2>3, <3>2, ProgramPlan DEF Call
      <3>4. Keeps(todo[p], todo'[p])
        BY <3>1, <3>2, <3>3, KeepsNone
      <3>5. Steady(p)
        BY <3>1, <3>4 DEF Steady, Early, Builds, Others
      <3>6. \A q \in Thread : Steady(q)
        BY <1>0, <3>1, <3>5, OthersSteady
      <3>7. UNCHANGED <<snapshot, taken, pending, acked>> /\ count'.options = count.options
        BY <1>0, <2>3 DEF Call, work, history, TypeOK
      <3> QED BY <2>0, <3>6, <3>7, OptionsStay
    <2>4. ASSUME NEW t \in armed, Fire(t)
          PROVE  Options'
      <3>1. t \notin Thread /\ Enters(t)
        BY <1>0, <2>4, FireEnters, SessionAssumption DEF TypeOK
      <3>2. ASSUME NEW q \in Thread PROVE Steady(q)
        <4>1. q # t /\ q \in DOMAIN todo
          BY <1>0, <3>1 DEF Planned
        <4>2. q \in DOMAIN todo' /\ todo'[q] = todo[q] /\ (Place(q))' = Place(q)
          BY <3>1, <4>1 DEF Enters
        <4> QED BY <4>2, KeepsSame DEF Steady
      <3>3. UNCHANGED <<snapshot, taken, pending, acked>> /\ count'.options = count.options
        BY <1>0, <2>4 DEF Fire, work, history, TypeOK
      <3> QED BY <2>0, <3>2, <3>3, OptionsStay
    <2>5. CASE UNCHANGED vars
      <3>1. UNCHANGED <<snapshot, taken, pending, acked, count, todo>>
        BY <2>5 DEF vars, work, history
      <3>2. ASSUME NEW q \in Thread PROVE Steady(q)
        <4>1. q \in DOMAIN todo' /\ todo'[q] = todo[q] /\ (Place(q))' = Place(q)
          BY <1>0, <3>1, PlacePrimed DEF Planned, Place
        <4> QED BY <4>1, KeepsSame DEF Steady
      <3> QED BY <2>0, <3>1, <3>2, OptionsStay
    <2>6. ASSUME NEW p \in DOMAIN todo, Notifying(p) \/ Timing(p) \/ Tasking(p)
          PROVE  Options'
      BY <2>0, <2>6, NotifyingOptions, TimingOptions, TaskingOptions
    <2> QED BY <2>1, <2>2, <2>3, <2>4, <2>5, <2>6 DEF Next, Rest, Calls
  <1> QED BY <1>1, <1>2

(* There are no options at first.                                          *)
LEMMA OptionsInit == Init => Options
  <1> SUFFICES ASSUME Init PROVE Options
    OBVIOUS
  <1>1. Known(pending.inferred) /\ Known(snapshot.inferred) /\ taken = Nil
    BY DEF Init, Empty, Known
  <1>2. Len(<<>>) = 0
    OBVIOUS
  <1>3. Choices
    BY <1>2 DEF Init, Choices, ChoiceOf
  <1> QED BY <1>1, <1>3 DEF Options

(* What was admitted arrives: every change once and in the order of admission,
   and every option before its call is acknowledged, whatever updates of others
   took them first and whichever of these failed or panicked
   (Session::update_snapshot, PendingTransaction::drop,
   Session::apply_inferred_options). *)
THEOREM NothingForgottenHolds == Spec => []NothingForgotten
  <1>1. Init => Options
    BY OptionsInit
  <1>2. Base /\ Ended /\ Options /\ [Next]_vars => Options'
    BY OptionsStep DEF Ended
  <1>3. Base /\ Options => OptionsAcknowledged
    <2> SUFFICES ASSUME Base, Options, NEW o \in acked, snapshot # Nil
                 PROVE  snapshot.inferred >= o
      BY DEF OptionsAcknowledged
    <2>1. TypeOK
      BY DEF Base, Shape
    <2>2. snapshot.inferred \in Nat /\ snapshot.inferred # Nil /\ o \in Nat
      BY <2>1, PendingParts, SessionAssumption DEF TypeOK
    <2>3. o <= snapshot.inferred
      BY <2>2 DEF Options, Known
    <2> QED BY <2>2, <2>3
  <1> QED BY <1>1, <1>2, <1>3, BaseHolds, EndedHolds, NothingLostHolds, PTL DEF Spec, NothingForgotten
=============================================================================
