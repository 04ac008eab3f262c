----------------------------- MODULE AtaJobsProofs -----------------------------
(***************************************************************************)
(* Automatic type acquisition, for any number of projects, inputs, updates *)
(* and jobs: accepted results belong to the present inputs, the inputs of  *)
(* every published project are attended to, and nothing survives close.    *)
(***************************************************************************)
EXTENDS AtaJobs, TLAPS

(* The update lock is held for a publication, or by close after its        *)
(* cancellations; after that no publication comes and nothing is pending.  *)
Locked ==
  /\ stage # Nil <=> lock = "update"
  /\ ~Open => lock # "update" /\ pend = [p \in Project |-> Nil]
  /\ closer \in {"returned", "unwound"} => running = {}

(* A job that will be received has its files.                              *)
Carries == \A j \in running : j.step = "receive" => j.files \in Files

Attended(p) ==
  \/ info[p] = Off \/ installed[p] = info[p] \/ pend[p] # Nil
  \/ \E j \in running : j.project = p /\ j.info = info[p]
  \/ <<p, info[p]>> \in over
Excused == disabled \/ flush \/ closed \/ ctx \/ ~Open

(* Outside of a publication every project is attended to; inside, those    *)
(* that trigger has looked at.                                             *)
Looked ==
  /\ lock = Nil => Excused \/ \A p \in Project : Attended(p)
  /\ stage = "trigger" => Excused \/ \A p \in Project \ todo : Attended(p)

IInv == TypeOK /\ Carries /\ PendingIsCurrent /\ Locked /\ Looked

-------------------------------------------------------------------------------
(* A new session has no job. *)
LEMMA Initially == Init => IInv
<1> SUFFICES ASSUME Init PROVE IInv
  OBVIOUS
<1>1. TypeOK
  BY Constants DEF Init, TypeOK
<1>2. Carries /\ PendingIsCurrent
  BY DEF Init, Carries, PendingIsCurrent
<1>3. Locked
  BY NilIsNothing DEF Init, Locked, Open
<1>4. Looked
  BY NilIsNothing DEF Init, Looked, Attended
<1> QED
  BY <1>1, <1>2, <1>3, <1>4 DEF IInv

(* A publication leaves what is not looked at yet to trigger_ata. *)
LEMMA PublishStep ==
  ASSUME IInv, NEW new \in [Project -> Info], NEW nf \in SUBSET Project, Publish(new, nf)
  PROVE  IInv'
<1>1. TypeOK'
  <2>1. /\ info' = new
        /\ installed' = [p \in Project |-> IF Adopts(p) THEN pend[p].info ELSE installed[p]]
        /\ files' = [p \in Project |-> IF Adopts(p) THEN pend[p].files ELSE files[p]]
        /\ pend' = [p \in Project |-> Nil] /\ flush' = FALSE
        /\ lock' = "update" /\ stage' = "published" /\ again' = nf
        /\ UNCHANGED <<running, next, control, todo, closer>>
    BY DEF Publish
  <2>2. ASSUME NEW p \in Project, Adopts(p)
        PROVE  pend[p].info \in Info /\ pend[p].files \in Files
    BY <2>2 DEF Adopts, IInv, TypeOK, Change
  <2>3. installed' \in [Project -> Info \cup {Nil}]
    BY <2>1, <2>2 DEF IInv, TypeOK
  <2>4. files' \in [Project -> Files \cup {Nil}]
    BY <2>1, <2>2 DEF IInv, TypeOK
  <2> QED
    BY <2>1, <2>3, <2>4 DEF IInv, TypeOK, control
<1>2. Carries' /\ PendingIsCurrent'
  BY DEF Publish, IInv, Carries, PendingIsCurrent
<1>3. Locked'
  BY NilIsNothing DEF Publish, IInv, Locked, Open
<1>4. Looked'
  BY NilIsNothing DEF Publish, Looked
<1> QED
  BY <1>1, <1>2, <1>3, <1>4 DEF IInv

(* An update that fails publishes nothing. *)
LEMMA FailUpdateStep ==
  ASSUME IInv, FailUpdate \/ UNCHANGED vars
  PROVE  IInv'
<1>1. UNCHANGED <<session, pend, flush, running, next, control, lock, stage,
                  todo, again, closer, over>>
  BY DEF FailUpdate, vars
<1>2. TypeOK'
  BY <1>1 DEF IInv, TypeOK, session, control
<1>3. Carries' /\ PendingIsCurrent' /\ Locked'
  BY <1>1 DEF IInv, Carries, PendingIsCurrent, Locked, Open, session
<1>4. Looked'
  BY <1>1 DEF IInv, Looked, Excused, Attended, Open, session, control
<1> QED
  BY <1>2, <1>3, <1>4 DEF IInv

(* trigger_ata returns at once when acquisition is disabled. *)
LEMMA GlanceStep ==
  ASSUME IInv, Glance
  PROVE  IInv'
<1>1. /\ lock = "update" /\ UNCHANGED <<session, pend, flush, running, next, control, again, closer, over>>
      /\ \/ disabled /\ lock' = Nil /\ stage' = Nil /\ todo' = todo
         \/ lock' = lock /\ stage' = "trigger" /\ todo' = Project
  BY DEF Glance, Unlock
<1>2. TypeOK'
  BY <1>1 DEF IInv, TypeOK, session, control
<1>3. Carries' /\ PendingIsCurrent'
  BY <1>1 DEF IInv, Carries, PendingIsCurrent, session
<1>4. Locked'
  BY <1>1, NilIsNothing DEF IInv, Locked, Open
<1>5. Looked'
  BY <1>1, NilIsNothing DEF IInv, Looked, Excused, control
<1> QED
  BY <1>2, <1>3, <1>4, <1>5 DEF IInv

(* trigger_ata looks at one project. *)
LEMMA TriggerStep ==
  ASSUME IInv, NEW p \in Project, Trigger(p)
  PROVE  IInv'
<1>1. /\ stage = "trigger" /\ p \in todo
      /\ UNCHANGED <<session, pend, flush, control, again, closer>>
  BY DEF Trigger
<1>2. lock = "update" /\ Open
  BY <1>1, NilIsNothing DEF IInv, Locked
<1>3. \/ lock' = Nil /\ stage' = Nil
      \/ lock' = lock /\ stage' = stage
  BY DEF Trigger, Skip, Unlock
<1>4. running' = running \/ running' = running \cup {Begun(p)}
  BY DEF Trigger
<1>5. next' \in Nat /\ todo' \subseteq todo
  BY DEF Trigger, Skip, IInv, TypeOK
<1>6. Begun(p) \in Job /\ Begun(p).step = "install"
      /\ Begun(p).project = p /\ Begun(p).info = info[p]
  BY DEF Begun, Job, IInv, TypeOK
<1>7. TypeOK'
  BY <1>1, <1>3, <1>4, <1>5, <1>6 DEF IInv, TypeOK, session, control
<1>8. Carries' /\ PendingIsCurrent'
  BY <1>1, <1>4, <1>6 DEF IInv, Carries, PendingIsCurrent, session
<1>9. Locked'
  BY <1>1, <1>2, <1>3, NilIsNothing DEF IInv, Locked, Open
<1>10. over \subseteq over' /\ running \subseteq running'
  BY DEF Trigger
<1>11. Excused' <=> Excused
  BY <1>1 DEF Excused, Open, control
<1>12. \A q \in Project : Attended(q) => Attended(q)'
  BY <1>1, <1>10 DEF Attended, session
<1>13. Excused \/ Attended(p)'
  <2>1. CASE ~Due(p)
    BY <2>1, <1>1, <1>12 DEF Due, Trigger, Attended, session
  <2>2. CASE Due(p) /\ ~MayStart
    BY <2>2 DEF MayStart, Excused
  <2>3. CASE Due(p) /\ MayStart /\ \E j \in running : Same(j, p)
    BY <2>3, <1>1, <1>10 DEF Same, Attended, session
  <2>4. CASE Due(p) /\ MayStart /\ ~\E j \in running : Same(j, p)
    <3>1. running' = running \cup {Begun(p)} \/ over' = over \cup {<<p, info[p]>>}
      BY <2>4 DEF Trigger
    <3> QED
      BY <3>1, <1>1, <1>6 DEF Attended, session
  <2> QED
    BY <2>1, <2>2, <2>3, <2>4
<1>14. Excused \/ /\ todo' = todo \ {p}
                  /\ lock' = Nil => todo = {p}
  BY <1>2, NilIsNothing DEF Trigger, Skip, Unlock, MayStart, Excused
<1>15. Looked'
  BY <1>1, <1>11, <1>12, <1>13, <1>14, NilIsNothing DEF IInv, Looked
<1> QED
  BY <1>7, <1>8, <1>9, <1>15 DEF IInv

-------------------------------------------------------------------------------
(* The steps of a job, which keep its project and its inputs.              *)
LEMMA Kept ==
  ASSUME TypeOK, NEW j \in running, NEW step \in {"install", "receive", "leave", "panic"},
         NEW f \in Files \cup {Nil}, To(j, step, f)
  PROVE  /\ running' \subseteq Job
         /\ running' # {}
         /\ \A k \in running' : k \in running \/ (k.step = step /\ k.files = f)
         /\ \A q, i : (\E k \in running : k.project = q /\ k.info = i)
                        => \E k \in running' : k.project = q /\ k.info = i
<1> DEFINE n == [j EXCEPT !.step = step, !.files = f]
<1>1. j \in Job
  BY DEF TypeOK
<1>2. n \in Job /\ n.project = j.project /\ n.info = j.info /\ n.step = step /\ n.files = f
  BY <1>1 DEF Job
<1>3. running' = (running \ {j}) \cup {n}
  BY DEF To
<1> HIDE DEF n
<1>4. \A q, i : (\E k \in running : k.project = q /\ k.info = i)
                  => \E k \in running' : k.project = q /\ k.info = i
  <2>1. ASSUME NEW q, NEW i, NEW k \in running, k.project = q, k.info = i
        PROVE  \E m \in running' : m.project = q /\ m.info = i
    BY <2>1, <1>2, <1>3
  <2> QED
    BY <2>1
<1>5. running' \subseteq Job
  BY <1>2, <1>3 DEF TypeOK
<1>6. running' # {} /\ \A k \in running' : k \in running \/ (k.step = step /\ k.files = f)
  BY <1>2, <1>3
<1> QED
  BY <1>4, <1>5, <1>6

(* A step of a job that leaves everything but the jobs and what is pending. *)
LEMMA JobStep ==
  ASSUME IInv, NEW j \in running, Installed(j) \/ Receive(j)
  PROVE  IInv'
<1>1. /\ UNCHANGED <<session, flush, next, control, stage, todo, again, closer, over>>
      /\ UNCHANGED lock
  BY DEF Installed, Receive
<1>2. PICK step \in {"install", "receive", "leave", "panic"}, f \in Files \cup {Nil} :
        To(j, step, f) /\ (step = "receive" => f \in Files)
  <2>1. CASE Installed(j)
    BY <2>1 DEF Installed
  <2>2. CASE Receive(j)
    BY <2>2 DEF Receive, IInv, Carries
  <2> QED
    BY <2>1, <2>2
<1>3. /\ running' \subseteq Job /\ running' # {}
      /\ \A k \in running' : k \in running \/ (k.step = step /\ k.files = f)
      /\ \A q, i : (\E k \in running : k.project = q /\ k.info = i)
                     => \E k \in running' : k.project = q /\ k.info = i
  BY <1>2, Kept DEF IInv
<1>4. \/ pend' = pend
      \/ /\ Open /\ info[j.project] = j.info /\ j.files \in Files
         /\ pend' = [pend EXCEPT ![j.project] = [info |-> j.info, files |-> j.files]]
  BY DEF Installed, Receive, Fits, IInv, Carries
<1>5. j.project \in Project /\ j.info \in Info
  BY DEF IInv, TypeOK, Job
<1>6. j.files \in Files => [info |-> j.info, files |-> j.files] \in Change
  BY <1>5 DEF Change
<1>7. pend' \in [Project -> {Nil} \cup Change]
  BY <1>4, <1>5, <1>6 DEF IInv, TypeOK
<1>8. TypeOK'
  BY <1>1, <1>3, <1>7 DEF IInv, TypeOK, session, control
<1>9. Carries'
  BY <1>2, <1>3 DEF IInv, Carries
<1>10. PendingIsCurrent'
  BY <1>1, <1>4, <1>5 DEF IInv, TypeOK, PendingIsCurrent, session
<1>11. Locked'
  BY <1>1, <1>4 DEF IInv, Locked, Open
<1>12. \A q \in Project : Attended(q) => Attended(q)'
  <2>1. \A q \in Project : pend[q] # Nil => pend'[q] # Nil
    BY <1>4, <1>5, <1>6, NilIsNothing DEF IInv, TypeOK, Change
  <2> QED
    BY <2>1, <1>1, <1>3 DEF Attended, session
<1>13. Looked'
  BY <1>1, <1>12 DEF IInv, Looked, Excused, Open, control
<1> QED
  BY <1>8, <1>9, <1>10, <1>11, <1>13 DEF IInv

(* A job leaves the table. *)
LEMMA LeaveStep ==
  ASSUME IInv, NEW j \in running, Leave(j)
  PROVE  IInv'
<1>1. /\ running' = running \ {j} /\ over' = over \cup {<<j.project, j.info>>}
      /\ (closed => closed')
      /\ UNCHANGED <<session, pend, flush, next, disabled, ctx, lock, stage, todo,
                     again, closer>>
  BY DEF Leave, IInv, TypeOK
<1>2. closed' \in BOOLEAN /\ panics' \in Nat
  BY DEF Leave, IInv, TypeOK
<1>3. TypeOK'
  BY <1>1, <1>2 DEF IInv, TypeOK, session
<1>4. Carries' /\ PendingIsCurrent' /\ Locked'
  BY <1>1 DEF IInv, Carries, PendingIsCurrent, Locked, Open, session
<1>5. \A q \in Project : Attended(q) => Attended(q)'
  BY <1>1 DEF Attended, session
<1>6. Looked'
  BY <1>1, <1>5 DEF IInv, Looked, Excused, Open
<1> QED
  BY <1>3, <1>4, <1>6 DEF IInv

(* Type acquisition is switched on or off. *)
LEMMA ToggleStep ==
  ASSUME IInv, Toggle
  PROVE  IInv'
<1>1. /\ flush' = TRUE /\ disabled' \in BOOLEAN
      /\ UNCHANGED <<session, pend, running, next, closed, panics, ctx, lock, stage,
                     todo, again, closer>>
  BY DEF Toggle
<1>2. TypeOK'
  BY <1>1 DEF IInv, TypeOK, session
<1>3. Carries' /\ PendingIsCurrent' /\ Locked'
  BY <1>1 DEF IInv, Carries, PendingIsCurrent, Locked, Open, session
<1>4. Looked'
  BY <1>1 DEF Looked, Excused
<1> QED
  BY <1>2, <1>3, <1>4 DEF IInv

(* Closing excuses what is not looked at. *)
LEMMA CloseStep ==
  ASSUME IInv, Close
  PROVE  IInv'
<1>1. /\ UNCHANGED <<session, running, next, disabled, stage, todo, again>>
      /\ panics' \in Nat
      /\ ctx \/ ctx' \/ closed' \/ ~Open'
      /\ closer' \in {"canceled", "shut", "locked", "waiting", "returned", "unwound"}
      /\ closed' \in BOOLEAN /\ ctx' \in BOOLEAN /\ flush' \in BOOLEAN
      /\ lock' \in {Nil, "update", "close"}
      /\ pend' = pend \/ pend' = [p \in Project |-> Nil]
  <2>1. CASE CloseWait
    BY <2>1 DEF CloseWait, CloseTo, Resumed, Open, IInv, TypeOK
  <2>2. CASE CloseCancel \/ CloseJobs \/ CloseSnapshot \/ CloseUnlock
    BY <2>2 DEF CloseCancel, CloseJobs, CloseSnapshot, CloseUnlock, CloseTo,
                Open, IInv, TypeOK, control
  <2> QED
    BY <2>1, <2>2 DEF Close
<1>2. TypeOK'
  BY <1>1 DEF IInv, TypeOK, session
<1>3. Carries' /\ PendingIsCurrent'
  BY <1>1 DEF IInv, Carries, PendingIsCurrent, session
<1>4. Locked'
  <2>1. CASE CloseCancel \/ CloseJobs
    BY <2>1, <1>1 DEF CloseCancel, CloseJobs, CloseTo, IInv, Locked, Open
  <2>2. CASE CloseSnapshot
    BY <2>2, <1>1, NilIsNothing DEF CloseSnapshot, CloseTo, IInv, Locked, Open
  <2>3. CASE CloseUnlock \/ CloseWait
    BY <2>3, <1>1, NilIsNothing DEF CloseUnlock, CloseWait, CloseTo, Resumed,
                         IInv, Locked, Open
  <2> QED
    BY <2>1, <2>2, <2>3 DEF Close
<1>5. Excused'
  BY DEF Close, CloseCancel, CloseJobs, CloseSnapshot, CloseUnlock, CloseWait, CloseTo,
         Open, Excused
<1>6. Looked'
  BY <1>5 DEF Looked
<1> QED
  BY <1>2, <1>3, <1>4, <1>6 DEF IInv

(* A wait of somebody else takes a panic and leaves the rest alone.        *)
LEMMA WaitStep ==
  ASSUME IInv, WaitTasks
  PROVE  IInv'
<1>1. /\ UNCHANGED <<session, pend, flush, running, next, closed, disabled, ctx, lock,
                      stage, todo, again, closer, over>>
      /\ panics' \in Nat
  BY DEF WaitTasks, Resumed, IInv, TypeOK
<1>2. TypeOK'
  BY <1>1 DEF IInv, TypeOK, session
<1>3. Carries' /\ PendingIsCurrent' /\ Locked'
  BY <1>1 DEF IInv, Carries, PendingIsCurrent, Locked, Open, session
<1>4. Looked'
  BY <1>1 DEF IInv, Looked, Excused, Attended, Open, session
<1> QED
  BY <1>2, <1>3, <1>4 DEF IInv

-------------------------------------------------------------------------------
(* The theorems.                                                           *)
LEMMA Inductive == IInv /\ [Next]_vars => IInv'
<1> SUFFICES ASSUME IInv, [Next]_vars PROVE IInv'
  OBVIOUS
<1>1. CASE Update
  BY <1>1, PublishStep, FailUpdateStep DEF Update
<1>2. CASE UnderLock
  BY <1>2, GlanceStep, TriggerStep DEF UnderLock
<1>3. CASE Work
  BY <1>3, JobStep, LeaveStep DEF Work
<1>4. CASE Toggle
  BY <1>4, ToggleStep
<1>5. CASE Close
  BY <1>5, CloseStep
<1>6. CASE WaitTasks
  BY <1>6, WaitStep
<1>7. CASE UNCHANGED vars
  BY <1>7, FailUpdateStep
<1> QED
  BY <1>1, <1>2, <1>3, <1>4, <1>5, <1>6, <1>7 DEF Next

(* The inductive invariant holds of every session.                         *)
THEOREM Invariance == Spec => []IInv
BY Initially, Inductive, PTL DEF Spec

(* receive_typings accepts no result for inputs the project has no longer. *)
THEOREM ResultsAreCurrent == Spec => []PendingIsCurrent
<1>1. IInv => PendingIsCurrent
  BY DEF IInv
<1> QED
  BY <1>1, Invariance, PTL

(* No published project is left without an acquisition for its inputs,     *)
(* however many jobs for earlier inputs still run.                         *)
THEOREM NobodyForgotten == Spec => []InputsAreAttended
<1>1. IInv => InputsAreAttended
  BY DEF IInv, Looked, Excused, Attended, InputsAreAttended
<1> QED
  BY <1>1, Invariance, PTL

(* A close that returned, or was unwound, leaves no job, no result and no  *)
(* publication.                                                            *)
THEOREM ClosedForGood == Spec => []NothingAfterClose
<1>1. IInv => NothingAfterClose
  BY NilIsNothing DEF IInv, Locked, Open, NothingAfterClose, TypeOK
<1> QED
  BY <1>1, Invariance, PTL
===============================================================================
