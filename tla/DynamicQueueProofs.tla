-------------------------- MODULE DynamicQueueProofs --------------------------
(***************************************************************************)
(* Proofs about DynamicQueue, for any number of callers, contexts and      *)
(* items and any capacity.                                                 *)
(***************************************************************************)
EXTENDS DynamicQueue, TLAPS

(* A caller that has no function, or one that was taken or run, sees at its
   next look at the queue that its context has ended. *)
Functions ==
    /\ closed \subseteq ended
    /\ \A p \in Proc :
          /\ pc[p] \in {"idle", "begin", "register"} => fn[p] = "none"
          /\ fn[p] = "registered" => call[p].ctx \notin closed
          /\ fn[p] = "taken" => call[p].ctx \in ended
          /\ pc[p] = "lock" /\ fn[p] = "none" => call[p].ctx \in ended

(* A call has its answer exactly when it is about to leave. *)
Answers ==
    \A p \in Proc : /\ pc[p] = "idle" <=> call[p] = Nil
                    /\ pc[p] = "leave" <=> answer[p] # Nil

IInv == TypeOK /\ Functions /\ Answers /\ SleeperHasWaker

(* Initially nothing is queued and nobody calls. *)
LEMMA InitIInv == Init => IInv
  BY QueueAssumption DEF Init, Empty, IInv, TypeOK, Functions, Answers, SleeperHasWaker

(* Every step keeps the inductive invariant. *)
LEMMA NextIInv == IInv /\ [Next]_vars => IInv'
<1> SUFFICES ASSUME IInv, [Next]_vars PROVE IInv'
  OBVIOUS
<1> USE QueueAssumption DEF IInv
<1>1. ASSUME NEW p \in Proc, NEW request \in Calls, Enter(p, request) PROVE IInv'
  BY <1>1 DEF Enter, Ask, Goto, TypeOK, Functions, Answers, SleeperHasWaker, Blocked, HasRoom
<1>2. ASSUME NEW p \in Proc, Begin(p) PROVE IInv'
  BY <1>2 DEF Begin, GiveUp, Effect, queueVars, Goto, TypeOK, Functions, Answers, SleeperHasWaker, Blocked, HasRoom
<1>3. ASSUME NEW p \in Proc, Register(p) PROVE IInv'
  BY <1>3 DEF Register, queueVars, Function, notify_all, Goto, TypeOK, Functions, Answers, SleeperHasWaker, Blocked, HasRoom
<1>4. ASSUME NEW p \in Proc, Canceled(p) PROVE IInv'
  BY <1>4 DEF Canceled, GiveUp, Effect, Goto, TypeOK, Functions, Answers, SleeperHasWaker, Blocked, HasRoom
<1>5. ASSUME NEW p \in Proc, Put(p) PROVE IInv'
  BY <1>5 DEF Put, Live, Finish, notify_all, Goto, HasRoom, Calls, TypeOK, Functions, Answers, SleeperHasWaker
<1>6. ASSUME NEW p \in Proc, Get(p) PROVE IInv'
  BY <1>6 DEF Get, Live, Finish, pop_front, notify_all, Goto, TypeOK, Functions, Answers, SleeperHasWaker
<1>7. ASSUME NEW p \in Proc, Sleep(p) PROVE IInv'
  BY <1>7 DEF Sleep, Live, queueVars, Goto, TypeOK, Functions, Answers, SleeperHasWaker, Blocked, HasRoom
<1>8. ASSUME NEW p \in Proc, Leave(p) PROVE IInv'
  BY <1>8 DEF Leave, Reply, stop, Goto, TypeOK, Functions, Answers, SleeperHasWaker, Blocked, HasRoom
<1>9. ASSUME NEW p \in Proc, SpuriousWake(p) PROVE IInv'
  BY <1>9 DEF SpuriousWake, queueVars, Goto, TypeOK, Functions, Answers, SleeperHasWaker, Blocked, HasRoom
<1>10. ASSUME NEW x \in Ctx, Cancel(x) PROVE IInv'
  BY <1>10 DEF Cancel, End, TypeOK, Functions, Answers, SleeperHasWaker, Blocked, HasRoom
<1>11. ASSUME NEW x \in Ctx, Close(x) PROVE IInv'
  BY <1>11 DEF Close, queueVars, TypeOK, Functions, Answers, SleeperHasWaker, Blocked, HasRoom
<1>12. ASSUME NEW p \in Proc, RunWake(p) PROVE IInv'
  BY <1>12 DEF RunWake, queueVars, notify_all, TypeOK, Functions, Answers, SleeperHasWaker, Blocked, HasRoom
<1>13. CASE UNCHANGED vars
  BY <1>13 DEF vars, queueVars, TypeOK, Functions, Answers, SleeperHasWaker, Blocked, HasRoom
<1> QED
  BY <1>1, <1>2, <1>3, <1>4, <1>5, <1>6, <1>7, <1>8, <1>9, <1>10, <1>11, <1>12, <1>13
  DEF Next, Internal

(* The state has its type, and the queue stays within its capacity. *)
THEOREM TypeCorrect == Spec => []TypeOK
<1>1. IInv => TypeOK
  BY DEF IInv
<1> QED
  BY <1>1, InitIInv, NextIInv, PTL DEF Spec

(* No caller of put or get sleeps without a reason and a wake-up to come. *)
THEOREM NoLostWakeup == Spec => []SleeperHasWaker
<1>1. IInv => SleeperHasWaker
  BY DEF IInv
<1> QED
  BY <1>1, InitIInv, NextIInv, PTL DEF Spec

(* A context keeps no wake-up function of a call that has returned. *)
THEOREM NoFunctionLeft == Spec => []FunctionsEnd
<1>1. IInv => FunctionsEnd
  BY DEF IInv, Functions, FunctionsEnd
<1> QED
  BY <1>1, InitIInv, NextIInv, PTL DEF Spec

(* Under the invariant every step of the code is a step of CancelableQueue, or
   changes nothing that CancelableQueue sees. *)
LEMMA StepRefines == IInv /\ [Next]_vars => [Step]_queueVars
<1> SUFFICES ASSUME IInv, Next PROVE Step \/ UNCHANGED queueVars
  BY DEF vars
<1> USE QueueAssumption DEF IInv
<1>1. ASSUME NEW p \in Proc, NEW request \in Calls, Enter(p, request) PROVE Step
  BY <1>1 DEF Enter, Step
<1>2. ASSUME NEW p \in Proc, Begin(p) PROVE Step \/ UNCHANGED queueVars
  BY <1>2 DEF Begin, Step
<1>3. ASSUME NEW p \in Proc, Canceled(p) PROVE Step
  BY <1>3 DEF Canceled, Step
<1>4. ASSUME NEW p \in Proc, Put(p) PROVE Push(p)
  BY <1>4 DEF Put, Live, HasRoom, Finish, Push, Effect, Room, Answers
<1>5. ASSUME NEW p \in Proc, Get(p) PROVE Pop(p)
  BY <1>5 DEF Get, Live, pop_front, Finish, Pop, Effect, Answers
<1>6. ASSUME NEW p \in Proc, Leave(p) PROVE Step
  BY <1>6 DEF Leave, Step
<1>7. ASSUME NEW x \in Ctx, Cancel(x) PROVE Step
  BY <1>7 DEF Cancel, Step
<1>8. ASSUME NEW p \in Proc, Register(p) \/ Sleep(p) \/ RunWake(p) \/ SpuriousWake(p) PROVE UNCHANGED queueVars
  BY <1>8 DEF Register, Sleep, RunWake, SpuriousWake
<1>9. ASSUME NEW x \in Ctx, Close(x) PROVE UNCHANGED queueVars
  BY <1>9 DEF Close
<1> QED
  BY <1>1, <1>2, <1>3, <1>4, <1>5, <1>6, <1>7, <1>8, <1>9 DEF Next, Internal, Step

(* The queue implements the atomic, cancellable FIFO queue. *)
THEOREM ImplementsQueue == Spec => Implements
<1>1. Init => Empty
  BY DEF Init
<1> QED
  BY <1>1, InitIInv, NextIInv, StepRefines, PTL DEF Spec, Implements, AbstractSpec
=============================================================================
