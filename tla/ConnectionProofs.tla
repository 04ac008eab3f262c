-------------------------- MODULE ConnectionProofs --------------------------
(***************************************************************************)
(* The safety of a connection of the language server, for any number of    *)
(* messages, IDs, workers and calls of the client.  The invariants come in *)
(* layers: the shape of the state and where each thread is (Shape), every  *)
(* message in one place (Places), the contexts found by ID (IdsAgree), and *)
(* what is known of requests that are refused or cancelled (Reasons).      *)
(***************************************************************************)
EXTENDS Connection, FiniteSetTheorems, TLAPS

Calling_ == {"send", "await", "unlist"}
Judged == {"judge", "retire", "reply", "release"}
DispPC == {"get", "start", "collect", "cancel", "prepare", "enqueue", "end", "endQueries",
           "join", "close", "stopped"} \cup Calling_ \cup Judged
WorkerPC == {"get", "work", "stopped"} \cup Calling_ \cup Judged
BackgroundPC == {"idle", "stopped"} \cup Calling_
PC == DispPC \cup WorkerPC \cup BackgroundPC
AtRest == {"get", "end", "endQueries", "join", "close", "stopped", "idle"}
Results == {"value", "error", "canceled", "work", "exit"}

ReaderOK ==
    /\ reader.op \in {"read", "put", "refuse", "cancel", "deliver", "end"}
    /\ reader.op \in {"put", "refuse", "cancel"} => reader.m \in Msg
    /\ reader.op = "refuse" => reader.r \in {"duplicate", "canceled"}
    /\ reader.op = "deliver" => reader.n \in 1 .. MaxCalls

TypeOK ==
    /\ msg \in [Msg -> Message \cup {Nil}]
    /\ contexts \in [Id -> Msg \cup {Nil, "reserved"}]
    /\ ReaderOK
    /\ requests \in Seq(Msg) /\ jobs \in Seq(Msg) /\ outgoing \in Seq(Msg \cup Nat)
    /\ canceled \in SUBSET Msg /\ ended \in SUBSET {"process", "connection", "query"}
    /\ pc \in [Proc -> PC] /\ cur \in [Proc -> Msg \cup {Nil}]
    /\ result \in [Proc -> Results \cup {Nil}]
    /\ todo \in SUBSET Msg /\ shutdown \in BOOLEAN
    /\ answered \in [Msg -> Results \cup {Nil, "duplicate"}]
    /\ seen \in SUBSET (Msg \cup Nat)
    /\ pending \in [1 .. MaxCalls -> Proc \cup {Nil}]
    /\ box \in SUBSET Nat /\ rev \in [Proc -> Nat] /\ calls \in Nat
    /\ asked \in SUBSET Msg /\ rude \in SUBSET Msg

(* A thread has a message exactly while it handles one; the dispatcher may
   keep the last one it had. *)
Control ==
    /\ \A p \in Proc : pc[p] = "get" => cur[p] = Nil
    /\ \A p \in Handler : pc[p] \notin AtRest => cur[p] \in Msg
    /\ \A w \in Worker : pc[w] \in WorkerPC /\ (pc[w] = "stopped" => cur[w] = Nil)
    /\ \A b \in Background : pc[b] \in BackgroundPC /\ cur[b] = Nil

Shape == TypeOK /\ Control

----------------------------------------------------------------------------
Distinct(q) == \A j, k \in 1 .. Len(q) : q[j] = q[k] => j = k
InHand == reader.op \in {"put", "refuse"}
Queued == Elements(requests) \cup Elements(jobs)

(* A message is in one place: with the reader, in a queue, or with a thread. *)
OnePlace ==
    /\ Distinct(requests) /\ Distinct(jobs) /\ Elements(requests) \cap Elements(jobs) = {}
    /\ InHand => reader.m \notin Queued /\ \A p \in Proc : cur[p] # reader.m
    /\ \A p \in Proc : cur[p] \notin Queued
    /\ \A p, q \in Proc : cur[p] = cur[q] /\ cur[p] # Nil => p = q

Unanswered ==
    Queued \cup (IF InHand THEN {reader.m} ELSE {})
           \cup {cur[p] : p \in {q \in Proc : cur[q] # Nil /\ pc[q] # "release"}}
Known == {m \in Msg : msg[m] # Nil}
Sent == Elements(outgoing) \cup seen

(* Messages that are somewhere were read, and those on their way were not
   answered. *)
Read ==
    /\ Unanswered \subseteq Known /\ Sent \subseteq Known \cup Nat
    /\ canceled \subseteq Known /\ todo \subseteq Known
    /\ \A p \in Proc : cur[p] \in Known \cup {Nil}
    /\ \A i \in Id : contexts[i] \in Known \cup {Nil, "reserved"}
    /\ reader.op \in {"put", "refuse", "cancel"} => reader.m \in Known
OnTheWay == Unanswered \cap Sent = {}

Places == OnePlace /\ Read /\ OnTheWay

----------------------------------------------------------------------------
Held(m) == m \in Unanswered \/ \E p \in Proc : cur[p] = m

(* A refusal or a cancellation has its reason when it is decided; a request
   that came to its end is in the set of the cancelled, too. *)
ReaderReasons ==
    /\ reader.op = "refuse" /\ reader.r = "duplicate" => reader.m \in rude
    /\ reader.op = "refuse" /\ reader.r = "canceled" => Over
    /\ reader.op = "cancel" => reader.m \in asked
CancelReasons == \A m \in canceled : m \in asked \/ ~Held(m)
ThreadReasons ==
    \A p \in Proc : pc[p] \in Judged /\ result[p] = "canceled" => cur[p] \in asked \/ Over
Reasons == ReaderReasons /\ CancelReasons /\ ThreadReasons /\ todo \subseteq asked

----------------------------------------------------------------------------
(* A thread that is past "get" and not in a call has a message. *)
LEMMA Handling == Shape => \A p \in Proc : pc[p] \notin AtRest \cup Calling_ => cur[p] \in Msg
BY DEF Shape, Control, Proc, BackgroundPC, AtRest

----------------------------------------------------------------------------
(* Sequences *)

(* Putting an element behind a queue. *)
LEMMA Appended ==
    ASSUME NEW S, NEW q \in Seq(S), NEW x \in S
    PROVE  /\ Append(q, x) \in Seq(S)
           /\ Elements(Append(q, x)) = Elements(q) \cup {x}
           /\ Distinct(q) /\ x \notin Elements(q) => Distinct(Append(q, x))
<1>1. /\ Append(q, x) \in Seq(S) /\ Len(Append(q, x)) = Len(q) + 1 /\ Len(q) \in Nat
      /\ Append(q, x)[Len(q) + 1] = x /\ \A k \in 1 .. Len(q) : Append(q, x)[k] = q[k]
    OBVIOUS
<1>2. \A k : k \in 1 .. Len(q) + 1 <=> k \in 1 .. Len(q) \/ k = Len(q) + 1
    BY <1>1
<1>3. Elements(Append(q, x)) = Elements(q) \cup {x}
    BY <1>1, <1>2 DEF Elements
<1>4. Distinct(q) /\ x \notin Elements(q) => Distinct(Append(q, x))
    BY <1>1, <1>2 DEF Elements, Distinct
<1> QED
    BY <1>1, <1>3, <1>4

(* Taking the first element of a queue. *)
LEMMA Taken_ ==
    ASSUME NEW S, NEW q \in Seq(S), q # <<>>
    PROVE  /\ Head(q) \in S /\ Tail(q) \in Seq(S)
           /\ Elements(q) = Elements(Tail(q)) \cup {Head(q)}
           /\ Distinct(q) => Distinct(Tail(q)) /\ Head(q) \notin Elements(Tail(q))
<1>1. /\ Len(q) \in Nat /\ Len(q) > 0 /\ Tail(q) \in Seq(S) /\ Len(Tail(q)) = Len(q) - 1
      /\ Head(q) = q[1] /\ q[1] \in S /\ \A k \in 1 .. Len(q) - 1 : Tail(q)[k] = q[k + 1]
    OBVIOUS
<1>2. \A k \in 1 .. Len(q) : k = 1 \/ (k - 1 \in 1 .. Len(q) - 1 /\ k = (k - 1) + 1)
    BY <1>1
<1>3. \A k \in 1 .. Len(q) - 1 : k + 1 \in 1 .. Len(q) /\ k + 1 # 1
    BY <1>1
<1>4. 1 \in 1 .. Len(q)
    BY <1>1
<1>5. Elements(q) = Elements(Tail(q)) \cup {Head(q)}
  <2>1. \A y : y \in Elements(q) => y \in Elements(Tail(q)) \cup {Head(q)}
    BY <1>1, <1>2 DEF Elements
  <2>2. \A y : y \in Elements(Tail(q)) => y \in Elements(q)
    BY <1>1, <1>3 DEF Elements
  <2>3. Head(q) \in Elements(q)
    BY <1>1, <1>4 DEF Elements
  <2> QED
    BY <2>1, <2>2, <2>3
<1>6. Distinct(q) => Distinct(Tail(q))
  <2> SUFFICES ASSUME Distinct(q), NEW j \in 1 .. Len(q) - 1, NEW k \in 1 .. Len(q) - 1,
                      Tail(q)[j] = Tail(q)[k]
               PROVE  j = k
    BY <1>1 DEF Distinct
  <2>1. j + 1 = k + 1
    BY <1>1, <1>3 DEF Distinct
  <2> QED
    BY <2>1
<1>7. Distinct(q) => Head(q) \notin Elements(Tail(q))
    BY <1>1, <1>3, <1>4 DEF Distinct, Elements
<1> QED
    BY <1>1, <1>5, <1>6, <1>7

(* What is in a queue of a set is in the set. *)
LEMMA ElementsIn ==
    ASSUME NEW S, NEW q \in Seq(S)
    PROVE  Elements(q) \subseteq S
BY DEF Elements

(* An empty queue has no elements. *)
LEMMA NoElements == Elements(<<>>) = {} /\ Distinct(<<>>)
BY DEF Elements, Distinct

----------------------------------------------------------------------------
(* Shape *)

(* A new connection has the shape. *)
LEMMA InitShape == Init => Shape
<1> SUFFICES ASSUME Init PROVE Shape
    OBVIOUS
<1> USE ConnectionAssumption DEF Init
<1>1. ReaderOK
    BY DEF ReaderOK, Idle
<1>2. /\ requests \in Seq(Msg) /\ jobs \in Seq(Msg) /\ outgoing \in Seq(Msg \cup Nat)
    OBVIOUS
<1>3. pc \in [Proc -> PC]
    BY DEF PC, DispPC, BackgroundPC
<1>4. TypeOK
    BY <1>1, <1>2, <1>3 DEF TypeOK
<1>5. Control
    BY DEF Control, AtRest, WorkerPC, BackgroundPC, Proc, Handler, Background
<1> QED
    BY <1>4, <1>5 DEF Shape

(* Every step keeps the types. *)
LEMMA TypeStep == Shape /\ [Next]_vars => TypeOK'
<1> SUFFICES ASSUME Shape, [Next]_vars PROVE TypeOK'
    OBVIOUS
<1> USE ConnectionAssumption
    DEF PC, DispPC, WorkerPC, BackgroundPC, Calling_, Judged, Results, Proc, Handler, Background,
        queues, scopes, client, rpc, threads
<1>a. TypeOK /\ Control
    BY DEF Shape
<1>p. pc \in [Proc -> PC]
    BY DEF Shape, TypeOK
<1>1. ASSUME NEW i \in Id \cup {Nil}, NEW kind \in {"query", "shutdown", "exit"},
             Receive(i, kind)
      PROVE  TypeOK'
  <2>1. PICK m \in Msg : m = CHOOSE x \in Unread : TRUE
    BY <1>1 DEF Receive, Unread
  <2>2. msg' \in [Msg -> Message \cup {Nil}]
    BY <1>a, <1>1, <2>1 DEF TypeOK, Receive, Message
  <2>3. ReaderOK'
    <3>1. \/ reader' = [op |-> "refuse", m |-> m, r |-> "duplicate"]
          \/ reader' = [op |-> "put", m |-> m]
      BY <1>1, <2>1 DEF Receive
    <3> QED
      BY <3>1 DEF ReaderOK
  <2>4. contexts' \in [Id -> Msg \cup {Nil, "reserved"}]
    BY <1>a, <1>1 DEF TypeOK, Receive
  <2>5. rude' \in SUBSET Msg
    BY <1>a, <1>1, <2>1 DEF TypeOK, Receive
  <2> QED
    BY <1>a, <1>1, <2>2, <2>3, <2>4, <2>5 DEF TypeOK, Receive
<1>2. ASSUME NEW i \in Id, CancelRequest(i)
      PROVE  TypeOK'
    BY <1>a, <1>2 DEF TypeOK, ReaderOK, CancelRequest
<1>3. ASSUME EndOfInput
      PROVE  TypeOK'
    BY <1>a, <1>3 DEF TypeOK, ReaderOK, EndOfInput
<1>4. ASSUME NEW x \in {"connection", "process"}, End(x)
      PROVE  TypeOK'
    BY <1>a, <1>4 DEF TypeOK, ReaderOK, End
<1>5. ASSUME Put
      PROVE  TypeOK'
  <2>1. ReaderOK'
    BY <1>a, <1>5 DEF TypeOK, ReaderOK, Put, Idle
  <2>2. contexts' \in [Id -> Msg \cup {Nil, "reserved"}]
    BY <1>a, <1>5 DEF TypeOK, Put
  <2>3. reader.m \in Msg /\ requests \in Seq(Msg)
    BY <1>a, <1>5 DEF TypeOK, ReaderOK, Control, AtRest, Put
  <2>4. Append(requests, reader.m) \in Seq(Msg)
    BY <2>3
  <2>5. requests' \in Seq(Msg)
    BY <1>a, <1>5, <2>3, <2>4 DEF Put
  <2> QED
    BY <1>a, <1>5, <2>1, <2>2, <2>3, <2>4, <2>5 DEF TypeOK, Put
<1>6. ASSUME Refuse
      PROVE  TypeOK'
  <2>1. ReaderOK'
    BY <1>a, <1>6 DEF ReaderOK, Refuse, Idle
  <2>2. reader.m \in Msg \cup Nat /\ outgoing \in Seq(Msg \cup Nat)
    BY <1>a, <1>6 DEF TypeOK, ReaderOK, Control, AtRest, Refuse
  <2>3. Append(outgoing, reader.m) \in Seq(Msg \cup Nat)
    BY <2>2
  <2>4. outgoing' \in Seq(Msg \cup Nat)
    BY <1>a, <1>6, <2>2, <2>3 DEF Refuse, Publish
  <2>5. answered' \in [Msg -> Results \cup {Nil, "duplicate"}]
    <3>1. answered \in [Msg -> Results \cup {Nil, "duplicate"}]
      BY <1>a DEF TypeOK
    <3>2. reader.r \in Results \cup {"duplicate"}
      BY <1>a, <1>6 DEF TypeOK, ReaderOK, Refuse, Results
    <3>3. answered' = answered \/ answered' = [answered EXCEPT ![reader.m] = reader.r]
      BY <1>6 DEF Refuse, Publish
    <3> QED
      BY <3>1, <3>2, <3>3
  <2> QED
    BY <1>a, <1>6, <2>1, <2>2, <2>3, <2>4, <2>5 DEF TypeOK, Refuse
<1>7. ASSUME Cancel
      PROVE  TypeOK'
  <2>1. ReaderOK'
    BY <1>a, <1>7 DEF ReaderOK, Cancel, Idle
  <2>2. canceled' \in SUBSET Msg
    BY <1>a, <1>7 DEF TypeOK, ReaderOK, Cancel
  <2> QED
    BY <1>a, <1>7, <2>1, <2>2 DEF TypeOK, Cancel
<1>8. ASSUME Deliver
      PROVE  TypeOK'
  <2>1. ReaderOK'
    BY <1>a, <1>8 DEF ReaderOK, Deliver, Idle
  <2>2. reader.n \in Nat /\ box \in SUBSET Nat
    BY <1>a, <1>8 DEF TypeOK, ReaderOK, Deliver
  <2>3. box' \in SUBSET Nat
    BY <1>a, <1>8, <2>2 DEF Deliver
  <2> QED
    BY <1>a, <1>8, <2>1, <2>2, <2>3 DEF TypeOK, Deliver
<1>9. ASSUME NEW n \in 1 .. MaxCalls, ReceiveReply(n)
      PROVE  TypeOK'
    BY <1>a, <1>9 DEF TypeOK, ReaderOK, ReceiveReply
<1>10. ASSUME Write
      PROVE  TypeOK'
    BY <1>a, <1>10, SMTT(60) DEF TypeOK, ReaderOK, Write
<1>11. ASSUME Dispatch
      PROVE  TypeOK'
  <2>1. pc' \in [Proc -> PC]
    BY <1>p, <1>11 DEF Dispatch, Goto
  <2>2. requests \in Seq(Msg) /\ cur \in [Proc -> Msg \cup {Nil}]
    BY <1>a, <1>11 DEF TypeOK
  <2>3. requests # <<>> => Head(requests) \in Msg /\ Tail(requests) \in Seq(Msg)
    BY <2>2
  <2>4. requests' \in Seq(Msg) /\ cur' \in [Proc -> Msg \cup {Nil}]
    BY <1>a, <1>11, <2>2, <2>3 DEF Dispatch
  <2> QED
    BY <1>a, <1>11, <2>1, <2>2, <2>3, <2>4 DEF TypeOK, ReaderOK, Dispatch
<1>12. ASSUME start_request
      PROVE  TypeOK'
    BY <1>a, <1>12 DEF TypeOK, ReaderOK, start_request, Goto
<1>13. ASSUME cancel_requests
      PROVE  TypeOK'
  <2>1. pc' \in [Proc -> PC]
    BY <1>p, <1>13 DEF cancel_requests, Goto
  <2>2. todo' \in SUBSET Msg /\ asked' \in SUBSET Msg
    BY <1>a, <1>13 DEF TypeOK, cancel_requests, Others
  <2> QED
    BY <1>a, <1>13, <2>1, <2>2 DEF TypeOK, ReaderOK, cancel_requests
<1>14. ASSUME CancelNext
      PROVE  TypeOK'
    BY <1>a, <1>14 DEF TypeOK, ReaderOK, CancelNext, Goto
<1>15. ASSUME Enqueue
      PROVE  TypeOK'
  <2>1. pc' \in [Proc -> PC]
    BY <1>p, <1>15 DEF Enqueue, Goto
  <2>2. cur' \in [Proc -> Msg \cup {Nil}] /\ result' \in [Proc -> Results \cup {Nil}]
    BY <1>a, <1>15 DEF TypeOK, Enqueue
  <2>3. cur[Disp] \in Msg /\ jobs \in Seq(Msg)
    BY <1>a, <1>15 DEF TypeOK, ReaderOK, Control, AtRest, Enqueue
  <2>4. Append(jobs, cur[Disp]) \in Seq(Msg)
    BY <2>3
  <2>5. jobs' \in Seq(Msg)
    BY <1>a, <1>15, <2>3, <2>4 DEF Enqueue
  <2> QED
    BY <1>a, <1>15, <2>1, <2>2, <2>3, <2>4, <2>5 DEF TypeOK, ReaderOK, Enqueue
<1>16. ASSUME Join
      PROVE  TypeOK'
    BY <1>a, <1>16 DEF TypeOK, ReaderOK, Join, Goto
<1>17. ASSUME NEW outcome \in Results, Prepare(outcome)
      PROVE  TypeOK'
    BY <1>a, <1>17 DEF TypeOK, ReaderOK, Prepare, Goto
<1>18. ASSUME NEW x \in {"connection", "query"}, Finish(x)
      PROVE  TypeOK'
    BY <1>a, <1>18 DEF TypeOK, ReaderOK, Finish, Goto
<1>19. ASSUME NEW w \in Worker, Fetch(w)
      PROVE  TypeOK'
  <2>1. pc' \in [Proc -> PC]
    BY <1>p, <1>19 DEF Fetch, Goto
  <2>2. jobs \in Seq(Msg) /\ cur \in [Proc -> Msg \cup {Nil}]
    BY <1>a, <1>19 DEF TypeOK
  <2>3. jobs # <<>> => Head(jobs) \in Msg /\ Tail(jobs) \in Seq(Msg)
    BY <2>2
  <2>4. jobs' \in Seq(Msg) /\ cur' \in [Proc -> Msg \cup {Nil}]
    BY <1>a, <1>19, <2>2, <2>3 DEF Fetch
  <2> QED
    BY <1>a, <1>19, <2>1, <2>2, <2>3, <2>4 DEF TypeOK, ReaderOK, Fetch
<1>20. ASSUME NEW w \in Worker, NEW outcome \in {"value", "error"}, Work(w, outcome)
      PROVE  TypeOK'
    BY <1>a, <1>20 DEF TypeOK, ReaderOK, Work, Goto
<1>21. ASSUME NEW p \in Proc, Judge(p)
      PROVE  TypeOK'
    BY <1>a, <1>21 DEF TypeOK, ReaderOK, Judge, After, Goto
<1>22. ASSUME NEW p \in Proc, Retire(p)
      PROVE  TypeOK'
    BY <1>a, <1>22 DEF TypeOK, ReaderOK, Retire, After, Goto
<1>23. ASSUME NEW p \in Proc, Reply(p)
      PROVE  TypeOK'
  <2>1. pc' \in [Proc -> PC]
    BY <1>p, <1>23 DEF Reply, After, Goto
  <2>2. cur[p] \in Msg
    BY <1>a, <1>23 DEF Control, AtRest, Reply
  <2>3. cur[p] \in Msg \cup Nat /\ outgoing \in Seq(Msg \cup Nat)
    BY <1>a, <1>23 DEF TypeOK, ReaderOK, Control, AtRest, Reply
  <2>4. Append(outgoing, cur[p]) \in Seq(Msg \cup Nat)
    BY <2>3
  <2>5. outgoing' \in Seq(Msg \cup Nat)
    BY <1>a, <1>23, <2>3, <2>4 DEF Reply, Publish
  <2>6. answered' \in [Msg -> Results \cup {Nil, "duplicate"}]
    BY <1>a, <1>23, <2>2, ZenonT(30) DEF TypeOK, Reply, Publish
  <2>7. ended' \in SUBSET {"process", "connection", "query"}
    BY <1>a, <1>23 DEF TypeOK, Reply
  <2> QED
    BY <1>a, <1>23, <2>1, <2>2, <2>3, <2>4, <2>5, <2>6, <2>7 DEF TypeOK, ReaderOK, Reply
<1>24. ASSUME NEW p \in Proc, Release(p)
      PROVE  TypeOK'
  <2>1. pc' \in [Proc -> PC]
    BY <1>p, <1>24 DEF Release, Goto
  <2>2. cur' \in [Proc -> Msg \cup {Nil}] /\ result' \in [Proc -> Results \cup {Nil}]
    BY <1>a, <1>24 DEF TypeOK, Release
  <2>3. canceled' \in SUBSET Msg
    BY <1>a, <1>24 DEF TypeOK, Control, AtRest, Release, Own
  <2> QED
    BY <1>a, <1>24, <2>1, <2>2, <2>3 DEF TypeOK, ReaderOK, Release
<1>25. ASSUME NEW p \in Proc, Send(p)
      PROVE  TypeOK'
  <2>1. pc' \in [Proc -> PC]
    BY <1>p, <1>25 DEF Send, Goto
  <2>2. rev[p] \in Msg \cup Nat
    BY <1>a, <1>25 DEF TypeOK
  <2>3. rev[p] \in Msg \cup Nat /\ outgoing \in Seq(Msg \cup Nat)
    BY <1>a, <1>25 DEF TypeOK, ReaderOK, Control, AtRest, Send
  <2>4. Append(outgoing, rev[p]) \in Seq(Msg \cup Nat)
    BY <2>3
  <2>5. outgoing' \in Seq(Msg \cup Nat)
    BY <1>a, <1>25, <2>3, <2>4 DEF Send
  <2> QED
    BY <1>a, <1>25, <2>1, <2>2, <2>3, <2>4, <2>5 DEF TypeOK, ReaderOK, Send
<1>26. ASSUME NEW p \in Proc, Await(p)
      PROVE  TypeOK'
    BY <1>a, <1>26 DEF TypeOK, ReaderOK, Await, Goto
<1>27. ASSUME NEW p \in Proc, Unlist(p)
      PROVE  TypeOK'
    BY <1>a, <1>27 DEF TypeOK, ReaderOK, Unlist, Unlisted, Outside, Goto
<1>28. ASSUME NEW p \in Proc, Call(p)
      PROVE  TypeOK'
    BY <1>a, <1>28 DEF TypeOK, ReaderOK, Call, Outside, Goto
<1>29. ASSUME Rest \/ UNCHANGED vars
      PROVE  TypeOK'
    BY <1>a, <1>29, ZenonT(90) DEF TypeOK, ReaderOK, Rest, vars
<1>30. ASSUME Close
      PROVE  TypeOK'
    BY <1>a, <1>30 DEF TypeOK, ReaderOK, Close, Goto
<1>31. ASSUME NEW p \in Background, Leave(p)
      PROVE  TypeOK'
    BY <1>a, <1>31 DEF TypeOK, ReaderOK, Leave, Goto
<1>32. ASSUME NEW p \in Proc, TimeOut(p)
      PROVE  TypeOK'
    BY <1>a, <1>32 DEF TypeOK, ReaderOK, TimeOut, Goto
<1> QED
    BY <1>1, <1>2, <1>3, <1>4, <1>5, <1>6, <1>7, <1>8, <1>9, <1>10, <1>11, <1>12, <1>13,
       <1>14, <1>15, <1>16, <1>17, <1>18, <1>19, <1>20, <1>21, <1>22, <1>23, <1>24, <1>25,
       <1>26, <1>27, <1>28, <1>29, <1>30, <1>31, <1>32
       DEF Next, Reading, Answering, Dispatching, Working, Completing, Calling, Thread,
           Proc, Handler, Background, Results

(* Every step leaves each thread with the message it handles. *)
LEMMA ControlStep == Shape /\ [Next]_vars => Control'
<1> SUFFICES ASSUME Shape, [Next]_vars PROVE Control'
    OBVIOUS
<1> USE ConnectionAssumption
    DEF Control, AtRest, WorkerPC, BackgroundPC, Calling_, Judged, Proc, Handler, Background, queues, scopes, client, rpc, threads
<1>a. /\ Control /\ pc \in [Proc -> PC] /\ cur \in [Proc -> Msg \cup {Nil}]
      /\ requests \in Seq(Msg) /\ jobs \in Seq(Msg)
    BY DEF Shape, TypeOK
<1>1. ASSUME NEW i \in Id \cup {Nil}, NEW kind \in {"query", "shutdown", "exit"},
             Receive(i, kind)
      PROVE  Control'
    BY <1>a, <1>1 DEF Receive
<1>2. ASSUME NEW i \in Id, CancelRequest(i)
      PROVE  Control'
    BY <1>a, <1>2 DEF CancelRequest
<1>3. ASSUME EndOfInput
      PROVE  Control'
    BY <1>a, <1>3 DEF EndOfInput
<1>4. ASSUME NEW x \in {"connection", "process"}, End(x)
      PROVE  Control'
    BY <1>a, <1>4 DEF End
<1>5. ASSUME Put
      PROVE  Control'
    BY <1>a, <1>5 DEF Put
<1>6. ASSUME Refuse
      PROVE  Control'
    BY <1>a, <1>6 DEF Refuse, Publish
<1>7. ASSUME Cancel
      PROVE  Control'
    BY <1>a, <1>7 DEF Cancel
<1>8. ASSUME Deliver
      PROVE  Control'
    BY <1>a, <1>8 DEF Deliver
<1>9. ASSUME NEW n \in 1 .. MaxCalls, ReceiveReply(n)
      PROVE  Control'
    BY <1>a, <1>9 DEF ReceiveReply
<1>10. ASSUME Write
      PROVE  Control'
    BY <1>a, <1>10 DEF Write
<1>11. ASSUME Dispatch
      PROVE  Control'
  <2>1. requests # <<>> => Head(requests) \in Msg
    BY <1>a
  <2>2. /\ \A p \in Proc \ {Disp} : pc'[p] = pc[p] /\ cur'[p] = cur[p]
        /\ \/ pc'[Disp] = "end" /\ cur'[Disp] = cur[Disp]
           \/ pc'[Disp] = "start" /\ cur'[Disp] \in Msg
        /\ pc[Disp] = "get"
    BY <1>a, <1>11, <2>1 DEF Dispatch, Goto
  <2> QED
    BY <1>a, <2>2
<1>12. ASSUME start_request
      PROVE  Control'
    BY <1>a, <1>12 DEF start_request, Goto
<1>13. ASSUME cancel_requests
      PROVE  Control'
    BY <1>a, <1>13 DEF cancel_requests, Goto
<1>14. ASSUME CancelNext
      PROVE  Control'
    BY <1>a, <1>14 DEF CancelNext, Goto
<1>15. ASSUME Enqueue
      PROVE  Control'
    BY <1>a, <1>15 DEF Enqueue, Goto
<1>16. ASSUME Join
      PROVE  Control'
    BY <1>a, <1>16 DEF Join, Goto
<1>17. ASSUME NEW outcome \in Results, Prepare(outcome)
      PROVE  Control'
    BY <1>a, <1>17 DEF Prepare, Goto
<1>18. ASSUME NEW x \in {"connection", "query"}, Finish(x)
      PROVE  Control'
    BY <1>a, <1>18 DEF Finish, Goto
<1>19. ASSUME NEW w \in Worker, Fetch(w)
      PROVE  Control'
  <2>1. jobs # <<>> => Head(jobs) \in Msg
    BY <1>a
  <2>2. /\ \A p \in Proc \ {w} : pc'[p] = pc[p] /\ cur'[p] = cur[p]
        /\ \/ pc'[w] = "stopped" /\ cur'[w] = cur[w]
           \/ pc'[w] = "work" /\ cur'[w] \in Msg
        /\ pc[w] = "get"
    BY <1>a, <1>19, <2>1 DEF Fetch, Goto
  <2> QED
    BY <1>a, <2>2
<1>20. ASSUME NEW w \in Worker, NEW outcome \in {"value", "error"}, Work(w, outcome)
      PROVE  Control'
    BY <1>a, <1>20 DEF Work, Goto
<1>21. ASSUME NEW p \in Proc, Judge(p)
      PROVE  Control'
    BY <1>a, <1>21 DEF Judge, After, Goto
<1>22. ASSUME NEW p \in Proc, Retire(p)
      PROVE  Control'
    BY <1>a, <1>22 DEF Retire, After, Goto
<1>23. ASSUME NEW p \in Proc, Reply(p)
      PROVE  Control'
    BY <1>a, <1>23 DEF Reply, Publish, After, Goto
<1>24. ASSUME NEW p \in Proc, Release(p)
      PROVE  Control'
    BY <1>a, <1>24 DEF Release, Own, Goto
<1>25. ASSUME NEW p \in Proc, Send(p)
      PROVE  Control'
    BY <1>a, <1>25 DEF Send, Goto
<1>26. ASSUME NEW p \in Proc, Await(p)
      PROVE  Control'
    BY <1>a, <1>26 DEF Await, Goto
<1>27. ASSUME NEW p \in Proc, Unlist(p)
      PROVE  Control'
    BY <1>a, <1>27 DEF Unlist, Unlisted, Outside, Goto
<1>28. ASSUME NEW p \in Proc, Call(p)
      PROVE  Control'
    BY <1>a, <1>28 DEF Call, Outside, Goto
<1>29. ASSUME Rest \/ UNCHANGED vars
      PROVE  Control'
    BY <1>a, <1>29 DEF Rest, vars
<1>30. ASSUME Close
      PROVE  Control'
    BY <1>a, <1>30 DEF Close, Goto
<1>31. ASSUME NEW p \in Background, Leave(p)
      PROVE  Control'
    BY <1>a, <1>31 DEF Leave, Goto
<1>32. ASSUME NEW p \in Proc, TimeOut(p)
      PROVE  Control'
    BY <1>a, <1>32 DEF TimeOut, Goto
<1> QED
    BY <1>1, <1>2, <1>3, <1>4, <1>5, <1>6, <1>7, <1>8, <1>9, <1>10, <1>11, <1>12, <1>13,
       <1>14, <1>15, <1>16, <1>17, <1>18, <1>19, <1>20, <1>21, <1>22, <1>23, <1>24, <1>25,
       <1>26, <1>27, <1>28, <1>29, <1>30, <1>31, <1>32
       DEF Next, Reading, Answering, Dispatching, Working, Completing, Calling, Thread,
           Proc, Handler, Background, Results

(* Every step keeps the shape. *)
LEMMA ShapeStep == Shape /\ [Next]_vars => Shape'
BY TypeStep, ControlStep DEF Shape

(* The connection's state is well formed, and a thread has a message while it
   handles one. *)
THEOREM ShapeHolds == Spec => []Shape
BY InitShape, ShapeStep, PTL DEF Spec

----------------------------------------------------------------------------
(* The calls of the client *)

(* Every step keeps a pending call with the thread that made it. *)
LEMMA PendingStep == Shape /\ PendingIsAwaited /\ [Next]_vars => PendingIsAwaited'
<1> SUFFICES ASSUME Shape, PendingIsAwaited, [Next]_vars PROVE PendingIsAwaited'
    OBVIOUS
<1> USE ConnectionAssumption DEF PendingIsAwaited, Proc, Handler, Background, queues, scopes, client, rpc, threads
<1>a. /\ pc \in [Proc -> PC] /\ rev \in [Proc -> Nat] /\ calls \in Nat
      /\ pending \in [1 .. MaxCalls -> Proc \cup {Nil}]
    BY DEF Shape, TypeOK
<1>1. ASSUME NEW i \in Id \cup {Nil}, NEW kind \in {"query", "shutdown", "exit"},
             Receive(i, kind)
      PROVE  PendingIsAwaited'
    BY <1>a, <1>1 DEF Receive
<1>2. ASSUME NEW i \in Id, CancelRequest(i)
      PROVE  PendingIsAwaited'
    BY <1>a, <1>2 DEF CancelRequest
<1>3. ASSUME EndOfInput
      PROVE  PendingIsAwaited'
    BY <1>a, <1>3 DEF EndOfInput
<1>4. ASSUME NEW x \in {"connection", "process"}, End(x)
      PROVE  PendingIsAwaited'
    BY <1>a, <1>4 DEF End
<1>5. ASSUME Put
      PROVE  PendingIsAwaited'
    BY <1>a, <1>5 DEF Put
<1>6. ASSUME Refuse
      PROVE  PendingIsAwaited'
    BY <1>a, <1>6 DEF Refuse, Publish
<1>7. ASSUME Cancel
      PROVE  PendingIsAwaited'
    BY <1>a, <1>7 DEF Cancel
<1>8. ASSUME Deliver
      PROVE  PendingIsAwaited'
    BY <1>a, <1>8 DEF Deliver
<1>9. ASSUME NEW n \in 1 .. MaxCalls, ReceiveReply(n)
      PROVE  PendingIsAwaited'
    BY <1>a, <1>9 DEF ReceiveReply
<1>10. ASSUME Write
      PROVE  PendingIsAwaited'
    BY <1>a, <1>10 DEF Write
<1>11. ASSUME Dispatch
      PROVE  PendingIsAwaited'
    BY <1>a, <1>11 DEF Dispatch, Goto
<1>12. ASSUME start_request
      PROVE  PendingIsAwaited'
    BY <1>a, <1>12 DEF start_request, Goto
<1>13. ASSUME cancel_requests
      PROVE  PendingIsAwaited'
    BY <1>a, <1>13 DEF cancel_requests, Goto
<1>14. ASSUME CancelNext
      PROVE  PendingIsAwaited'
    BY <1>a, <1>14 DEF CancelNext, Goto
<1>15. ASSUME Enqueue
      PROVE  PendingIsAwaited'
    BY <1>a, <1>15 DEF Enqueue, Goto
<1>16. ASSUME Join
      PROVE  PendingIsAwaited'
    BY <1>a, <1>16 DEF Join, Goto
<1>17. ASSUME NEW outcome \in Results, Prepare(outcome)
      PROVE  PendingIsAwaited'
    BY <1>a, <1>17 DEF Prepare, Goto
<1>18. ASSUME NEW x \in {"connection", "query"}, Finish(x)
      PROVE  PendingIsAwaited'
    BY <1>a, <1>18 DEF Finish, Goto
<1>19. ASSUME NEW w \in Worker, Fetch(w)
      PROVE  PendingIsAwaited'
    BY <1>a, <1>19 DEF Fetch, Goto
<1>20. ASSUME NEW w \in Worker, NEW outcome \in {"value", "error"}, Work(w, outcome)
      PROVE  PendingIsAwaited'
    BY <1>a, <1>20 DEF Work, Goto
<1>21. ASSUME NEW p \in Proc, Judge(p)
      PROVE  PendingIsAwaited'
    BY <1>a, <1>21 DEF Judge, After, Goto
<1>22. ASSUME NEW p \in Proc, Retire(p)
      PROVE  PendingIsAwaited'
    BY <1>a, <1>22 DEF Retire, After, Goto
<1>23. ASSUME NEW p \in Proc, Reply(p)
      PROVE  PendingIsAwaited'
    BY <1>a, <1>23 DEF Reply, Publish, After, Goto
<1>24. ASSUME NEW p \in Proc, Release(p)
      PROVE  PendingIsAwaited'
    BY <1>a, <1>24 DEF Release, Own, Goto
<1>25. ASSUME NEW p \in Proc, Send(p)
      PROVE  PendingIsAwaited'
    BY <1>a, <1>25 DEF Send, Goto
<1>26. ASSUME NEW p \in Proc, Await(p)
      PROVE  PendingIsAwaited'
    BY <1>a, <1>26 DEF Await, Goto
<1>27. ASSUME NEW p \in Proc, Unlist(p)
      PROVE  PendingIsAwaited'
    BY <1>a, <1>27 DEF Unlist, Unlisted, Outside, Goto
<1>28. ASSUME NEW p \in Proc, Call(p)
      PROVE  PendingIsAwaited'
    BY <1>a, <1>28 DEF Call, Outside, Goto
<1>29. ASSUME Rest \/ UNCHANGED vars
      PROVE  PendingIsAwaited'
    BY <1>a, <1>29 DEF Rest, vars
<1>30. ASSUME Close
      PROVE  PendingIsAwaited'
    BY <1>a, <1>30 DEF Close, Goto
<1>31. ASSUME NEW p \in Background, Leave(p)
      PROVE  PendingIsAwaited'
    BY <1>a, <1>31 DEF Leave, Goto
<1>32. ASSUME NEW p \in Proc, TimeOut(p)
      PROVE  PendingIsAwaited'
    BY <1>a, <1>32 DEF TimeOut, Goto
<1> QED
    BY <1>1, <1>2, <1>3, <1>4, <1>5, <1>6, <1>7, <1>8, <1>9, <1>10, <1>11, <1>12, <1>13,
       <1>14, <1>15, <1>16, <1>17, <1>18, <1>19, <1>20, <1>21, <1>22, <1>23, <1>24, <1>25,
       <1>26, <1>27, <1>28, <1>29, <1>30, <1>31, <1>32
       DEF Next, Reading, Answering, Dispatching, Working, Completing, Calling, Thread,
           Proc, Handler, Background, Results

(* A call of the client is pending only while its thread is in it. *)
THEOREM NoCallIsLeftPending == Spec => []PendingIsAwaited
<1>1. Init => PendingIsAwaited
    BY DEF Init, PendingIsAwaited
<1> QED
    BY <1>1, PendingStep, ShapeHolds, PTL DEF Spec

----------------------------------------------------------------------------
(* Places *)

(* What the steps do to the two queues. *)
LEMMA QueueSteps ==
    ASSUME Shape
    PROVE  /\ Put /\ ~Over => /\ Elements(requests') = Elements(requests) \cup {reader.m}
                              /\ Distinct(requests) /\ reader.m \notin Elements(requests) =>
                                    Distinct(requests')
           /\ Dispatch /\ ~Over => /\ cur'[Disp] \in Msg
                                   /\ Elements(requests) = Elements(requests') \cup {cur'[Disp]}
                                   /\ Distinct(requests) => /\ Distinct(requests')
                                                            /\ cur'[Disp] \notin Elements(requests')
           /\ Enqueue /\ ~QueryOver => /\ Elements(jobs') = Elements(jobs) \cup {cur[Disp]}
                                       /\ Distinct(jobs) /\ cur[Disp] \notin Elements(jobs) =>
                                             Distinct(jobs')
           /\ \A w \in Worker :
                 Fetch(w) /\ ~QueryOver => /\ cur'[w] \in Msg
                                           /\ Elements(jobs) = Elements(jobs') \cup {cur'[w]}
                                           /\ Distinct(jobs) => /\ Distinct(jobs')
                                                                /\ cur'[w] \notin Elements(jobs')
<1>1. /\ requests \in Seq(Msg) /\ jobs \in Seq(Msg) /\ cur \in [Proc -> Msg \cup {Nil}]
      /\ reader.op = "put" => reader.m \in Msg
      /\ pc[Disp] = "enqueue" => cur[Disp] \in Msg
    BY DEF Shape, TypeOK, ReaderOK, Control, AtRest, Proc, Handler, Background
<1>2. ASSUME Put, ~Over
      PROVE  /\ Elements(requests') = Elements(requests) \cup {reader.m}
             /\ Distinct(requests) /\ reader.m \notin Elements(requests) => Distinct(requests')
  <2>1. requests' = Append(requests, reader.m) /\ reader.m \in Msg
    BY <1>1, <1>2 DEF Put
  <2> QED
    BY <1>1, <2>1, Appended
<1>3. ASSUME Dispatch, ~Over
      PROVE  /\ cur'[Disp] \in Msg /\ Elements(requests) = Elements(requests') \cup {cur'[Disp]}
             /\ Distinct(requests) => Distinct(requests') /\ cur'[Disp] \notin Elements(requests')
  <2>1. requests # <<>> /\ requests' = Tail(requests) /\ cur'[Disp] = Head(requests)
    BY <1>1, <1>3 DEF Dispatch, Proc, Handler, Background
  <2> QED
    BY <1>1, <2>1, Taken_
<1>4. ASSUME Enqueue, ~QueryOver
      PROVE  /\ Elements(jobs') = Elements(jobs) \cup {cur[Disp]}
             /\ Distinct(jobs) /\ cur[Disp] \notin Elements(jobs) => Distinct(jobs')
  <2>1. jobs' = Append(jobs, cur[Disp]) /\ cur[Disp] \in Msg
    BY <1>1, <1>4 DEF Enqueue
  <2> QED
    BY <1>1, <2>1, Appended
<1>5. ASSUME NEW w \in Worker, Fetch(w), ~QueryOver
      PROVE  /\ cur'[w] \in Msg /\ Elements(jobs) = Elements(jobs') \cup {cur'[w]}
             /\ Distinct(jobs) => Distinct(jobs') /\ cur'[w] \notin Elements(jobs')
  <2>1. jobs # <<>> /\ jobs' = Tail(jobs) /\ cur'[w] = Head(jobs)
    BY <1>1, <1>5 DEF Fetch, Proc, Handler, Background
  <2> QED
    BY <1>1, <2>1, Taken_
<1> QED
    BY <1>2, <1>3, <1>4, <1>5

(* What the steps do to the queue of the writer. *)
LEMMA SentSteps ==
    ASSUME Shape
    PROVE  /\ Refuse => Sent' \subseteq Sent \cup {reader.m}
           /\ Write => Sent' = Sent
           /\ \A p \in Proc : Reply(p) => Sent' \subseteq Sent \cup {cur[p]}
           /\ \A p \in Proc : Send(p) => Sent' \subseteq Sent \cup {rev[p]}
<1>1. /\ outgoing \in Seq(Msg \cup Nat)
      /\ reader.op = "refuse" => reader.m \in Msg
      /\ \A p \in Proc : rev[p] \in Nat /\ (pc[p] = "reply" => cur[p] \in Msg)
    BY Handling DEF Shape, TypeOK, ReaderOK, AtRest, Calling_
<1>2. ASSUME NEW x \in Msg \cup Nat, outgoing' \in {outgoing, Append(outgoing, x)}, seen' = seen
      PROVE  Sent' \subseteq Sent \cup {x}
  <2>1. Elements(outgoing') \subseteq Elements(outgoing) \cup {x}
    <3>1. Elements(Append(outgoing, x)) = Elements(outgoing) \cup {x}
      BY <1>1, Appended
    <3> QED
      BY <1>2, <3>1
  <2> QED
    BY <1>2, <2>1 DEF Sent
<1>3. ASSUME Refuse PROVE Sent' \subseteq Sent \cup {reader.m}
    BY <1>1, <1>2, <1>3 DEF Refuse, Publish
<1>4. ASSUME Write PROVE Sent' = Sent
  <2>1. outgoing # <<>> /\ outgoing' = Tail(outgoing) /\ seen' = seen \cup {Head(outgoing)}
    BY <1>4 DEF Write
  <2>2. Elements(outgoing) = Elements(outgoing') \cup {Head(outgoing)}
    BY <1>1, <2>1, Taken_
  <2> QED
    BY <2>1, <2>2 DEF Sent
<1>5. ASSUME NEW p \in Proc, Reply(p) PROVE Sent' \subseteq Sent \cup {cur[p]}
    BY <1>1, <1>2, <1>5 DEF Reply, Publish, client
<1>6. ASSUME NEW p \in Proc, Send(p) PROVE Sent' \subseteq Sent \cup {rev[p]}
    BY <1>1, <1>2, <1>6 DEF Send, client
<1> QED
    BY <1>3, <1>4, <1>5, <1>6

(* Every step leaves every message in one place. *)
LEMMA OnePlaceStep == Shape /\ Places /\ [Next]_vars => OnePlace'
<1> SUFFICES ASSUME Shape, Places, [Next]_vars PROVE OnePlace'
    OBVIOUS
<1> USE ConnectionAssumption DEF Proc, Handler, Background, queues, scopes, client, rpc, threads
<1>a. /\ pc \in [Proc -> PC] /\ cur \in [Proc -> Msg \cup {Nil}]
      /\ Elements(requests) \subseteq Msg /\ Elements(jobs) \subseteq Msg
    BY ElementsIn DEF Shape, TypeOK
<1>b. OnePlace
    BY DEF Places
<1>c. \A p \in Proc : /\ pc[p] = "get" => cur[p] = Nil
                      /\ pc[p] \notin AtRest \cup Calling_ => cur[p] \in Msg
    BY Handling DEF Shape, Control
<1>1. ASSUME NEW i \in Id \cup {Nil}, NEW kind \in {"query", "shutdown", "exit"},
             Receive(i, kind)
      PROVE  OnePlace'
  <2>1. PICK m \in Msg : m = (CHOOSE x \in Unread : TRUE) /\ msg[m] = Nil
    BY <1>1 DEF Receive, Unread
  <2>2. UNCHANGED <<requests, jobs, cur>> /\ reader'.m = m
    BY <1>1, <2>1 DEF Receive
  <2>3. m \notin Queued /\ \A p \in Proc : cur[p] # m
    BY <2>1 DEF Places, Read, Known, Unanswered
  <2> QED
    BY <1>b, <2>2, <2>3 DEF OnePlace, Queued
<1>2. ASSUME NEW i \in Id, CancelRequest(i)
      PROVE  OnePlace'
    BY <1>a, <1>b, <1>2 DEF OnePlace, InHand, Idle, Queued, CancelRequest
<1>3. ASSUME EndOfInput
      PROVE  OnePlace'
    BY <1>a, <1>b, <1>3 DEF OnePlace, InHand, Idle, Queued, EndOfInput
<1>4. ASSUME NEW x \in {"connection", "process"}, End(x)
      PROVE  OnePlace'
    BY <1>a, <1>b, <1>4 DEF OnePlace, InHand, Idle, Queued, End
<1>5. ASSUME Put
      PROVE  OnePlace'
  <2>1. CASE Over
    <3>1. UNCHANGED <<requests, jobs, cur>> /\ InHand /\ reader'.m = reader.m
      BY <1>5, <2>1 DEF Put, InHand
    <3> QED
      BY <1>b, <3>1 DEF OnePlace, Queued
  <2>2. CASE ~Over
    <3>1. UNCHANGED <<jobs, cur>> /\ InHand /\ ~InHand'
      BY <1>5, <2>2 DEF Put, InHand, Idle
    <3>2. /\ Elements(requests') = Elements(requests) \cup {reader.m}
          /\ Distinct(requests) /\ reader.m \notin Elements(requests) => Distinct(requests')
      BY <1>5, <2>2, QueueSteps
    <3> QED
      BY <1>b, <3>1, <3>2 DEF OnePlace, Queued
  <2> QED
    BY <2>1, <2>2
<1>6. ASSUME Refuse
      PROVE  OnePlace'
    BY <1>a, <1>b, <1>6 DEF OnePlace, InHand, Idle, Queued, Refuse, Publish
<1>7. ASSUME Cancel
      PROVE  OnePlace'
    BY <1>a, <1>b, <1>7 DEF OnePlace, InHand, Idle, Queued, Cancel
<1>8. ASSUME Deliver
      PROVE  OnePlace'
    BY <1>a, <1>b, <1>8 DEF OnePlace, InHand, Idle, Queued, Deliver
<1>9. ASSUME NEW n \in 1 .. MaxCalls, ReceiveReply(n)
      PROVE  OnePlace'
    BY <1>a, <1>b, <1>9 DEF OnePlace, InHand, Idle, Queued, ReceiveReply
<1>10. ASSUME Write
      PROVE  OnePlace'
    BY <1>a, <1>b, <1>10 DEF OnePlace, InHand, Idle, Queued, Write
<1>11. ASSUME Dispatch
      PROVE  OnePlace'
  <2>1. /\ UNCHANGED <<jobs, reader>> /\ \A p \in Proc \ {Disp} : cur'[p] = cur[p]
        /\ pc[Disp] = "get" /\ (Over => UNCHANGED <<requests, cur>>)
    BY <1>a, <1>11 DEF Dispatch
  <2>2. CASE Over
    BY <1>b, <2>1, <2>2 DEF OnePlace, Queued, InHand
  <2>3. CASE ~Over
    <3>1. /\ cur'[Disp] \in Msg /\ Elements(requests) = Elements(requests') \cup {cur'[Disp]}
          /\ Distinct(requests) => Distinct(requests') /\ cur'[Disp] \notin Elements(requests')
      BY <1>11, <2>3, QueueSteps
    <3> QED
      BY <1>a, <1>b, <2>1, <3>1 DEF OnePlace, Queued, InHand
  <2> QED
    BY <2>2, <2>3
<1>12. ASSUME start_request
      PROVE  OnePlace'
    BY <1>a, <1>b, <1>12 DEF OnePlace, InHand, Idle, Queued, start_request, Goto
<1>13. ASSUME cancel_requests
      PROVE  OnePlace'
    BY <1>a, <1>b, <1>13 DEF OnePlace, InHand, Idle, Queued, cancel_requests, Goto
<1>14. ASSUME CancelNext
      PROVE  OnePlace'
    BY <1>a, <1>b, <1>14 DEF OnePlace, InHand, Idle, Queued, CancelNext, Goto
<1>15. ASSUME Enqueue
      PROVE  OnePlace'
  <2>1. /\ UNCHANGED <<requests, reader>> /\ \A p \in Proc \ {Disp} : cur'[p] = cur[p]
        /\ QueryOver => UNCHANGED <<jobs, cur>>
        /\ ~QueryOver => cur'[Disp] = Nil
        /\ cur[Disp] \in Msg
    BY <1>a, <1>c, <1>15 DEF Enqueue, AtRest, Calling_
  <2>2. CASE QueryOver
    BY <1>b, <2>1, <2>2 DEF OnePlace, Queued, InHand
  <2>3. CASE ~QueryOver
    <3>1. /\ Elements(jobs') = Elements(jobs) \cup {cur[Disp]}
          /\ Distinct(jobs) /\ cur[Disp] \notin Elements(jobs) => Distinct(jobs')
      BY <1>15, <2>3, QueueSteps
    <3>2. \A p \in Proc : cur'[p] \in {Nil, cur[p]} /\ (p = Disp => cur'[p] = Nil)
      BY <2>1, <2>3
    <3>3. \A p \in Proc : p # Disp => cur[p] # cur[Disp]
      BY <1>b, <2>1 DEF OnePlace
    <3>4. \A p \in Proc : cur'[p] \notin Elements(requests') \cup Elements(jobs')
      BY <1>a, <1>b, <2>1, <3>1, <3>2, <3>3 DEF OnePlace, Queued
    <3>5. \A p, q \in Proc : cur'[p] = cur'[q] /\ cur'[p] # Nil => p = q
      BY <1>b, <3>2 DEF OnePlace
    <3>6. InHand' => reader'.m \notin Queued' /\ \A p \in Proc : cur'[p] # reader'.m
      BY <1>a, <1>b, <2>1, <3>1, <3>2 DEF OnePlace, Queued, InHand, Shape, TypeOK, ReaderOK
    <3>7. Elements(requests') \cap Elements(jobs') = {} /\ Distinct(requests') /\ Distinct(jobs')
      BY <1>b, <2>1, <3>1 DEF OnePlace, Queued
    <3> QED
      BY <3>4, <3>5, <3>6, <3>7 DEF OnePlace, Queued
  <2> QED
    BY <2>2, <2>3
<1>16. ASSUME Join
      PROVE  OnePlace'
    BY <1>a, <1>b, <1>16 DEF OnePlace, InHand, Idle, Queued, Join, Goto
<1>17. ASSUME NEW outcome \in Results, Prepare(outcome)
      PROVE  OnePlace'
    BY <1>a, <1>b, <1>17 DEF OnePlace, InHand, Idle, Queued, Prepare, Goto
<1>18. ASSUME NEW x \in {"connection", "query"}, Finish(x)
      PROVE  OnePlace'
    BY <1>a, <1>b, <1>18 DEF OnePlace, InHand, Idle, Queued, Finish, Goto
<1>19. ASSUME NEW w \in Worker, Fetch(w)
      PROVE  OnePlace'
  <2>1. /\ UNCHANGED <<requests, reader>> /\ \A p \in Proc \ {w} : cur'[p] = cur[p]
        /\ QueryOver => UNCHANGED <<jobs, cur>>
    BY <1>a, <1>19 DEF Fetch
  <2>2. CASE QueryOver
    BY <1>b, <2>1, <2>2 DEF OnePlace, Queued, InHand
  <2>3. CASE ~QueryOver
    <3>1. /\ cur'[w] \in Msg /\ Elements(jobs) = Elements(jobs') \cup {cur'[w]}
          /\ Distinct(jobs) => Distinct(jobs') /\ cur'[w] \notin Elements(jobs')
      BY <1>19, <2>3, QueueSteps
    <3> QED
      BY <1>a, <1>b, <2>1, <3>1 DEF OnePlace, Queued, InHand
  <2> QED
    BY <2>2, <2>3
<1>20. ASSUME NEW w \in Worker, NEW outcome \in {"value", "error"}, Work(w, outcome)
      PROVE  OnePlace'
    BY <1>a, <1>b, <1>20 DEF OnePlace, InHand, Idle, Queued, Work, Goto
<1>21. ASSUME NEW p \in Proc, Judge(p)
      PROVE  OnePlace'
    BY <1>a, <1>b, <1>21 DEF OnePlace, InHand, Idle, Queued, Judge, After, Goto
<1>22. ASSUME NEW p \in Proc, Retire(p)
      PROVE  OnePlace'
    BY <1>a, <1>b, <1>22 DEF OnePlace, InHand, Idle, Queued, Retire, After, Goto
<1>23. ASSUME NEW p \in Proc, Reply(p)
      PROVE  OnePlace'
    BY <1>a, <1>b, <1>23 DEF OnePlace, InHand, Idle, Queued, Reply, Publish, After, Goto
<1>24. ASSUME NEW p \in Proc, Release(p)
      PROVE  OnePlace'
  <2>1. /\ UNCHANGED <<requests, jobs, reader>> /\ cur'[p] = Nil
        /\ \A q \in Proc \ {p} : cur'[q] = cur[q]
    BY <1>a, <1>24 DEF Release
  <2>2. Nil \notin Queued /\ (InHand => reader.m # Nil)
    BY <1>a DEF Queued, InHand, Shape, TypeOK, ReaderOK
  <2> QED
    BY <1>b, <2>1, <2>2 DEF OnePlace, Queued, InHand
<1>25. ASSUME NEW p \in Proc, Send(p)
      PROVE  OnePlace'
    BY <1>a, <1>b, <1>25 DEF OnePlace, InHand, Idle, Queued, Send, Goto
<1>26. ASSUME NEW p \in Proc, Await(p)
      PROVE  OnePlace'
    BY <1>a, <1>b, <1>26 DEF OnePlace, InHand, Idle, Queued, Await, Goto
<1>27. ASSUME NEW p \in Proc, Unlist(p)
      PROVE  OnePlace'
    BY <1>a, <1>b, <1>27 DEF OnePlace, InHand, Idle, Queued, Unlist, Unlisted, Outside, Goto
<1>28. ASSUME NEW p \in Proc, Call(p)
      PROVE  OnePlace'
    BY <1>a, <1>b, <1>28 DEF OnePlace, InHand, Idle, Queued, Call, Outside, Goto
<1>29. ASSUME Rest \/ UNCHANGED vars
      PROVE  OnePlace'
    BY <1>a, <1>b, <1>29 DEF OnePlace, InHand, Idle, Queued, Rest, vars
<1>30. ASSUME Close
      PROVE  OnePlace'
    BY <1>a, <1>b, <1>30 DEF OnePlace, InHand, Idle, Queued, Close, Goto
<1>31. ASSUME NEW p \in Background, Leave(p)
      PROVE  OnePlace'
    BY <1>a, <1>b, <1>31 DEF OnePlace, InHand, Idle, Queued, Leave, Goto
<1>32. ASSUME NEW p \in Proc, TimeOut(p)
      PROVE  OnePlace'
    BY <1>a, <1>b, <1>32 DEF OnePlace, InHand, Idle, Queued, TimeOut, Goto
<1> QED
    BY <1>1, <1>2, <1>3, <1>4, <1>5, <1>6, <1>7, <1>8, <1>9, <1>10, <1>11, <1>12, <1>13,
       <1>14, <1>15, <1>16, <1>17, <1>18, <1>19, <1>20, <1>21, <1>22, <1>23, <1>24, <1>25,
       <1>26, <1>27, <1>28, <1>29, <1>30, <1>31, <1>32
       DEF Next, Reading, Answering, Dispatching, Working, Completing, Calling, Thread,
           Proc, Handler, Background, Results

(* What is on its way after a step was so before, or was just read. *)
LEMMA WayStep ==
    Shape /\ Places /\ [Next]_vars =>
        Known \subseteq Known' /\ Unanswered' \subseteq Unanswered \cup (Known' \ Known)
<1> DEFINE Goal == Known \subseteq Known' /\ Unanswered' \subseteq Unanswered \cup (Known' \ Known)
<1> SUFFICES ASSUME Shape, Places, [Next]_vars PROVE Goal
    OBVIOUS
<1> USE ConnectionAssumption DEF Proc, Handler, Background, queues, scopes, client, rpc, threads
<1>a. /\ pc \in [Proc -> PC] /\ cur \in [Proc -> Msg \cup {Nil}] /\ msg \in [Msg -> Message \cup {Nil}]
    BY DEF Shape, TypeOK
<1>c. \A p \in Proc : pc[p] = "get" => cur[p] = Nil
    BY DEF Shape, Control
<1>d. ASSUME UNCHANGED <<msg, requests, jobs>>, InHand' => InHand /\ reader'.m = reader.m,
             \A p \in Proc : cur'[p] = cur[p] /\ (pc[p] = "release" => pc'[p] = "release")
      PROVE  Goal
    BY <1>d DEF Unanswered, Queued, Known
<1>1. ASSUME NEW i \in Id \cup {Nil}, NEW kind \in {"query", "shutdown", "exit"},
             Receive(i, kind)
      PROVE  Goal
  <2>1. PICK m \in Msg : m = (CHOOSE x \in Unread : TRUE) /\ msg[m] = Nil
    BY <1>1 DEF Receive, Unread
  <2>2. UNCHANGED <<requests, jobs, pc, cur>> /\ reader'.m = m /\ ~InHand
    BY <1>1, <2>1 DEF Receive, InHand, Idle
  <2>3. PICK e \in Message : msg' = [msg EXCEPT ![m] = e]
    BY <1>1, <2>1 DEF Receive, Message
  <2>4. Known' = Known \cup {m} /\ m \notin Known
    <3>1. msg'[m] # Nil /\ \A x \in Msg \ {m} : msg'[x] = msg[x]
      BY <1>a, <2>3
    <3> QED
      BY <2>1, <3>1 DEF Known
  <2> QED
    BY <2>2, <2>4 DEF Unanswered, Queued
<1>2. ASSUME NEW i \in Id, CancelRequest(i)
      PROVE  Goal
  <2>1. /\ UNCHANGED <<msg, requests, jobs>> /\ (InHand' => InHand /\ reader'.m = reader.m)
        /\ \A q \in Proc : cur'[q] = cur[q] /\ (pc[q] = "release" => pc'[q] = "release")
    BY <1>a, <1>2 DEF InHand, Idle, CancelRequest
  <2> QED
    BY <1>d, <2>1
<1>3. ASSUME EndOfInput
      PROVE  Goal
  <2>1. /\ UNCHANGED <<msg, requests, jobs>> /\ (InHand' => InHand /\ reader'.m = reader.m)
        /\ \A q \in Proc : cur'[q] = cur[q] /\ (pc[q] = "release" => pc'[q] = "release")
    BY <1>a, <1>3 DEF InHand, Idle, EndOfInput
  <2> QED
    BY <1>d, <2>1
<1>4. ASSUME NEW x \in {"connection", "process"}, End(x)
      PROVE  Goal
  <2>1. /\ UNCHANGED <<msg, requests, jobs>> /\ (InHand' => InHand /\ reader'.m = reader.m)
        /\ \A q \in Proc : cur'[q] = cur[q] /\ (pc[q] = "release" => pc'[q] = "release")
    BY <1>a, <1>4 DEF InHand, Idle, End
  <2> QED
    BY <1>d, <2>1
<1>5. ASSUME Put
      PROVE  Goal
  <2>1. CASE Over
    BY <1>5, <1>d, <2>1 DEF Put, InHand
  <2>2. CASE ~Over
    <3>1. UNCHANGED <<msg, jobs, cur, pc>> /\ InHand /\ ~InHand'
      BY <1>5, <2>2 DEF Put, InHand, Idle
    <3>2. Elements(requests') = Elements(requests) \cup {reader.m}
      BY <1>5, <2>2, QueueSteps
    <3> QED
      BY <3>1, <3>2 DEF Unanswered, Queued, Known
  <2> QED
    BY <2>1, <2>2
<1>6. ASSUME Refuse
      PROVE  Goal
  <2>1. /\ UNCHANGED <<msg, requests, jobs>> /\ (InHand' => InHand /\ reader'.m = reader.m)
        /\ \A q \in Proc : cur'[q] = cur[q] /\ (pc[q] = "release" => pc'[q] = "release")
    BY <1>a, <1>6 DEF InHand, Idle, Refuse, Publish
  <2> QED
    BY <1>d, <2>1
<1>7. ASSUME Cancel
      PROVE  Goal
  <2>1. /\ UNCHANGED <<msg, requests, jobs>> /\ (InHand' => InHand /\ reader'.m = reader.m)
        /\ \A q \in Proc : cur'[q] = cur[q] /\ (pc[q] = "release" => pc'[q] = "release")
    BY <1>a, <1>7 DEF InHand, Idle, Cancel
  <2> QED
    BY <1>d, <2>1
<1>8. ASSUME Deliver
      PROVE  Goal
  <2>1. /\ UNCHANGED <<msg, requests, jobs>> /\ (InHand' => InHand /\ reader'.m = reader.m)
        /\ \A q \in Proc : cur'[q] = cur[q] /\ (pc[q] = "release" => pc'[q] = "release")
    BY <1>a, <1>8 DEF InHand, Idle, Deliver
  <2> QED
    BY <1>d, <2>1
<1>9. ASSUME NEW n \in 1 .. MaxCalls, ReceiveReply(n)
      PROVE  Goal
  <2>1. /\ UNCHANGED <<msg, requests, jobs>> /\ (InHand' => InHand /\ reader'.m = reader.m)
        /\ \A q \in Proc : cur'[q] = cur[q] /\ (pc[q] = "release" => pc'[q] = "release")
    BY <1>a, <1>9 DEF InHand, Idle, ReceiveReply
  <2> QED
    BY <1>d, <2>1
<1>10. ASSUME Write
      PROVE  Goal
  <2>1. /\ UNCHANGED <<msg, requests, jobs>> /\ (InHand' => InHand /\ reader'.m = reader.m)
        /\ \A q \in Proc : cur'[q] = cur[q] /\ (pc[q] = "release" => pc'[q] = "release")
    BY <1>a, <1>10 DEF InHand, Idle, Write
  <2> QED
    BY <1>d, <2>1
<1>11. ASSUME Dispatch
      PROVE  Goal
  <2>1. /\ UNCHANGED <<msg, jobs, reader>> /\ pc[Disp] = "get"
        /\ \A q \in Proc \ {Disp} : cur'[q] = cur[q] /\ pc'[q] = pc[q]
    BY <1>a, <1>11 DEF Dispatch, Goto
  <2>2. CASE Over
    <3>1. UNCHANGED <<requests, cur>>
      BY <1>11, <2>2 DEF Dispatch
    <3> QED
      BY <1>c, <1>d, <2>1, <3>1 DEF InHand
  <2>3. CASE ~Over
    <3>1. Elements(requests) = Elements(requests') \cup {cur'[Disp]}
      BY <1>11, <2>3, QueueSteps
    <3> QED
      BY <2>1, <3>1 DEF Unanswered, Queued, Known, InHand
  <2> QED
    BY <2>2, <2>3
<1>12. ASSUME start_request
      PROVE  Goal
  <2>1. /\ UNCHANGED <<msg, requests, jobs>> /\ (InHand' => InHand /\ reader'.m = reader.m)
        /\ \A q \in Proc : cur'[q] = cur[q] /\ (pc[q] = "release" => pc'[q] = "release")
    BY <1>a, <1>12 DEF InHand, Idle, start_request, Goto
  <2> QED
    BY <1>d, <2>1
<1>13. ASSUME cancel_requests
      PROVE  Goal
  <2>1. /\ UNCHANGED <<msg, requests, jobs>> /\ (InHand' => InHand /\ reader'.m = reader.m)
        /\ \A q \in Proc : cur'[q] = cur[q] /\ (pc[q] = "release" => pc'[q] = "release")
    BY <1>a, <1>13 DEF InHand, Idle, cancel_requests, Goto
  <2> QED
    BY <1>d, <2>1
<1>14. ASSUME CancelNext
      PROVE  Goal
  <2>1. /\ UNCHANGED <<msg, requests, jobs>> /\ (InHand' => InHand /\ reader'.m = reader.m)
        /\ \A q \in Proc : cur'[q] = cur[q] /\ (pc[q] = "release" => pc'[q] = "release")
    BY <1>a, <1>14 DEF InHand, Idle, CancelNext, Goto
  <2> QED
    BY <1>d, <2>1
<1>15. ASSUME Enqueue
      PROVE  Goal
  <2>1. /\ UNCHANGED <<msg, requests, reader>> /\ pc[Disp] = "enqueue"
        /\ \A q \in Proc \ {Disp} : cur'[q] = cur[q] /\ pc'[q] = pc[q]
    BY <1>a, <1>15 DEF Enqueue, Goto
  <2>2. CASE QueryOver
    <3>1. UNCHANGED <<jobs, cur>>
      BY <1>15, <2>2 DEF Enqueue
    <3> QED
      BY <1>d, <2>1, <3>1 DEF InHand
  <2>3. CASE ~QueryOver
    <3>1. Elements(jobs') = Elements(jobs) \cup {cur[Disp]} /\ cur'[Disp] = Nil
      BY <1>a, <1>15, <2>3, QueueSteps DEF Enqueue
    <3>2. cur[Disp] \in Msg
      BY <2>1 DEF Shape, Control, AtRest
    <3> QED
      BY <2>1, <3>1, <3>2 DEF Unanswered, Queued, Known, InHand
  <2> QED
    BY <2>2, <2>3
<1>16. ASSUME Join
      PROVE  Goal
  <2>1. /\ UNCHANGED <<msg, requests, jobs>> /\ (InHand' => InHand /\ reader'.m = reader.m)
        /\ \A q \in Proc : cur'[q] = cur[q] /\ (pc[q] = "release" => pc'[q] = "release")
    BY <1>a, <1>16 DEF InHand, Idle, Join, Goto
  <2> QED
    BY <1>d, <2>1
<1>17. ASSUME NEW outcome \in Results, Prepare(outcome)
      PROVE  Goal
  <2>1. /\ UNCHANGED <<msg, requests, jobs>> /\ (InHand' => InHand /\ reader'.m = reader.m)
        /\ \A q \in Proc : cur'[q] = cur[q] /\ (pc[q] = "release" => pc'[q] = "release")
    BY <1>a, <1>17 DEF InHand, Idle, Prepare, Goto
  <2> QED
    BY <1>d, <2>1
<1>18. ASSUME NEW x \in {"connection", "query"}, Finish(x)
      PROVE  Goal
  <2>1. /\ UNCHANGED <<msg, requests, jobs>> /\ (InHand' => InHand /\ reader'.m = reader.m)
        /\ \A q \in Proc : cur'[q] = cur[q] /\ (pc[q] = "release" => pc'[q] = "release")
    BY <1>a, <1>18 DEF InHand, Idle, Finish, Goto
  <2> QED
    BY <1>d, <2>1
<1>19. ASSUME NEW w \in Worker, Fetch(w)
      PROVE  Goal
  <2>1. /\ UNCHANGED <<msg, requests, reader>> /\ pc[w] = "get"
        /\ \A q \in Proc \ {w} : cur'[q] = cur[q] /\ pc'[q] = pc[q]
    BY <1>a, <1>19 DEF Fetch, Goto
  <2>2. CASE QueryOver
    <3>1. UNCHANGED <<jobs, cur>>
      BY <1>19, <2>2 DEF Fetch
    <3> QED
      BY <1>c, <1>d, <2>1, <3>1 DEF InHand
  <2>3. CASE ~QueryOver
    <3>1. Elements(jobs) = Elements(jobs') \cup {cur'[w]}
      BY <1>19, <2>3, QueueSteps
    <3> QED
      BY <2>1, <3>1 DEF Unanswered, Queued, Known, InHand
  <2> QED
    BY <2>2, <2>3
<1>20. ASSUME NEW w \in Worker, NEW outcome \in {"value", "error"}, Work(w, outcome)
      PROVE  Goal
  <2>1. /\ UNCHANGED <<msg, requests, jobs>> /\ (InHand' => InHand /\ reader'.m = reader.m)
        /\ \A q \in Proc : cur'[q] = cur[q] /\ (pc[q] = "release" => pc'[q] = "release")
    BY <1>a, <1>20 DEF InHand, Idle, Work, Goto
  <2> QED
    BY <1>d, <2>1
<1>21. ASSUME NEW p \in Proc, Judge(p)
      PROVE  Goal
  <2>1. /\ UNCHANGED <<msg, requests, jobs>> /\ (InHand' => InHand /\ reader'.m = reader.m)
        /\ \A q \in Proc : cur'[q] = cur[q] /\ (pc[q] = "release" => pc'[q] = "release")
    BY <1>a, <1>21 DEF InHand, Idle, Judge, After, Goto
  <2> QED
    BY <1>d, <2>1
<1>22. ASSUME NEW p \in Proc, Retire(p)
      PROVE  Goal
  <2>1. /\ UNCHANGED <<msg, requests, jobs>> /\ (InHand' => InHand /\ reader'.m = reader.m)
        /\ \A q \in Proc : cur'[q] = cur[q] /\ (pc[q] = "release" => pc'[q] = "release")
    BY <1>a, <1>22 DEF InHand, Idle, Retire, After, Goto
  <2> QED
    BY <1>d, <2>1
<1>23. ASSUME NEW p \in Proc, Reply(p)
      PROVE  Goal
  <2>1. /\ UNCHANGED <<msg, requests, jobs>> /\ (InHand' => InHand /\ reader'.m = reader.m)
        /\ \A q \in Proc : cur'[q] = cur[q] /\ (pc[q] = "release" => pc'[q] = "release")
    BY <1>a, <1>23 DEF InHand, Idle, Reply, Publish, After, Goto
  <2> QED
    BY <1>d, <2>1
<1>24. ASSUME NEW p \in Proc, Release(p)
      PROVE  Goal
  <2>1. /\ UNCHANGED <<msg, requests, jobs, reader>> /\ cur'[p] = Nil
        /\ \A q \in Proc \ {p} : cur'[q] = cur[q] /\ pc'[q] = pc[q]
    BY <1>a, <1>24 DEF Release, Goto
  <2> QED
    BY <2>1 DEF Unanswered, Queued, Known, InHand
<1>25. ASSUME NEW p \in Proc, Send(p)
      PROVE  Goal
  <2>1. /\ UNCHANGED <<msg, requests, jobs>> /\ (InHand' => InHand /\ reader'.m = reader.m)
        /\ \A q \in Proc : cur'[q] = cur[q] /\ (pc[q] = "release" => pc'[q] = "release")
    BY <1>a, <1>25 DEF InHand, Idle, Send, Goto
  <2> QED
    BY <1>d, <2>1
<1>26. ASSUME NEW p \in Proc, Await(p)
      PROVE  Goal
  <2>1. /\ UNCHANGED <<msg, requests, jobs>> /\ (InHand' => InHand /\ reader'.m = reader.m)
        /\ \A q \in Proc : cur'[q] = cur[q] /\ (pc[q] = "release" => pc'[q] = "release")
    BY <1>a, <1>26 DEF InHand, Idle, Await, Goto
  <2> QED
    BY <1>d, <2>1
<1>27. ASSUME NEW p \in Proc, Unlist(p)
      PROVE  Goal
  <2>1. /\ UNCHANGED <<msg, requests, jobs>> /\ (InHand' => InHand /\ reader'.m = reader.m)
        /\ \A q \in Proc : cur'[q] = cur[q] /\ (pc[q] = "release" => pc'[q] = "release")
    BY <1>a, <1>27 DEF InHand, Idle, Unlist, Unlisted, Outside, Goto
  <2> QED
    BY <1>d, <2>1
<1>28. ASSUME NEW p \in Proc, Call(p)
      PROVE  Goal
  <2>1. /\ UNCHANGED <<msg, requests, jobs>> /\ (InHand' => InHand /\ reader'.m = reader.m)
        /\ \A q \in Proc : cur'[q] = cur[q] /\ (pc[q] = "release" => pc'[q] = "release")
    BY <1>a, <1>28 DEF InHand, Idle, Call, Outside, Goto
  <2> QED
    BY <1>d, <2>1
<1>29. ASSUME Rest \/ UNCHANGED vars
      PROVE  Goal
  <2>1. /\ UNCHANGED <<msg, requests, jobs>> /\ (InHand' => InHand /\ reader'.m = reader.m)
        /\ \A q \in Proc : cur'[q] = cur[q] /\ (pc[q] = "release" => pc'[q] = "release")
    BY <1>a, <1>29 DEF InHand, Idle, Rest, vars
  <2> QED
    BY <1>d, <2>1
<1>30. ASSUME Close
      PROVE  Goal
  <2>1. /\ UNCHANGED <<msg, requests, jobs>> /\ (InHand' => InHand /\ reader'.m = reader.m)
        /\ \A q \in Proc : cur'[q] = cur[q] /\ (pc[q] = "release" => pc'[q] = "release")
    BY <1>a, <1>30 DEF InHand, Idle, Close, Goto
  <2> QED
    BY <1>d, <2>1
<1>31. ASSUME NEW p \in Background, Leave(p)
      PROVE  Goal
  <2>1. /\ UNCHANGED <<msg, requests, jobs>> /\ (InHand' => InHand /\ reader'.m = reader.m)
        /\ \A q \in Proc : cur'[q] = cur[q] /\ (pc[q] = "release" => pc'[q] = "release")
    BY <1>a, <1>31 DEF InHand, Idle, Leave, Goto
  <2> QED
    BY <1>d, <2>1
<1>32. ASSUME NEW p \in Proc, TimeOut(p)
      PROVE  Goal
  <2>1. /\ UNCHANGED <<msg, requests, jobs>> /\ (InHand' => InHand /\ reader'.m = reader.m)
        /\ \A q \in Proc : cur'[q] = cur[q] /\ (pc[q] = "release" => pc'[q] = "release")
    BY <1>a, <1>32 DEF InHand, Idle, TimeOut, Goto
  <2> QED
    BY <1>d, <2>1
<1> QED
    BY <1>1, <1>2, <1>3, <1>4, <1>5, <1>6, <1>7, <1>8, <1>9, <1>10, <1>11, <1>12, <1>13,
       <1>14, <1>15, <1>16, <1>17, <1>18, <1>19, <1>20, <1>21, <1>22, <1>23, <1>24, <1>25,
       <1>26, <1>27, <1>28, <1>29, <1>30, <1>31, <1>32
       DEF Next, Reading, Answering, Dispatching, Working, Completing, Calling, Thread,
           Proc, Handler, Background, Results

(* Every step leaves what is somewhere among the messages that were read. *)
LEMMA ReadStep == Shape /\ Places /\ [Next]_vars => Read'
<1> SUFFICES ASSUME Shape, Places, [Next]_vars PROVE Read'
    OBVIOUS
<1> USE ConnectionAssumption DEF Proc, Handler, Background, queues, scopes, client, rpc, threads
<1>a. /\ cur \in [Proc -> Msg \cup {Nil}] /\ contexts \in [Id -> Msg \cup {Nil, "reserved"}]
      /\ ReaderOK /\ rev \in [Proc -> Nat] /\ todo \in SUBSET Msg
      /\ \A p \in Proc : pc[p] \notin AtRest \cup Calling_ => cur[p] \in Msg
    BY Handling DEF Shape, TypeOK
<1>b. /\ Known \subseteq Known' /\ Unanswered' \subseteq Known' /\ Unanswered \subseteq Known
      /\ Elements(requests) \subseteq Known /\ Elements(jobs) \subseteq Known
      /\ Sent \subseteq Known \cup Nat /\ canceled \subseteq Known /\ todo \subseteq Known
      /\ \A p \in Proc : cur[p] \in Known \cup {Nil}
      /\ \A i \in Id : contexts[i] \in Known \cup {Nil, "reserved"}
      /\ reader.op \in {"put", "refuse", "cancel"} => reader.m \in Known
    BY WayStep DEF Places, Read, Unanswered, Queued
<1>c. ASSUME Sent' \subseteq Known \cup Nat, canceled' \subseteq Known, todo' \subseteq Known,
             \A p \in Proc : cur'[p] \in Known \cup {Nil},
             \A i \in Id : contexts'[i] \in Known \cup {Nil, "reserved"},
             reader'.op \in {"put", "refuse", "cancel"} => reader'.m \in Known
      PROVE  Read'
    BY <1>b, <1>c DEF Read
<1>d. UNCHANGED <<outgoing, seen>> => Sent' = Sent
    BY DEF Sent
<1>1. ASSUME NEW i \in Id \cup {Nil}, NEW kind \in {"query", "shutdown", "exit"},
             Receive(i, kind)
      PROVE  Read'
  <2>1. PICK m \in Msg : m = (CHOOSE x \in Unread : TRUE)
    BY <1>1 DEF Receive, Unread
  <2>2. /\ UNCHANGED <<outgoing, seen, canceled, todo, cur>>
        /\ reader'.op \in {"refuse", "put"} /\ reader'.m = m
        /\ \A j \in Id : contexts'[j] \in {contexts[j], "reserved"}
    BY <1>a, <1>1, <2>1 DEF Receive
  <2>3. m \in Unanswered'
    BY <2>2 DEF Unanswered, InHand
  <2> QED
    BY <1>b, <1>d, <2>2, <2>3 DEF Read
<1>2. ASSUME NEW i \in Id, CancelRequest(i)
      PROVE  Read'
  <2>1. Sent' \subseteq Known \cup Nat
    BY <1>a, <1>b, <1>d, <1>2, SentSteps DEF ReaderOK, AtRest, CancelRequest
  <2>2. canceled' \subseteq Known /\ todo' \subseteq Known
    BY <1>a, <1>b, <1>2 DEF ReaderOK, AtRest, Others, CancelRequest
  <2>3. \A q \in Proc : cur'[q] \in Known \cup {Nil}
    BY <1>a, <1>b, <1>2, QueueSteps DEF AtRest, CancelRequest
  <2>4. \A j \in Id : contexts'[j] \in Known \cup {Nil, "reserved"}
    BY <1>a, <1>b, <1>2 DEF AtRest, CancelRequest
  <2>5. reader'.op \in {"put", "refuse", "cancel"} => reader'.m \in Known
    BY <1>a, <1>b, <1>2 DEF ReaderOK, Idle, CancelRequest
  <2> QED
    BY <1>c, <2>1, <2>2, <2>3, <2>4, <2>5
<1>3. ASSUME EndOfInput
      PROVE  Read'
  <2>1. Sent' \subseteq Known \cup Nat
    BY <1>a, <1>b, <1>d, <1>3, SentSteps DEF ReaderOK, AtRest, EndOfInput
  <2>2. canceled' \subseteq Known /\ todo' \subseteq Known
    BY <1>a, <1>b, <1>3 DEF ReaderOK, AtRest, Others, EndOfInput
  <2>3. \A q \in Proc : cur'[q] \in Known \cup {Nil}
    BY <1>a, <1>b, <1>3, QueueSteps DEF AtRest, EndOfInput
  <2>4. \A j \in Id : contexts'[j] \in Known \cup {Nil, "reserved"}
    BY <1>a, <1>b, <1>3 DEF AtRest, EndOfInput
  <2>5. reader'.op \in {"put", "refuse", "cancel"} => reader'.m \in Known
    BY <1>a, <1>b, <1>3 DEF ReaderOK, Idle, EndOfInput
  <2> QED
    BY <1>c, <2>1, <2>2, <2>3, <2>4, <2>5
<1>4. ASSUME NEW x \in {"connection", "process"}, End(x)
      PROVE  Read'
  <2>1. Sent' \subseteq Known \cup Nat
    BY <1>a, <1>b, <1>d, <1>4, SentSteps DEF ReaderOK, AtRest, End
  <2>2. canceled' \subseteq Known /\ todo' \subseteq Known
    BY <1>a, <1>b, <1>4 DEF ReaderOK, AtRest, Others, End
  <2>3. \A q \in Proc : cur'[q] \in Known \cup {Nil}
    BY <1>a, <1>b, <1>4, QueueSteps DEF AtRest, End
  <2>4. \A j \in Id : contexts'[j] \in Known \cup {Nil, "reserved"}
    BY <1>a, <1>b, <1>4 DEF AtRest, End
  <2>5. reader'.op \in {"put", "refuse", "cancel"} => reader'.m \in Known
    BY <1>a, <1>b, <1>4 DEF ReaderOK, Idle, End
  <2> QED
    BY <1>c, <2>1, <2>2, <2>3, <2>4, <2>5
<1>5. ASSUME Put
      PROVE  Read'
  <2>1. Sent' \subseteq Known \cup Nat
    BY <1>a, <1>b, <1>d, <1>5, SentSteps DEF ReaderOK, AtRest, Put
  <2>2. canceled' \subseteq Known /\ todo' \subseteq Known
    BY <1>a, <1>b, <1>5 DEF ReaderOK, AtRest, Others, Put
  <2>3. \A q \in Proc : cur'[q] \in Known \cup {Nil}
    BY <1>a, <1>b, <1>5, QueueSteps DEF AtRest, Put
  <2>4. \A j \in Id : contexts'[j] \in Known \cup {Nil, "reserved"}
    BY <1>a, <1>b, <1>5 DEF AtRest, Put
  <2>5. reader'.op \in {"put", "refuse", "cancel"} => reader'.m \in Known
    BY <1>a, <1>b, <1>5 DEF ReaderOK, Idle, Put
  <2> QED
    BY <1>c, <2>1, <2>2, <2>3, <2>4, <2>5
<1>6. ASSUME Refuse
      PROVE  Read'
  <2>1. Sent' \subseteq Known \cup Nat
    BY <1>a, <1>b, <1>d, <1>6, SentSteps DEF ReaderOK, AtRest, Refuse, Publish
  <2>2. canceled' \subseteq Known /\ todo' \subseteq Known
    BY <1>a, <1>b, <1>6 DEF ReaderOK, AtRest, Others, Refuse, Publish
  <2>3. \A q \in Proc : cur'[q] \in Known \cup {Nil}
    BY <1>a, <1>b, <1>6, QueueSteps DEF AtRest, Refuse, Publish
  <2>4. \A j \in Id : contexts'[j] \in Known \cup {Nil, "reserved"}
    BY <1>a, <1>b, <1>6 DEF AtRest, Refuse, Publish
  <2>5. reader'.op \in {"put", "refuse", "cancel"} => reader'.m \in Known
    BY <1>a, <1>b, <1>6 DEF ReaderOK, Idle, Refuse, Publish
  <2> QED
    BY <1>c, <2>1, <2>2, <2>3, <2>4, <2>5
<1>7. ASSUME Cancel
      PROVE  Read'
  <2>1. Sent' \subseteq Known \cup Nat
    BY <1>a, <1>b, <1>d, <1>7, SentSteps DEF ReaderOK, AtRest, Cancel
  <2>2. canceled' \subseteq Known /\ todo' \subseteq Known
    BY <1>a, <1>b, <1>7 DEF ReaderOK, AtRest, Others, Cancel
  <2>3. \A q \in Proc : cur'[q] \in Known \cup {Nil}
    BY <1>a, <1>b, <1>7, QueueSteps DEF AtRest, Cancel
  <2>4. \A j \in Id : contexts'[j] \in Known \cup {Nil, "reserved"}
    BY <1>a, <1>b, <1>7 DEF AtRest, Cancel
  <2>5. reader'.op \in {"put", "refuse", "cancel"} => reader'.m \in Known
    BY <1>a, <1>b, <1>7 DEF ReaderOK, Idle, Cancel
  <2> QED
    BY <1>c, <2>1, <2>2, <2>3, <2>4, <2>5
<1>8. ASSUME Deliver
      PROVE  Read'
  <2>1. Sent' \subseteq Known \cup Nat
    BY <1>a, <1>b, <1>d, <1>8, SentSteps DEF ReaderOK, AtRest, Deliver
  <2>2. canceled' \subseteq Known /\ todo' \subseteq Known
    BY <1>a, <1>b, <1>8 DEF ReaderOK, AtRest, Others, Deliver
  <2>3. \A q \in Proc : cur'[q] \in Known \cup {Nil}
    BY <1>a, <1>b, <1>8, QueueSteps DEF AtRest, Deliver
  <2>4. \A j \in Id : contexts'[j] \in Known \cup {Nil, "reserved"}
    BY <1>a, <1>b, <1>8 DEF AtRest, Deliver
  <2>5. reader'.op \in {"put", "refuse", "cancel"} => reader'.m \in Known
    BY <1>a, <1>b, <1>8 DEF ReaderOK, Idle, Deliver
  <2> QED
    BY <1>c, <2>1, <2>2, <2>3, <2>4, <2>5
<1>9. ASSUME NEW n \in 1 .. MaxCalls, ReceiveReply(n)
      PROVE  Read'
  <2>1. Sent' \subseteq Known \cup Nat
    BY <1>a, <1>b, <1>d, <1>9, SentSteps DEF ReaderOK, AtRest, ReceiveReply
  <2>2. canceled' \subseteq Known /\ todo' \subseteq Known
    BY <1>a, <1>b, <1>9 DEF ReaderOK, AtRest, Others, ReceiveReply
  <2>3. \A q \in Proc : cur'[q] \in Known \cup {Nil}
    BY <1>a, <1>b, <1>9, QueueSteps DEF AtRest, ReceiveReply
  <2>4. \A j \in Id : contexts'[j] \in Known \cup {Nil, "reserved"}
    BY <1>a, <1>b, <1>9 DEF AtRest, ReceiveReply
  <2>5. reader'.op \in {"put", "refuse", "cancel"} => reader'.m \in Known
    BY <1>a, <1>b, <1>9 DEF ReaderOK, Idle, ReceiveReply
  <2> QED
    BY <1>c, <2>1, <2>2, <2>3, <2>4, <2>5
<1>10. ASSUME Write
      PROVE  Read'
  <2>1. Sent' \subseteq Known \cup Nat
    BY <1>a, <1>b, <1>d, <1>10, SentSteps DEF ReaderOK, AtRest, Write
  <2>2. canceled' \subseteq Known /\ todo' \subseteq Known
    BY <1>a, <1>b, <1>10 DEF ReaderOK, AtRest, Others, Write
  <2>3. \A q \in Proc : cur'[q] \in Known \cup {Nil}
    BY <1>a, <1>b, <1>10, QueueSteps DEF AtRest, Write
  <2>4. \A j \in Id : contexts'[j] \in Known \cup {Nil, "reserved"}
    BY <1>a, <1>b, <1>10 DEF AtRest, Write
  <2>5. reader'.op \in {"put", "refuse", "cancel"} => reader'.m \in Known
    BY <1>a, <1>b, <1>10 DEF ReaderOK, Idle, Write
  <2> QED
    BY <1>c, <2>1, <2>2, <2>3, <2>4, <2>5
<1>11. ASSUME Dispatch
      PROVE  Read'
  <2>1. Sent' \subseteq Known \cup Nat
    BY <1>a, <1>b, <1>d, <1>11, SentSteps DEF ReaderOK, AtRest, Dispatch, Goto
  <2>2. canceled' \subseteq Known /\ todo' \subseteq Known
    BY <1>a, <1>b, <1>11 DEF ReaderOK, AtRest, Others, Dispatch, Goto
  <2>3. \A q \in Proc : cur'[q] \in Known \cup {Nil}
    BY <1>a, <1>b, <1>11, QueueSteps DEF AtRest, Dispatch, Goto
  <2>4. \A j \in Id : contexts'[j] \in Known \cup {Nil, "reserved"}
    BY <1>a, <1>b, <1>11 DEF AtRest, Dispatch, Goto
  <2>5. reader'.op \in {"put", "refuse", "cancel"} => reader'.m \in Known
    BY <1>a, <1>b, <1>11 DEF ReaderOK, Idle, Dispatch, Goto
  <2> QED
    BY <1>c, <2>1, <2>2, <2>3, <2>4, <2>5
<1>12. ASSUME start_request
      PROVE  Read'
  <2>1. Sent' \subseteq Known \cup Nat
    BY <1>a, <1>b, <1>d, <1>12, SentSteps DEF ReaderOK, AtRest, start_request, Goto
  <2>2. canceled' \subseteq Known /\ todo' \subseteq Known
    BY <1>a, <1>b, <1>12 DEF ReaderOK, AtRest, Others, start_request, Goto
  <2>3. \A q \in Proc : cur'[q] \in Known \cup {Nil}
    BY <1>a, <1>b, <1>12, QueueSteps DEF AtRest, start_request, Goto
  <2>4. \A j \in Id : contexts'[j] \in Known \cup {Nil, "reserved"}
    BY <1>a, <1>b, <1>12 DEF AtRest, start_request, Goto
  <2>5. reader'.op \in {"put", "refuse", "cancel"} => reader'.m \in Known
    BY <1>a, <1>b, <1>12 DEF ReaderOK, Idle, start_request, Goto
  <2> QED
    BY <1>c, <2>1, <2>2, <2>3, <2>4, <2>5
<1>13. ASSUME cancel_requests
      PROVE  Read'
  <2>1. Sent' \subseteq Known \cup Nat
    BY <1>a, <1>b, <1>d, <1>13, SentSteps DEF ReaderOK, AtRest, cancel_requests, Goto
  <2>2. canceled' \subseteq Known /\ todo' \subseteq Known
    BY <1>a, <1>b, <1>13 DEF ReaderOK, AtRest, Others, cancel_requests, Goto
  <2>3. \A q \in Proc : cur'[q] \in Known \cup {Nil}
    BY <1>a, <1>b, <1>13, QueueSteps DEF AtRest, cancel_requests, Goto
  <2>4. \A j \in Id : contexts'[j] \in Known \cup {Nil, "reserved"}
    BY <1>a, <1>b, <1>13 DEF AtRest, cancel_requests, Goto
  <2>5. reader'.op \in {"put", "refuse", "cancel"} => reader'.m \in Known
    BY <1>a, <1>b, <1>13 DEF ReaderOK, Idle, cancel_requests, Goto
  <2> QED
    BY <1>c, <2>1, <2>2, <2>3, <2>4, <2>5
<1>14. ASSUME CancelNext
      PROVE  Read'
  <2>1. Sent' \subseteq Known \cup Nat
    BY <1>a, <1>b, <1>d, <1>14, SentSteps DEF ReaderOK, AtRest, CancelNext, Goto
  <2>2. canceled' \subseteq Known /\ todo' \subseteq Known
    BY <1>a, <1>b, <1>14 DEF ReaderOK, AtRest, Others, CancelNext, Goto
  <2>3. \A q \in Proc : cur'[q] \in Known \cup {Nil}
    BY <1>a, <1>b, <1>14, QueueSteps DEF AtRest, CancelNext, Goto
  <2>4. \A j \in Id : contexts'[j] \in Known \cup {Nil, "reserved"}
    BY <1>a, <1>b, <1>14 DEF AtRest, CancelNext, Goto
  <2>5. reader'.op \in {"put", "refuse", "cancel"} => reader'.m \in Known
    BY <1>a, <1>b, <1>14 DEF ReaderOK, Idle, CancelNext, Goto
  <2> QED
    BY <1>c, <2>1, <2>2, <2>3, <2>4, <2>5
<1>15. ASSUME Enqueue
      PROVE  Read'
  <2>1. Sent' \subseteq Known \cup Nat
    BY <1>a, <1>b, <1>d, <1>15, SentSteps DEF ReaderOK, AtRest, Enqueue, Goto
  <2>2. canceled' \subseteq Known /\ todo' \subseteq Known
    BY <1>a, <1>b, <1>15 DEF ReaderOK, AtRest, Others, Enqueue, Goto
  <2>3. \A q \in Proc : cur'[q] \in Known \cup {Nil}
    BY <1>a, <1>b, <1>15, QueueSteps DEF AtRest, Enqueue, Goto
  <2>4. \A j \in Id : contexts'[j] \in Known \cup {Nil, "reserved"}
    BY <1>a, <1>b, <1>15 DEF AtRest, Enqueue, Goto
  <2>5. reader'.op \in {"put", "refuse", "cancel"} => reader'.m \in Known
    BY <1>a, <1>b, <1>15 DEF ReaderOK, Idle, Enqueue, Goto
  <2> QED
    BY <1>c, <2>1, <2>2, <2>3, <2>4, <2>5
<1>16. ASSUME Join
      PROVE  Read'
  <2>1. Sent' \subseteq Known \cup Nat
    BY <1>a, <1>b, <1>d, <1>16, SentSteps DEF ReaderOK, AtRest, Join, Goto
  <2>2. canceled' \subseteq Known /\ todo' \subseteq Known
    BY <1>a, <1>b, <1>16 DEF ReaderOK, AtRest, Others, Join, Goto
  <2>3. \A q \in Proc : cur'[q] \in Known \cup {Nil}
    BY <1>a, <1>b, <1>16, QueueSteps DEF AtRest, Join, Goto
  <2>4. \A j \in Id : contexts'[j] \in Known \cup {Nil, "reserved"}
    BY <1>a, <1>b, <1>16 DEF AtRest, Join, Goto
  <2>5. reader'.op \in {"put", "refuse", "cancel"} => reader'.m \in Known
    BY <1>a, <1>b, <1>16 DEF ReaderOK, Idle, Join, Goto
  <2> QED
    BY <1>c, <2>1, <2>2, <2>3, <2>4, <2>5
<1>17. ASSUME NEW outcome \in Results, Prepare(outcome)
      PROVE  Read'
  <2>1. Sent' \subseteq Known \cup Nat
    BY <1>a, <1>b, <1>d, <1>17, SentSteps DEF ReaderOK, AtRest, Prepare, Goto
  <2>2. canceled' \subseteq Known /\ todo' \subseteq Known
    BY <1>a, <1>b, <1>17 DEF ReaderOK, AtRest, Others, Prepare, Goto
  <2>3. \A q \in Proc : cur'[q] \in Known \cup {Nil}
    BY <1>a, <1>b, <1>17, QueueSteps DEF AtRest, Prepare, Goto
  <2>4. \A j \in Id : contexts'[j] \in Known \cup {Nil, "reserved"}
    BY <1>a, <1>b, <1>17 DEF AtRest, Prepare, Goto
  <2>5. reader'.op \in {"put", "refuse", "cancel"} => reader'.m \in Known
    BY <1>a, <1>b, <1>17 DEF ReaderOK, Idle, Prepare, Goto
  <2> QED
    BY <1>c, <2>1, <2>2, <2>3, <2>4, <2>5
<1>18. ASSUME NEW x \in {"connection", "query"}, Finish(x)
      PROVE  Read'
  <2>1. Sent' \subseteq Known \cup Nat
    BY <1>a, <1>b, <1>d, <1>18, SentSteps DEF ReaderOK, AtRest, Finish, Goto
  <2>2. canceled' \subseteq Known /\ todo' \subseteq Known
    BY <1>a, <1>b, <1>18 DEF ReaderOK, AtRest, Others, Finish, Goto
  <2>3. \A q \in Proc : cur'[q] \in Known \cup {Nil}
    BY <1>a, <1>b, <1>18, QueueSteps DEF AtRest, Finish, Goto
  <2>4. \A j \in Id : contexts'[j] \in Known \cup {Nil, "reserved"}
    BY <1>a, <1>b, <1>18 DEF AtRest, Finish, Goto
  <2>5. reader'.op \in {"put", "refuse", "cancel"} => reader'.m \in Known
    BY <1>a, <1>b, <1>18 DEF ReaderOK, Idle, Finish, Goto
  <2> QED
    BY <1>c, <2>1, <2>2, <2>3, <2>4, <2>5
<1>19. ASSUME NEW w \in Worker, Fetch(w)
      PROVE  Read'
  <2>1. Sent' \subseteq Known \cup Nat
    BY <1>a, <1>b, <1>d, <1>19, SentSteps DEF ReaderOK, AtRest, Fetch, Goto
  <2>2. canceled' \subseteq Known /\ todo' \subseteq Known
    BY <1>a, <1>b, <1>19 DEF ReaderOK, AtRest, Others, Fetch, Goto
  <2>3. \A q \in Proc : cur'[q] \in Known \cup {Nil}
    <3>1. ~QueryOver => cur'[w] \in Known
      BY <1>b, <1>19, QueueSteps
    <3>2. /\ QueryOver => cur' = cur
          /\ \A q \in Proc \ {w} : cur'[q] = cur[q]
      BY <1>a, <1>19 DEF Fetch
    <3> QED
      BY <1>b, <3>1, <3>2
  <2>4. \A j \in Id : contexts'[j] \in Known \cup {Nil, "reserved"}
    BY <1>a, <1>b, <1>19 DEF AtRest, Fetch, Goto
  <2>5. reader'.op \in {"put", "refuse", "cancel"} => reader'.m \in Known
    BY <1>a, <1>b, <1>19 DEF ReaderOK, Idle, Fetch, Goto
  <2> QED
    BY <1>c, <2>1, <2>2, <2>3, <2>4, <2>5
<1>20. ASSUME NEW w \in Worker, NEW outcome \in {"value", "error"}, Work(w, outcome)
      PROVE  Read'
  <2>1. Sent' \subseteq Known \cup Nat
    BY <1>a, <1>b, <1>d, <1>20, SentSteps DEF ReaderOK, AtRest, Work, Goto
  <2>2. canceled' \subseteq Known /\ todo' \subseteq Known
    BY <1>a, <1>b, <1>20 DEF ReaderOK, AtRest, Others, Work, Goto
  <2>3. \A q \in Proc : cur'[q] \in Known \cup {Nil}
    BY <1>a, <1>b, <1>20, QueueSteps DEF AtRest, Work, Goto
  <2>4. \A j \in Id : contexts'[j] \in Known \cup {Nil, "reserved"}
    BY <1>a, <1>b, <1>20 DEF AtRest, Work, Goto
  <2>5. reader'.op \in {"put", "refuse", "cancel"} => reader'.m \in Known
    BY <1>a, <1>b, <1>20 DEF ReaderOK, Idle, Work, Goto
  <2> QED
    BY <1>c, <2>1, <2>2, <2>3, <2>4, <2>5
<1>21. ASSUME NEW p \in Proc, Judge(p)
      PROVE  Read'
  <2>1. Sent' \subseteq Known \cup Nat
    BY <1>a, <1>b, <1>d, <1>21, SentSteps DEF ReaderOK, AtRest, Judge, After, Goto
  <2>2. canceled' \subseteq Known /\ todo' \subseteq Known
    BY <1>a, <1>b, <1>21 DEF ReaderOK, AtRest, Others, Judge, After, Goto
  <2>3. \A q \in Proc : cur'[q] \in Known \cup {Nil}
    BY <1>a, <1>b, <1>21, QueueSteps DEF AtRest, Judge, After, Goto
  <2>4. \A j \in Id : contexts'[j] \in Known \cup {Nil, "reserved"}
    BY <1>a, <1>b, <1>21 DEF AtRest, Judge, After, Goto
  <2>5. reader'.op \in {"put", "refuse", "cancel"} => reader'.m \in Known
    BY <1>a, <1>b, <1>21 DEF ReaderOK, Idle, Judge, After, Goto
  <2> QED
    BY <1>c, <2>1, <2>2, <2>3, <2>4, <2>5
<1>22. ASSUME NEW p \in Proc, Retire(p)
      PROVE  Read'
  <2>1. Sent' \subseteq Known \cup Nat
    BY <1>a, <1>b, <1>d, <1>22, SentSteps DEF ReaderOK, AtRest, Retire, After, Goto
  <2>2. canceled' \subseteq Known /\ todo' \subseteq Known
    BY <1>a, <1>b, <1>22 DEF ReaderOK, AtRest, Others, Retire, After, Goto
  <2>3. \A q \in Proc : cur'[q] \in Known \cup {Nil}
    BY <1>a, <1>b, <1>22, QueueSteps DEF AtRest, Retire, After, Goto
  <2>4. \A j \in Id : contexts'[j] \in Known \cup {Nil, "reserved"}
    BY <1>a, <1>b, <1>22 DEF AtRest, Retire, After, Goto
  <2>5. reader'.op \in {"put", "refuse", "cancel"} => reader'.m \in Known
    BY <1>a, <1>b, <1>22 DEF ReaderOK, Idle, Retire, After, Goto
  <2> QED
    BY <1>c, <2>1, <2>2, <2>3, <2>4, <2>5
<1>23. ASSUME NEW p \in Proc, Reply(p)
      PROVE  Read'
  <2>1. Sent' \subseteq Known \cup Nat
    <3>1. cur[p] \in Known /\ Sent' \subseteq Sent \cup {cur[p]}
      BY <1>a, <1>b, <1>23, SentSteps DEF Reply, AtRest, Calling_
    <3> QED
      BY <1>b, <3>1
  <2>2. UNCHANGED <<canceled, todo, cur, contexts, reader>>
    BY <1>23 DEF Reply
  <2> QED
    BY <1>b, <1>c, <2>1, <2>2
<1>24. ASSUME NEW p \in Proc, Release(p)
      PROVE  Read'
  <2>1. Sent' \subseteq Known \cup Nat
    BY <1>a, <1>b, <1>d, <1>24, SentSteps DEF ReaderOK, AtRest, Release, Own, Goto
  <2>2. canceled' \subseteq Known /\ todo' \subseteq Known
    BY <1>a, <1>b, <1>24 DEF ReaderOK, AtRest, Calling_, Others, Release, Own, Goto
  <2>3. \A q \in Proc : cur'[q] \in Known \cup {Nil}
    BY <1>a, <1>b, <1>24, QueueSteps DEF AtRest, Release, Own, Goto
  <2>4. \A j \in Id : contexts'[j] \in Known \cup {Nil, "reserved"}
    BY <1>a, <1>b, <1>24 DEF AtRest, Release, Own, Goto
  <2>5. reader'.op \in {"put", "refuse", "cancel"} => reader'.m \in Known
    BY <1>a, <1>b, <1>24 DEF ReaderOK, Idle, Release, Own, Goto
  <2> QED
    BY <1>c, <2>1, <2>2, <2>3, <2>4, <2>5
<1>25. ASSUME NEW p \in Proc, Send(p)
      PROVE  Read'
  <2>1. Sent' \subseteq Known \cup Nat
    BY <1>a, <1>b, <1>d, <1>25, SentSteps DEF ReaderOK, AtRest, Send, Goto
  <2>2. canceled' \subseteq Known /\ todo' \subseteq Known
    BY <1>a, <1>b, <1>25 DEF ReaderOK, AtRest, Others, Send, Goto
  <2>3. \A q \in Proc : cur'[q] \in Known \cup {Nil}
    BY <1>a, <1>b, <1>25, QueueSteps DEF AtRest, Send, Goto
  <2>4. \A j \in Id : contexts'[j] \in Known \cup {Nil, "reserved"}
    BY <1>a, <1>b, <1>25 DEF AtRest, Send, Goto
  <2>5. reader'.op \in {"put", "refuse", "cancel"} => reader'.m \in Known
    BY <1>a, <1>b, <1>25 DEF ReaderOK, Idle, Send, Goto
  <2> QED
    BY <1>c, <2>1, <2>2, <2>3, <2>4, <2>5
<1>26. ASSUME NEW p \in Proc, Await(p)
      PROVE  Read'
  <2>1. Sent' \subseteq Known \cup Nat
    BY <1>a, <1>b, <1>d, <1>26, SentSteps DEF ReaderOK, AtRest, Await, Goto
  <2>2. canceled' \subseteq Known /\ todo' \subseteq Known
    BY <1>a, <1>b, <1>26 DEF ReaderOK, AtRest, Others, Await, Goto
  <2>3. \A q \in Proc : cur'[q] \in Known \cup {Nil}
    BY <1>a, <1>b, <1>26, QueueSteps DEF AtRest, Await, Goto
  <2>4. \A j \in Id : contexts'[j] \in Known \cup {Nil, "reserved"}
    BY <1>a, <1>b, <1>26 DEF AtRest, Await, Goto
  <2>5. reader'.op \in {"put", "refuse", "cancel"} => reader'.m \in Known
    BY <1>a, <1>b, <1>26 DEF ReaderOK, Idle, Await, Goto
  <2> QED
    BY <1>c, <2>1, <2>2, <2>3, <2>4, <2>5
<1>27. ASSUME NEW p \in Proc, Unlist(p)
      PROVE  Read'
  <2>1. Sent' \subseteq Known \cup Nat
    BY <1>a, <1>b, <1>d, <1>27, SentSteps DEF ReaderOK, AtRest, Unlist, Unlisted, Outside, Goto
  <2>2. canceled' \subseteq Known /\ todo' \subseteq Known
    BY <1>a, <1>b, <1>27 DEF ReaderOK, AtRest, Others, Unlist, Unlisted, Outside, Goto
  <2>3. \A q \in Proc : cur'[q] \in Known \cup {Nil}
    BY <1>a, <1>b, <1>27, QueueSteps DEF AtRest, Unlist, Unlisted, Outside, Goto
  <2>4. \A j \in Id : contexts'[j] \in Known \cup {Nil, "reserved"}
    BY <1>a, <1>b, <1>27 DEF AtRest, Unlist, Unlisted, Outside, Goto
  <2>5. reader'.op \in {"put", "refuse", "cancel"} => reader'.m \in Known
    BY <1>a, <1>b, <1>27 DEF ReaderOK, Idle, Unlist, Unlisted, Outside, Goto
  <2> QED
    BY <1>c, <2>1, <2>2, <2>3, <2>4, <2>5
<1>28. ASSUME NEW p \in Proc, Call(p)
      PROVE  Read'
  <2>1. Sent' \subseteq Known \cup Nat
    BY <1>a, <1>b, <1>d, <1>28, SentSteps DEF ReaderOK, AtRest, Call, Outside, Goto
  <2>2. canceled' \subseteq Known /\ todo' \subseteq Known
    BY <1>a, <1>b, <1>28 DEF ReaderOK, AtRest, Others, Call, Outside, Goto
  <2>3. \A q \in Proc : cur'[q] \in Known \cup {Nil}
    BY <1>a, <1>b, <1>28, QueueSteps DEF AtRest, Call, Outside, Goto
  <2>4. \A j \in Id : contexts'[j] \in Known \cup {Nil, "reserved"}
    BY <1>a, <1>b, <1>28 DEF AtRest, Call, Outside, Goto
  <2>5. reader'.op \in {"put", "refuse", "cancel"} => reader'.m \in Known
    BY <1>a, <1>b, <1>28 DEF ReaderOK, Idle, Call, Outside, Goto
  <2> QED
    BY <1>c, <2>1, <2>2, <2>3, <2>4, <2>5
<1>29. ASSUME Rest \/ UNCHANGED vars
      PROVE  Read'
  <2>1. Sent' \subseteq Known \cup Nat
    BY <1>a, <1>b, <1>d, <1>29, SentSteps DEF ReaderOK, AtRest, Rest, vars
  <2>2. canceled' \subseteq Known /\ todo' \subseteq Known
    BY <1>a, <1>b, <1>29 DEF ReaderOK, AtRest, Others, Rest, vars
  <2>3. \A q \in Proc : cur'[q] \in Known \cup {Nil}
    BY <1>a, <1>b, <1>29, QueueSteps DEF AtRest, Rest, vars
  <2>4. \A j \in Id : contexts'[j] \in Known \cup {Nil, "reserved"}
    BY <1>a, <1>b, <1>29 DEF AtRest, Rest, vars
  <2>5. reader'.op \in {"put", "refuse", "cancel"} => reader'.m \in Known
    BY <1>a, <1>b, <1>29 DEF ReaderOK, Idle, Rest, vars
  <2> QED
    BY <1>c, <2>1, <2>2, <2>3, <2>4, <2>5
<1>30. ASSUME Close
      PROVE  Read'
  <2>1. Sent' \subseteq Known \cup Nat
    BY <1>a, <1>b, <1>d, <1>30, SentSteps DEF ReaderOK, AtRest, Close, Goto
  <2>2. canceled' \subseteq Known /\ todo' \subseteq Known
    BY <1>a, <1>b, <1>30 DEF ReaderOK, AtRest, Others, Close, Goto
  <2>3. \A q \in Proc : cur'[q] \in Known \cup {Nil}
    BY <1>a, <1>b, <1>30, QueueSteps DEF AtRest, Close, Goto
  <2>4. \A j \in Id : contexts'[j] \in Known \cup {Nil, "reserved"}
    BY <1>a, <1>b, <1>30 DEF AtRest, Close, Goto
  <2>5. reader'.op \in {"put", "refuse", "cancel"} => reader'.m \in Known
    BY <1>a, <1>b, <1>30 DEF ReaderOK, Idle, Close, Goto
  <2> QED
    BY <1>c, <2>1, <2>2, <2>3, <2>4, <2>5
<1>31. ASSUME NEW p \in Background, Leave(p)
      PROVE  Read'
  <2>1. Sent' \subseteq Known \cup Nat
    BY <1>a, <1>b, <1>d, <1>31, SentSteps DEF ReaderOK, AtRest, Leave, Goto
  <2>2. canceled' \subseteq Known /\ todo' \subseteq Known
    BY <1>a, <1>b, <1>31 DEF ReaderOK, AtRest, Others, Leave, Goto
  <2>3. \A q \in Proc : cur'[q] \in Known \cup {Nil}
    BY <1>a, <1>b, <1>31, QueueSteps DEF AtRest, Leave, Goto
  <2>4. \A j \in Id : contexts'[j] \in Known \cup {Nil, "reserved"}
    BY <1>a, <1>b, <1>31 DEF AtRest, Leave, Goto
  <2>5. reader'.op \in {"put", "refuse", "cancel"} => reader'.m \in Known
    BY <1>a, <1>b, <1>31 DEF ReaderOK, Idle, Leave, Goto
  <2> QED
    BY <1>c, <2>1, <2>2, <2>3, <2>4, <2>5
<1>32. ASSUME NEW p \in Proc, TimeOut(p)
      PROVE  Read'
  <2>1. Sent' \subseteq Known \cup Nat
    BY <1>a, <1>b, <1>d, <1>32, SentSteps DEF ReaderOK, AtRest, TimeOut, Goto
  <2>2. canceled' \subseteq Known /\ todo' \subseteq Known
    BY <1>a, <1>b, <1>32 DEF ReaderOK, AtRest, Others, TimeOut, Goto
  <2>3. \A q \in Proc : cur'[q] \in Known \cup {Nil}
    BY <1>a, <1>b, <1>32, QueueSteps DEF AtRest, TimeOut, Goto
  <2>4. \A j \in Id : contexts'[j] \in Known \cup {Nil, "reserved"}
    BY <1>a, <1>b, <1>32 DEF AtRest, TimeOut, Goto
  <2>5. reader'.op \in {"put", "refuse", "cancel"} => reader'.m \in Known
    BY <1>a, <1>b, <1>32 DEF ReaderOK, Idle, TimeOut, Goto
  <2> QED
    BY <1>c, <2>1, <2>2, <2>3, <2>4, <2>5
<1> QED
    BY <1>1, <1>2, <1>3, <1>4, <1>5, <1>6, <1>7, <1>8, <1>9, <1>10, <1>11, <1>12, <1>13,
       <1>14, <1>15, <1>16, <1>17, <1>18, <1>19, <1>20, <1>21, <1>22, <1>23, <1>24, <1>25,
       <1>26, <1>27, <1>28, <1>29, <1>30, <1>31, <1>32
       DEF Next, Reading, Answering, Dispatching, Working, Completing, Calling, Thread,
           Proc, Handler, Background, Results

(* Every step leaves what is on its way unanswered. *)
LEMMA OnTheWayStep == Shape /\ Places /\ [Next]_vars => OnTheWay'
<1> SUFFICES ASSUME Shape, Places, [Next]_vars PROVE OnTheWay'
    OBVIOUS
<1> USE ConnectionAssumption DEF Proc, Handler, Background, queues, scopes, client, rpc, threads
<1>a. /\ Unanswered' \subseteq Unanswered \cup (Known' \ Known) /\ Sent \subseteq Known \cup Nat
      /\ Unanswered \cap Sent = {} /\ OnePlace' /\ Read'
    BY WayStep, OnePlaceStep, ReadStep DEF Places, OnTheWay, Read
<1>b. Known' \subseteq Msg /\ Known' \cap Nat = {}
    BY DEF Known
<1>c. ASSUME Sent' \subseteq Sent PROVE OnTheWay'
    BY <1>a, <1>b, <1>c DEF OnTheWay
<1>d. ASSUME NEW x, Sent' \subseteq Sent \cup {x}, x \notin Unanswered' PROVE OnTheWay'
    BY <1>a, <1>b, <1>d DEF OnTheWay
<1>e. UNCHANGED <<outgoing, seen>> => Sent' = Sent
    BY DEF Sent
<1>f. pc \in [Proc -> PC] /\ rev \in [Proc -> Nat]
      /\ \A p \in Proc : pc[p] \notin AtRest \cup Calling_ => cur[p] \in Msg
    BY Handling DEF Shape, TypeOK
<1>1. ASSUME NEW i \in Id \cup {Nil}, NEW kind \in {"query", "shutdown", "exit"},
             Receive(i, kind)
      PROVE  OnTheWay'
    BY <1>c, <1>e, <1>1 DEF Receive
<1>2. ASSUME NEW i \in Id, CancelRequest(i)
      PROVE  OnTheWay'
    BY <1>c, <1>e, <1>2 DEF CancelRequest
<1>3. ASSUME EndOfInput
      PROVE  OnTheWay'
    BY <1>c, <1>e, <1>3 DEF EndOfInput
<1>4. ASSUME NEW x \in {"connection", "process"}, End(x)
      PROVE  OnTheWay'
    BY <1>c, <1>e, <1>4 DEF End
<1>5. ASSUME Put
      PROVE  OnTheWay'
    BY <1>c, <1>e, <1>5 DEF Put
<1>6. ASSUME Refuse
      PROVE  OnTheWay'
  <2>1. /\ reader.op = "refuse" /\ ~InHand' /\ InHand /\ UNCHANGED <<requests, jobs, pc, cur>>
    BY <1>6 DEF Refuse, InHand, Idle
  <2>2. reader.m \notin Unanswered'
    BY <2>1 DEF Places, OnePlace, Unanswered, Queued
  <2> QED
    BY <1>d, <1>6, <2>2, SentSteps
<1>7. ASSUME Cancel
      PROVE  OnTheWay'
    BY <1>c, <1>e, <1>7 DEF Cancel
<1>8. ASSUME Deliver
      PROVE  OnTheWay'
    BY <1>c, <1>e, <1>8 DEF Deliver
<1>9. ASSUME NEW n \in 1 .. MaxCalls, ReceiveReply(n)
      PROVE  OnTheWay'
    BY <1>c, <1>e, <1>9 DEF ReceiveReply
<1>10. ASSUME Write
      PROVE  OnTheWay'
    BY <1>c, <1>10, SentSteps
<1>11. ASSUME Dispatch
      PROVE  OnTheWay'
    BY <1>c, <1>e, <1>11 DEF Dispatch, Goto
<1>12. ASSUME start_request
      PROVE  OnTheWay'
    BY <1>c, <1>e, <1>12 DEF start_request, Goto
<1>13. ASSUME cancel_requests
      PROVE  OnTheWay'
    BY <1>c, <1>e, <1>13 DEF cancel_requests, Goto
<1>14. ASSUME CancelNext
      PROVE  OnTheWay'
    BY <1>c, <1>e, <1>14 DEF CancelNext, Goto
<1>15. ASSUME Enqueue
      PROVE  OnTheWay'
    BY <1>c, <1>e, <1>15 DEF Enqueue, Goto
<1>16. ASSUME Join
      PROVE  OnTheWay'
    BY <1>c, <1>e, <1>16 DEF Join, Goto
<1>17. ASSUME NEW outcome \in Results, Prepare(outcome)
      PROVE  OnTheWay'
    BY <1>c, <1>e, <1>17 DEF Prepare, Goto
<1>18. ASSUME NEW x \in {"connection", "query"}, Finish(x)
      PROVE  OnTheWay'
    BY <1>c, <1>e, <1>18 DEF Finish, Goto
<1>19. ASSUME NEW w \in Worker, Fetch(w)
      PROVE  OnTheWay'
    BY <1>c, <1>e, <1>19 DEF Fetch, Goto
<1>20. ASSUME NEW w \in Worker, NEW outcome \in {"value", "error"}, Work(w, outcome)
      PROVE  OnTheWay'
    BY <1>c, <1>e, <1>20 DEF Work, Goto
<1>21. ASSUME NEW p \in Proc, Judge(p)
      PROVE  OnTheWay'
    BY <1>c, <1>e, <1>21 DEF Judge, After, Goto
<1>22. ASSUME NEW p \in Proc, Retire(p)
      PROVE  OnTheWay'
    BY <1>c, <1>e, <1>22 DEF Retire, After, Goto
<1>23. ASSUME NEW p \in Proc, Reply(p)
      PROVE  OnTheWay'
  <2>1. /\ pc'[p] = "release" /\ UNCHANGED <<requests, jobs, cur, reader>> /\ cur[p] \in Msg
    BY <1>f, <1>23 DEF Reply, After, Goto, AtRest, Calling_
  <2>2. cur[p] \notin Unanswered'
    BY <1>a, <2>1 DEF OnePlace, Unanswered, Queued
  <2> QED
    BY <1>d, <1>23, <2>2, SentSteps
<1>24. ASSUME NEW p \in Proc, Release(p)
      PROVE  OnTheWay'
    BY <1>c, <1>e, <1>24 DEF Release, Own, Goto
<1>25. ASSUME NEW p \in Proc, Send(p)
      PROVE  OnTheWay'
  <2>1. rev[p] \notin Unanswered'
    BY <1>a, <1>b, <1>f DEF Read
  <2> QED
    BY <1>d, <1>25, <2>1, SentSteps
<1>26. ASSUME NEW p \in Proc, Await(p)
      PROVE  OnTheWay'
    BY <1>c, <1>e, <1>26 DEF Await, Goto
<1>27. ASSUME NEW p \in Proc, Unlist(p)
      PROVE  OnTheWay'
    BY <1>c, <1>e, <1>27 DEF Unlist, Unlisted, Outside, Goto
<1>28. ASSUME NEW p \in Proc, Call(p)
      PROVE  OnTheWay'
    BY <1>c, <1>e, <1>28 DEF Call, Outside, Goto
<1>29. ASSUME Rest \/ UNCHANGED vars
      PROVE  OnTheWay'
    BY <1>c, <1>e, <1>29 DEF Rest, vars
<1>30. ASSUME Close
      PROVE  OnTheWay'
    BY <1>c, <1>e, <1>30 DEF Close, Goto
<1>31. ASSUME NEW p \in Background, Leave(p)
      PROVE  OnTheWay'
    BY <1>c, <1>e, <1>31 DEF Leave, Goto
<1>32. ASSUME NEW p \in Proc, TimeOut(p)
      PROVE  OnTheWay'
    BY <1>c, <1>e, <1>32 DEF TimeOut, Goto
<1> QED
    BY <1>1, <1>2, <1>3, <1>4, <1>5, <1>6, <1>7, <1>8, <1>9, <1>10, <1>11, <1>12, <1>13,
       <1>14, <1>15, <1>16, <1>17, <1>18, <1>19, <1>20, <1>21, <1>22, <1>23, <1>24, <1>25,
       <1>26, <1>27, <1>28, <1>29, <1>30, <1>31, <1>32
       DEF Next, Reading, Answering, Dispatching, Working, Completing, Calling, Thread,
           Proc, Handler, Background, Results

(* Every step keeps the places. *)
LEMMA PlacesStep == Shape /\ Places /\ [Next]_vars => Places'
BY OnePlaceStep, ReadStep, OnTheWayStep DEF Places

(* Initially nothing was read. *)
LEMMA InitPlaces == Init => Places
BY NoElements, ConnectionAssumption
   DEF Init, Places, OnePlace, Read, OnTheWay, Unanswered, Queued, Sent, Known, InHand, Idle

----------------------------------------------------------------------------
(* IdsAgree *)

NotRunning == {"get", "start", "reply", "release"}
WaitingFor(i) == {m \in Waiting : msg[m].id = i}
RunningFor(i) == {m \in Running \ {Nil} : msg[m].id = i}
IdAgrees(i) ==
    /\ contexts[i] = Nil => WaitingFor(i) = {} /\ RunningFor(i) = {}
    /\ contexts[i] = "reserved" => RunningFor(i) = {} /\ \E m \in Msg : WaitingFor(i) = {m}
    /\ contexts[i] \in Msg => RunningFor(i) = {contexts[i]} /\ WaitingFor(i) = {}
Ids == \A i \in Id : IdAgrees(i)

(* What waits or runs is on its way. *)
LEMMA RunningIsKnown ==
    Shape /\ Places => /\ Waiting \subseteq Unanswered /\ Running \ {Nil} \subseteq Unanswered
                       /\ Unanswered \subseteq Known /\ Known \subseteq Msg
<1> SUFFICES ASSUME Shape, Places
             PROVE  /\ Waiting \subseteq Unanswered /\ Running \ {Nil} \subseteq Unanswered
                    /\ Unanswered \subseteq Known /\ Known \subseteq Msg
    OBVIOUS
<1>1. Waiting \subseteq Unanswered
    BY ConnectionAssumption
       DEF Waiting, Unanswered, Queued, InHand, Shape, Control, AtRest, Proc, Handler, Background
<1>2. Running \ {Nil} \subseteq Unanswered
    BY DEF Running, Unanswered, Queued
<1> QED
    BY <1>1, <1>2 DEF Places, Read, Known

(* The IDs agree with sets of requests; as a size, for one that waits. *)
LEMMA IdsAgreed == Shape /\ Ids => IdsAgree
<1> SUFFICES ASSUME Shape, Ids, NEW i \in Id
             PROVE  IF contexts[i] = Nil THEN WaitingFor(i) \cup RunningFor(i) = {}
                    ELSE IF contexts[i] = "reserved"
                           THEN RunningFor(i) = {} /\ Cardinality(WaitingFor(i)) = 1
                    ELSE RunningFor(i) = {contexts[i]} /\ WaitingFor(i) = {}
    BY DEF IdsAgree, WaitingFor, RunningFor
<1>1. IdAgrees(i) /\ contexts[i] \in Msg \cup {Nil, "reserved"}
    BY DEF Ids, Shape, TypeOK
<1>2. \A m \in Msg : Cardinality({m}) = 1
    BY FS_Singleton
<1> QED
    BY <1>1, <1>2, ConnectionAssumption DEF IdAgrees

(* A step that leaves the requests where they wait and run. *)
LEMMA IdsSame ==
    ASSUME Shape, Places, Ids, contexts' = contexts, \A m \in Known : msg'[m].id = msg[m].id,
           Waiting' = Waiting, Running' \ {Nil} = Running \ {Nil}
    PROVE  Ids'
<1>1. Waiting \subseteq Known /\ Running \ {Nil} \subseteq Known
    BY RunningIsKnown
<1>2. \A i \in Id : WaitingFor(i)' = WaitingFor(i) /\ RunningFor(i)' = RunningFor(i)
    BY <1>1 DEF WaitingFor, RunningFor
<1> QED
    BY <1>2 DEF Ids, IdAgrees

(* A step that moves one message, and what it must do to the ID of it. *)
LEMMA IdsMoved ==
    ASSUME Shape, Places, Ids, NEW x \in Msg, UNCHANGED msg,
           \A m \in Msg \ {x} : /\ m \in Waiting' <=> m \in Waiting
                                /\ m \in Running' <=> m \in Running,
           Waiting' \subseteq Msg, Running' \ {Nil} \subseteq Msg,
           \A i \in Id \ {msg[x].id} : contexts'[i] = contexts[i],
           msg[x].id \in Id => IdAgrees(msg[x].id)'
    PROVE  Ids'
<1>1. Waiting \subseteq Msg /\ Running \ {Nil} \subseteq Msg
    BY RunningIsKnown
<1>2. ASSUME NEW i \in Id, i # msg[x].id PROVE IdAgrees(i)'
  <2>1. WaitingFor(i)' = WaitingFor(i)
    BY <1>1, <1>2 DEF WaitingFor
  <2>2. RunningFor(i)' = RunningFor(i)
    BY <1>1, <1>2 DEF RunningFor
  <2> QED
    BY <1>2, <2>1, <2>2 DEF Ids, IdAgrees
<1> QED
    BY <1>2 DEF Ids

(* Every step keeps the contexts and the requests in agreement. *)
LEMMA IdsStep == Shape /\ Places /\ Ids /\ [Next]_vars => Ids'
<1> SUFFICES ASSUME Shape, Places, Ids, [Next]_vars PROVE Ids'
    OBVIOUS
<1> USE ConnectionAssumption DEF Proc, Handler, Background, queues, scopes, client, rpc, threads
<1>a. /\ pc \in [Proc -> PC] /\ cur \in [Proc -> Msg \cup {Nil}]
      /\ contexts \in [Id -> Msg \cup {Nil, "reserved"}]
      /\ Elements(requests) \subseteq Msg /\ Elements(jobs) \subseteq Msg
    BY ElementsIn DEF Shape, TypeOK
<1>b. /\ Shape /\ Places /\ Ids /\ OnePlace /\ OnePlace' /\ Shape'
    BY OnePlaceStep, ShapeStep DEF Places
<1>c. \A p \in Proc : /\ pc[p] = "get" => cur[p] = Nil
                      /\ pc[p] \notin AtRest \cup Calling_ => cur[p] \in Msg
    BY Handling DEF Shape, Control
<1>d. ASSUME UNCHANGED <<msg, contexts, requests, jobs, cur>>,
             reader'.op = "put" <=> reader.op = "put", reader.op = "put" => reader' = reader,
             pc'[Disp] = "start" <=> pc[Disp] = "start",
             \A p \in Proc : cur[p] # Nil => (pc'[p] \in NotRunning <=> pc[p] \in NotRunning)
      PROVE  Ids'
  <2>1. Waiting' = Waiting
    BY <1>d DEF Waiting
  <2>2. Running' \ {Nil} = Running \ {Nil}
    BY <1>d DEF Running, NotRunning
  <2> QED
    BY <1>b, <1>d, <2>1, <2>2, IdsSame
<1>e. /\ Waiting \subseteq Msg /\ Running \ {Nil} \subseteq Msg
    BY <1>b, RunningIsKnown
<1>1. ASSUME NEW i \in Id \cup {Nil}, NEW kind \in {"query", "shutdown", "exit"},
             Receive(i, kind)
      PROVE  Ids'
  <2>1. PICK m \in Msg : m = (CHOOSE x \in Unread : TRUE) /\ msg[m] = Nil
    BY <1>1 DEF Receive, Unread
  <2>2. /\ UNCHANGED <<requests, jobs, cur, pc>> /\ reader.op = "read" /\ reader'.m = m
        /\ msg' = [msg EXCEPT ![m] = [id |-> i, kind |-> kind]]
        /\ \/ reader'.op = "refuse" /\ contexts' = contexts
           \/ reader'.op = "put" /\ i = Nil /\ contexts' = contexts
           \/ /\ reader'.op = "put" /\ i \in Id /\ contexts[i] = Nil
              /\ contexts' = [contexts EXCEPT ![i] = "reserved"]
    BY <1>1, <2>1 DEF Receive, Idle, Taken
  <2>3. msg'[m].id = i /\ m \notin Known /\ \A x \in Known : msg'[x] = msg[x]
    BY <2>1, <2>2, ZenonT(90) DEF Known, Shape, TypeOK
  <2>4. Running' = Running /\ Waiting' = Waiting \cup (IF reader'.op = "put" THEN {m} ELSE {})
    BY <2>2 DEF Running, Waiting
  <2>5. Waiting \subseteq Known /\ Running \ {Nil} \subseteq Known
    BY <1>b, RunningIsKnown
  <2>6. ASSUME NEW j \in Id
        PROVE  /\ RunningFor(j)' = RunningFor(j)
               /\ WaitingFor(j)' = WaitingFor(j) \cup
                                      (IF reader'.op = "put" /\ i = j THEN {m} ELSE {})
    BY <2>3, <2>4, <2>5 DEF RunningFor, WaitingFor
  <2>7. ASSUME NEW j \in Id, ~(reader'.op = "put" /\ i = j) PROVE IdAgrees(j)'
    <3>1. contexts'[j] = contexts[j]
      BY <1>a, <2>2, <2>7
    <3> QED
      BY <2>6, <2>7, <3>1 DEF Ids, IdAgrees
  <2>8. ASSUME i \in Id, reader'.op = "put" PROVE IdAgrees(i)'
    <3>1. contexts[i] = Nil /\ contexts'[i] = "reserved"
      BY <1>a, <2>2, <2>8
    <3>2. WaitingFor(i) = {} /\ RunningFor(i) = {}
      BY <2>8, <3>1 DEF Ids, IdAgrees
    <3>3. WaitingFor(i)' = {m} /\ RunningFor(i)' = {}
      BY <2>6, <2>8, <3>2
    <3> QED
      BY <3>1, <3>3 DEF IdAgrees
  <2> QED
    BY <2>7, <2>8 DEF Ids
<1>2. ASSUME NEW i \in Id, CancelRequest(i)
      PROVE  Ids'
  <2>1. /\ UNCHANGED <<msg, contexts, requests, jobs, cur>>
        /\ reader'.op = "put" <=> reader.op = "put"
        /\ reader.op = "put" => reader' = reader
        /\ pc'[Disp] = "start" <=> pc[Disp] = "start"
        /\ \A q \in Proc : pc'[q] \in NotRunning <=> pc[q] \in NotRunning
    BY <1>a, <1>2 DEF NotRunning, Idle, CancelRequest
  <2> QED
    BY <1>d, <2>1
<1>3. ASSUME EndOfInput
      PROVE  Ids'
  <2>1. /\ UNCHANGED <<msg, contexts, requests, jobs, cur>>
        /\ reader'.op = "put" <=> reader.op = "put"
        /\ reader.op = "put" => reader' = reader
        /\ pc'[Disp] = "start" <=> pc[Disp] = "start"
        /\ \A q \in Proc : pc'[q] \in NotRunning <=> pc[q] \in NotRunning
    BY <1>a, <1>3 DEF NotRunning, Idle, EndOfInput
  <2> QED
    BY <1>d, <2>1
<1>4. ASSUME NEW x \in {"connection", "process"}, End(x)
      PROVE  Ids'
  <2>1. /\ UNCHANGED <<msg, contexts, requests, jobs, cur>>
        /\ reader'.op = "put" <=> reader.op = "put"
        /\ reader.op = "put" => reader' = reader
        /\ pc'[Disp] = "start" <=> pc[Disp] = "start"
        /\ \A q \in Proc : pc'[q] \in NotRunning <=> pc[q] \in NotRunning
    BY <1>a, <1>4 DEF NotRunning, Idle, End
  <2> QED
    BY <1>d, <2>1
<1>5. ASSUME Put
      PROVE  Ids'
  <2> PICK m : m = reader.m
    OBVIOUS
  <2>1. m \in Msg /\ reader.op = "put" /\ UNCHANGED <<msg, jobs, pc, cur>>
    BY <1>5 DEF Put, Shape, TypeOK, ReaderOK
  <2>2. Running' = Running
    BY <2>1 DEF Running
  <2>3. CASE ~Over
    <3>1. UNCHANGED contexts /\ reader'.op = "read"
      BY <1>5, <2>3 DEF Put, Idle
    <3>2. Elements(requests') = Elements(requests) \cup {m}
      BY <1>5, <2>3, QueueSteps
    <3>3. Waiting' = Waiting
      BY <2>1, <3>1, <3>2 DEF Waiting
    <3> QED
      BY <1>b, <2>1, <2>2, <3>1, <3>3, IdsSame
  <2>4. CASE Over
    <3>1. /\ UNCHANGED requests /\ reader'.op = "refuse"
          /\ contexts' = IF HasId(m) THEN [contexts EXCEPT ![msg[m].id] = Nil] ELSE contexts
      BY <1>5, <2>4 DEF Put
    <3>2. m \notin Elements(requests) /\ cur[Disp] # m
      BY <1>b, <2>1 DEF OnePlace, InHand, Queued
    <3>3. Waiting' = Waiting \ {m} /\ m \in Waiting
      BY <2>1, <3>1, <3>2 DEF Waiting
    <3>4. ASSUME msg[m].id \in Id PROVE IdAgrees(msg[m].id)'
      <4> PICK i \in Id : i = msg[m].id
        BY <3>4
      <4>1. m \in WaitingFor(i)
        BY <3>3 DEF WaitingFor
      <4>2. WaitingFor(i) = {m} /\ RunningFor(i) = {}
        BY <1>a, <4>1 DEF Ids, IdAgrees
      <4>3. WaitingFor(i)' = {} /\ RunningFor(i)' = {}
        BY <2>1, <2>2, <3>3, <4>2 DEF WaitingFor, RunningFor
      <4>4. contexts'[i] = Nil
        BY <1>a, <3>1 DEF HasId
      <4> QED
        BY <2>1, <4>3, <4>4 DEF IdAgrees
    <3>5. \A j \in Id \ {msg[m].id} : contexts'[j] = contexts[j]
      BY <1>a, <3>1
    <3> QED
      BY <1>b, <1>e, <2>1, <2>2, <3>3, <3>4, <3>5, IdsMoved
  <2> QED
    BY <2>3, <2>4
<1>6. ASSUME Refuse
      PROVE  Ids'
  <2>1. /\ UNCHANGED <<msg, contexts, requests, jobs, cur>>
        /\ reader'.op = "put" <=> reader.op = "put"
        /\ reader.op = "put" => reader' = reader
        /\ pc'[Disp] = "start" <=> pc[Disp] = "start"
        /\ \A q \in Proc : pc'[q] \in NotRunning <=> pc[q] \in NotRunning
    BY <1>a, <1>6 DEF NotRunning, Idle, Refuse, Publish
  <2> QED
    BY <1>d, <2>1
<1>7. ASSUME Cancel
      PROVE  Ids'
  <2>1. /\ UNCHANGED <<msg, contexts, requests, jobs, cur>>
        /\ reader'.op = "put" <=> reader.op = "put"
        /\ reader.op = "put" => reader' = reader
        /\ pc'[Disp] = "start" <=> pc[Disp] = "start"
        /\ \A q \in Proc : pc'[q] \in NotRunning <=> pc[q] \in NotRunning
    BY <1>a, <1>7 DEF NotRunning, Idle, Cancel
  <2> QED
    BY <1>d, <2>1
<1>8. ASSUME Deliver
      PROVE  Ids'
  <2>1. /\ UNCHANGED <<msg, contexts, requests, jobs, cur>>
        /\ reader'.op = "put" <=> reader.op = "put"
        /\ reader.op = "put" => reader' = reader
        /\ pc'[Disp] = "start" <=> pc[Disp] = "start"
        /\ \A q \in Proc : pc'[q] \in NotRunning <=> pc[q] \in NotRunning
    BY <1>a, <1>8 DEF NotRunning, Idle, Deliver
  <2> QED
    BY <1>d, <2>1
<1>9. ASSUME NEW n \in 1 .. MaxCalls, ReceiveReply(n)
      PROVE  Ids'
  <2>1. /\ UNCHANGED <<msg, contexts, requests, jobs, cur>>
        /\ reader'.op = "put" <=> reader.op = "put"
        /\ reader.op = "put" => reader' = reader
        /\ pc'[Disp] = "start" <=> pc[Disp] = "start"
        /\ \A q \in Proc : pc'[q] \in NotRunning <=> pc[q] \in NotRunning
    BY <1>a, <1>9 DEF NotRunning, Idle, ReceiveReply
  <2> QED
    BY <1>d, <2>1
<1>10. ASSUME Write
      PROVE  Ids'
  <2>1. /\ UNCHANGED <<msg, contexts, requests, jobs, cur>>
        /\ reader'.op = "put" <=> reader.op = "put"
        /\ reader.op = "put" => reader' = reader
        /\ pc'[Disp] = "start" <=> pc[Disp] = "start"
        /\ \A q \in Proc : pc'[q] \in NotRunning <=> pc[q] \in NotRunning
    BY <1>a, <1>10 DEF NotRunning, Idle, Write
  <2> QED
    BY <1>d, <2>1
<1>11. ASSUME Dispatch
      PROVE  Ids'
  <2>1. /\ UNCHANGED <<msg, contexts, jobs, reader>> /\ pc[Disp] = "get" /\ cur[Disp] = Nil
        /\ \A p \in Proc \ {Disp} : cur'[p] = cur[p] /\ pc'[p] = pc[p]
    BY <1>a, <1>c, <1>11 DEF Dispatch, Goto
  <2>2. CASE Over
    <3>1. UNCHANGED <<requests, cur>> /\ pc'[Disp] = "end"
      BY <1>a, <1>11, <2>2 DEF Dispatch, Goto
    <3> QED
      BY <1>d, <2>1, <3>1
  <2>3. CASE ~Over
    <3>1. pc'[Disp] = "start" /\ Elements(requests) = Elements(requests') \cup {cur'[Disp]}
      BY <1>a, <1>11, <2>3, QueueSteps DEF Dispatch, Goto
    <3>2. Waiting' = Waiting
      BY <2>1, <3>1 DEF Waiting
    <3>3. Running' = Running
      BY <2>1, <3>1 DEF Running
    <3> QED
      BY <1>b, <2>1, <3>2, <3>3, IdsSame
  <2> QED
    BY <2>2, <2>3
<1>12. ASSUME start_request
      PROVE  Ids'
  <2> PICK m : m = cur[Disp]
    OBVIOUS
  <2>1. /\ m \in Msg /\ pc[Disp] = "start" /\ pc'[Disp] \in {"collect", "prepare"}
        /\ UNCHANGED <<msg, requests, jobs, cur, reader>>
        /\ \A p \in Proc \ {Disp} : pc'[p] = pc[p]
        /\ contexts' = IF HasId(m) THEN [contexts EXCEPT ![msg[m].id] = m] ELSE contexts
    BY <1>a, <1>c, <1>12 DEF start_request, Goto, AtRest, Calling_
  <2>2. m \notin Elements(requests) /\ (reader.op = "put" => reader.m # m)
    BY <1>b, <2>1 DEF OnePlace, Queued, InHand
  <2>3. Waiting' = Waiting \ {m} /\ m \in Waiting
    BY <2>1, <2>2 DEF Waiting
  <2>4. Running' = Running \cup {m}
    BY <2>1 DEF Running
  <2>5. ASSUME msg[m].id \in Id PROVE IdAgrees(msg[m].id)'
    <3> PICK i \in Id : i = msg[m].id
      BY <2>5
    <3>1. m \in WaitingFor(i)
      BY <2>3 DEF WaitingFor
    <3>2. WaitingFor(i) = {m} /\ RunningFor(i) = {}
      BY <1>a, <3>1 DEF Ids, IdAgrees
    <3>3. WaitingFor(i)' = {} /\ RunningFor(i)' = {m}
      BY <2>1, <2>3, <2>4, <3>2 DEF WaitingFor, RunningFor
    <3>4. contexts'[i] = m
      BY <1>a, <2>1 DEF HasId
    <3> QED
      BY <2>1, <3>3, <3>4 DEF IdAgrees
  <2>6. \A j \in Id \ {msg[m].id} : contexts'[j] = contexts[j]
    BY <1>a, <2>1
  <2> QED
    BY <1>b, <1>e, <2>1, <2>3, <2>4, <2>5, <2>6, IdsMoved
<1>13. ASSUME cancel_requests
      PROVE  Ids'
  <2>1. /\ UNCHANGED <<msg, contexts, requests, jobs, cur>>
        /\ reader'.op = "put" <=> reader.op = "put"
        /\ reader.op = "put" => reader' = reader
        /\ pc'[Disp] = "start" <=> pc[Disp] = "start"
        /\ \A q \in Proc : pc'[q] \in NotRunning <=> pc[q] \in NotRunning
    BY <1>a, <1>13 DEF NotRunning, Idle, cancel_requests, Goto
  <2> QED
    BY <1>d, <2>1
<1>14. ASSUME CancelNext
      PROVE  Ids'
  <2>1. /\ UNCHANGED <<msg, contexts, requests, jobs, cur>>
        /\ reader'.op = "put" <=> reader.op = "put"
        /\ reader.op = "put" => reader' = reader
        /\ pc'[Disp] = "start" <=> pc[Disp] = "start"
        /\ \A q \in Proc : pc'[q] \in NotRunning <=> pc[q] \in NotRunning
    BY <1>a, <1>14 DEF NotRunning, Idle, CancelNext, Goto
  <2> QED
    BY <1>d, <2>1
<1>15. ASSUME Enqueue
      PROVE  Ids'
  <2>1. /\ UNCHANGED <<msg, contexts, requests, reader>> /\ pc[Disp] = "enqueue" /\ cur[Disp] \in Msg
        /\ \A p \in Proc \ {Disp} : cur'[p] = cur[p] /\ pc'[p] = pc[p]
    BY <1>a, <1>c, <1>15 DEF Enqueue, Goto, AtRest, Calling_
  <2>2. CASE QueryOver
    <3>1. UNCHANGED <<jobs, cur>> /\ pc'[Disp] = "end"
      BY <1>a, <1>15, <2>2 DEF Enqueue, Goto
    <3> QED
      BY <1>d, <2>1, <3>1 DEF NotRunning
  <2>3. CASE ~QueryOver
    <3>1. pc'[Disp] = "get" /\ Elements(jobs') = Elements(jobs) \cup {cur[Disp]}
      BY <1>a, <1>15, <2>3, QueueSteps DEF Enqueue, Goto
    <3>2. Waiting' = Waiting
      BY <2>1, <3>1 DEF Waiting
    <3>3. Running' \ {Nil} = Running \ {Nil}
      BY <2>1, <3>1 DEF Running
    <3> QED
      BY <1>b, <2>1, <3>2, <3>3, IdsSame
  <2> QED
    BY <2>2, <2>3
<1>16. ASSUME Join
      PROVE  Ids'
  <2>1. /\ UNCHANGED <<msg, contexts, requests, jobs, cur>>
        /\ reader'.op = "put" <=> reader.op = "put"
        /\ reader.op = "put" => reader' = reader
        /\ pc'[Disp] = "start" <=> pc[Disp] = "start"
        /\ \A q \in Proc : pc'[q] \in NotRunning <=> pc[q] \in NotRunning
    BY <1>a, <1>16 DEF NotRunning, Idle, Join, Goto
  <2> QED
    BY <1>d, <2>1
<1>17. ASSUME NEW outcome \in Results, Prepare(outcome)
      PROVE  Ids'
  <2>1. /\ UNCHANGED <<msg, contexts, requests, jobs, cur>>
        /\ reader'.op = "put" <=> reader.op = "put"
        /\ reader.op = "put" => reader' = reader
        /\ pc'[Disp] = "start" <=> pc[Disp] = "start"
        /\ \A q \in Proc : pc'[q] \in NotRunning <=> pc[q] \in NotRunning
    BY <1>a, <1>17 DEF NotRunning, Idle, Prepare, Goto
  <2> QED
    BY <1>d, <2>1
<1>18. ASSUME NEW x \in {"connection", "query"}, Finish(x)
      PROVE  Ids'
  <2>1. /\ UNCHANGED <<msg, contexts, requests, jobs, cur>>
        /\ reader'.op = "put" <=> reader.op = "put"
        /\ reader.op = "put" => reader' = reader
        /\ pc'[Disp] = "start" <=> pc[Disp] = "start"
        /\ \A q \in Proc : pc'[q] \in NotRunning <=> pc[q] \in NotRunning
    BY <1>a, <1>18 DEF NotRunning, Idle, Finish, Goto
  <2> QED
    BY <1>d, <2>1
<1>19. ASSUME NEW w \in Worker, Fetch(w)
      PROVE  Ids'
  <2>1. /\ UNCHANGED <<msg, contexts, requests, reader>> /\ pc[w] = "get" /\ cur[w] = Nil
        /\ \A p \in Proc \ {w} : cur'[p] = cur[p] /\ pc'[p] = pc[p]
    BY <1>a, <1>c, <1>19 DEF Fetch, Goto
  <2>2. CASE QueryOver
    <3>1. UNCHANGED <<jobs, cur>>
      BY <1>19, <2>2 DEF Fetch
    <3> QED
      BY <1>d, <2>1, <3>1
  <2>3. CASE ~QueryOver
    <3>1. pc'[w] = "work" /\ Elements(jobs) = Elements(jobs') \cup {cur'[w]}
      BY <1>a, <1>19, <2>3, QueueSteps DEF Fetch, Goto
    <3>2. Waiting' = Waiting
      BY <2>1 DEF Waiting
    <3>3. Running' = Running
      BY <2>1, <3>1 DEF Running
    <3> QED
      BY <1>b, <2>1, <3>2, <3>3, IdsSame
  <2> QED
    BY <2>2, <2>3
<1>20. ASSUME NEW w \in Worker, NEW outcome \in {"value", "error"}, Work(w, outcome)
      PROVE  Ids'
  <2>1. /\ UNCHANGED <<msg, contexts, requests, jobs, cur>>
        /\ reader'.op = "put" <=> reader.op = "put"
        /\ reader.op = "put" => reader' = reader
        /\ pc'[Disp] = "start" <=> pc[Disp] = "start"
        /\ \A q \in Proc : pc'[q] \in NotRunning <=> pc[q] \in NotRunning
    BY <1>a, <1>20 DEF NotRunning, Idle, Work, Goto
  <2> QED
    BY <1>d, <2>1
<1>21. ASSUME NEW p \in Proc, Judge(p)
      PROVE  Ids'
  <2> PICK m : m = cur[p]
    OBVIOUS
  <2>1. /\ m \in Msg /\ pc[p] = "judge" /\ UNCHANGED <<msg, contexts, requests, jobs, cur, reader>>
        /\ \A q \in Proc \ {p} : pc'[q] = pc[q]
        /\ pc'[p] = IF HasId(m) THEN "retire" ELSE "release"
    BY <1>a, <1>c, <1>21 DEF Judge, After, Goto, AtRest, Calling_
  <2>2. CASE HasId(m)
    BY <1>d, <2>1, <2>2 DEF NotRunning
  <2>6. CASE ~HasId(m)
    <3>3. m \notin Elements(jobs) /\ \A q \in Proc \ {p} : cur[q] # m
      BY <1>b, <2>1 DEF OnePlace, Queued
    <3>4. Waiting' = Waiting
      BY <2>1 DEF Waiting
    <3>5. Running' = Running \ {m}
      BY <2>1, <2>6, <3>3 DEF Running
    <3> QED
      BY <1>b, <1>e, <2>1, <2>6, <3>4, <3>5, IdsMoved DEF HasId
  <2> QED
    BY <2>2, <2>6
<1>22. ASSUME NEW p \in Proc, Retire(p)
      PROVE  Ids'
  <2> PICK m : m = cur[p]
    OBVIOUS
  <2>1. /\ m \in Msg /\ pc[p] = "retire" /\ UNCHANGED <<msg, requests, jobs, cur, reader>>
        /\ \A q \in Proc \ {p} : pc'[q] = pc[q]
        /\ pc'[p] = "reply" /\ contexts' = [contexts EXCEPT ![msg[m].id] = Nil]
    BY <1>a, <1>c, <1>22 DEF Retire, After, Goto, AtRest, Calling_
  <2>3. m \notin Elements(jobs) /\ \A q \in Proc \ {p} : cur[q] # m
    BY <1>b, <2>1 DEF OnePlace, Queued
  <2>4. Waiting' = Waiting
    BY <2>1 DEF Waiting
  <2>5. Running' = Running \ {m} /\ m \in Running
    BY <2>1, <2>3 DEF Running
  <2>6. ASSUME msg[m].id \in Id PROVE IdAgrees(msg[m].id)'
    <3> PICK i \in Id : i = msg[m].id
      BY <2>6
    <3>1. m \in RunningFor(i)
      BY <2>1, <2>5 DEF RunningFor
    <3>2. RunningFor(i) = {m} /\ WaitingFor(i) = {}
      BY <1>a, <3>1 DEF Ids, IdAgrees
    <3>3. WaitingFor(i)' = {} /\ RunningFor(i)' = {}
      BY <2>1, <2>4, <2>5, <3>2 DEF WaitingFor, RunningFor
    <3>4. contexts'[i] = Nil
      BY <1>a, <2>1
    <3> QED
      BY <2>1, <3>3, <3>4 DEF IdAgrees
  <2>7. \A j \in Id \ {msg[m].id} : contexts'[j] = contexts[j]
    BY <1>a, <2>1
  <2> QED
    BY <1>b, <1>e, <2>1, <2>4, <2>5, <2>6, <2>7, IdsMoved
<1>23. ASSUME NEW p \in Proc, Reply(p)
      PROVE  Ids'
  <2>1. /\ UNCHANGED <<msg, contexts, requests, jobs, cur>>
        /\ reader'.op = "put" <=> reader.op = "put"
        /\ reader.op = "put" => reader' = reader
        /\ pc'[Disp] = "start" <=> pc[Disp] = "start"
        /\ \A q \in Proc : pc'[q] \in NotRunning <=> pc[q] \in NotRunning
    BY <1>a, <1>23 DEF NotRunning, Idle, Reply, Publish, After, Goto
  <2> QED
    BY <1>d, <2>1
<1>24. ASSUME NEW p \in Proc, Release(p)
      PROVE  Ids'
  <2>1. /\ UNCHANGED <<msg, contexts, requests, jobs, reader>> /\ pc[p] = "release" /\ pc'[p] = "get"
        /\ \A q \in Proc \ {p} : cur'[q] = cur[q] /\ pc'[q] = pc[q]
    BY <1>a, <1>24 DEF Release, Goto
  <2>2. Waiting' = Waiting
    BY <2>1 DEF Waiting
  <2>3. Running' = Running
    BY <2>1 DEF Running
  <2> QED
    BY <1>b, <2>1, <2>2, <2>3, IdsSame
<1>25. ASSUME NEW p \in Proc, Send(p)
      PROVE  Ids'
  <2>1. /\ UNCHANGED <<msg, contexts, requests, jobs, cur>>
        /\ reader'.op = "put" <=> reader.op = "put"
        /\ reader.op = "put" => reader' = reader
        /\ pc'[Disp] = "start" <=> pc[Disp] = "start"
        /\ \A q \in Proc : pc'[q] \in NotRunning <=> pc[q] \in NotRunning
    BY <1>a, <1>25 DEF NotRunning, Idle, Send, Goto
  <2> QED
    BY <1>d, <2>1
<1>26. ASSUME NEW p \in Proc, Await(p)
      PROVE  Ids'
  <2>1. /\ UNCHANGED <<msg, contexts, requests, jobs, cur>>
        /\ reader'.op = "put" <=> reader.op = "put"
        /\ reader.op = "put" => reader' = reader
        /\ pc'[Disp] = "start" <=> pc[Disp] = "start"
        /\ \A q \in Proc : pc'[q] \in NotRunning <=> pc[q] \in NotRunning
    BY <1>a, <1>26 DEF NotRunning, Idle, Await, Goto
  <2> QED
    BY <1>d, <2>1
<1>27. ASSUME NEW p \in Proc, Unlist(p)
      PROVE  Ids'
  <2>1. /\ UNCHANGED <<msg, contexts, requests, jobs, cur>>
        /\ reader'.op = "put" <=> reader.op = "put"
        /\ reader.op = "put" => reader' = reader
        /\ pc'[Disp] = "start" <=> pc[Disp] = "start"
        /\ \A q \in Proc : pc'[q] \in NotRunning <=> pc[q] \in NotRunning
    BY <1>a, <1>27 DEF NotRunning, Idle, Unlist, Unlisted, Outside, Goto
  <2> QED
    BY <1>d, <2>1
<1>28. ASSUME NEW p \in Proc, Call(p)
      PROVE  Ids'
  <2>1. /\ UNCHANGED <<msg, contexts, requests, jobs, cur>>
        /\ reader'.op = "put" <=> reader.op = "put"
        /\ reader.op = "put" => reader' = reader
        /\ pc'[Disp] = "start" <=> pc[Disp] = "start"
        /\ \A q \in Proc : pc'[q] \in NotRunning <=> pc[q] \in NotRunning
    BY <1>a, <1>28 DEF NotRunning, Idle, Call, Outside, Goto
  <2> QED
    BY <1>d, <2>1
<1>29. ASSUME Rest \/ UNCHANGED vars
      PROVE  Ids'
  <2>1. /\ UNCHANGED <<msg, contexts, requests, jobs, cur>>
        /\ reader'.op = "put" <=> reader.op = "put"
        /\ reader.op = "put" => reader' = reader
        /\ pc'[Disp] = "start" <=> pc[Disp] = "start"
        /\ \A q \in Proc : pc'[q] \in NotRunning <=> pc[q] \in NotRunning
    BY <1>a, <1>29 DEF NotRunning, Idle, Rest, vars
  <2> QED
    BY <1>d, <2>1
<1>30. ASSUME Close
      PROVE  Ids'
  <2>1. /\ UNCHANGED <<msg, contexts, requests, jobs, cur>>
        /\ reader'.op = "put" <=> reader.op = "put"
        /\ reader.op = "put" => reader' = reader
        /\ pc'[Disp] = "start" <=> pc[Disp] = "start"
        /\ \A q \in Proc : pc'[q] \in NotRunning <=> pc[q] \in NotRunning
    BY <1>a, <1>30 DEF NotRunning, Idle, Close, Goto
  <2> QED
    BY <1>d, <2>1
<1>31. ASSUME NEW p \in Background, Leave(p)
      PROVE  Ids'
  <2>1. /\ UNCHANGED <<msg, contexts, requests, jobs, cur>>
        /\ reader'.op = "put" <=> reader.op = "put"
        /\ reader.op = "put" => reader' = reader
        /\ pc'[Disp] = "start" <=> pc[Disp] = "start"
        /\ \A q \in Proc : pc'[q] \in NotRunning <=> pc[q] \in NotRunning
    BY <1>a, <1>31 DEF NotRunning, Idle, Leave, Goto
  <2> QED
    BY <1>d, <2>1
<1>32. ASSUME NEW p \in Proc, TimeOut(p)
      PROVE  Ids'
  <2>1. /\ UNCHANGED <<msg, contexts, requests, jobs, cur>>
        /\ reader'.op = "put" <=> reader.op = "put"
        /\ reader.op = "put" => reader' = reader
        /\ pc'[Disp] = "start" <=> pc[Disp] = "start"
        /\ \A q \in Proc : pc'[q] \in NotRunning <=> pc[q] \in NotRunning
    BY <1>a, <1>32 DEF NotRunning, Idle, TimeOut, Goto
  <2> QED
    BY <1>d, <2>1
<1> QED
    BY <1>1, <1>2, <1>3, <1>4, <1>5, <1>6, <1>7, <1>8, <1>9, <1>10, <1>11, <1>12, <1>13,
       <1>14, <1>15, <1>16, <1>17, <1>18, <1>19, <1>20, <1>21, <1>22, <1>23, <1>24, <1>25,
       <1>26, <1>27, <1>28, <1>29, <1>30, <1>31, <1>32
       DEF Next, Reading, Answering, Dispatching, Working, Completing, Calling, Thread,
           Proc, Handler, Background, Results

(* Every message is in one place, and the contexts agree with the requests. *)
LEMMA IdsHold == Spec => [](Places /\ Ids)
<1>1. Init => Ids
  <2> SUFFICES ASSUME Init PROVE Ids
    OBVIOUS
  <2>1. Waiting = {} /\ Running \subseteq {Nil}
    BY NoElements DEF Init, Waiting, Running, Idle, Proc, Handler, Background
  <2> QED
    BY <2>1, ConnectionAssumption DEF Init, Ids, IdAgrees, WaitingFor, RunningFor
<1> QED
    BY <1>1, InitPlaces, PlacesStep, IdsStep, ShapeHolds, PTL DEF Spec

(* A request that waits has its ID reserved, one that runs is found by its ID,
   and no ID stays taken for a request that is gone. *)
THEOREM ContextsAreFoundByID == Spec => []IdsAgree
BY IdsAgreed, IdsHold, ShapeHolds, PTL

----------------------------------------------------------------------------
(* RequestsHold *)

(* An ID that is taken belongs to a request whose response is not written. *)
LEMMA TakenIsReused ==
    ASSUME Shape, Places, Ids, NEW i \in Id, contexts[i] # Nil
    PROVE  Reused(i)
<1>1. IdAgrees(i) /\ contexts[i] \in Msg \cup {Nil, "reserved"}
    BY DEF Ids, Shape, TypeOK
<1>2. WaitingFor(i) \cup RunningFor(i) # {}
    BY <1>1 DEF IdAgrees
<1>3. PICK m \in Unanswered : msg[m].id = i
    BY <1>2, RunningIsKnown DEF WaitingFor, RunningFor
<1>4. m \in Known /\ m \notin seen
    BY <1>3, RunningIsKnown DEF Places, OnTheWay, Sent
<1> QED
    BY <1>3, <1>4 DEF Reused, Known

(* What a step finds with the reader, in a queue or with a thread was there
   before, or was just read. *)
LEMMA HeldStep ==
    Shape /\ Places /\ [Next]_vars => \A m \in Known : Held(m)' => Held(m)
<1> SUFFICES ASSUME Shape, Places, [Next]_vars PROVE \A m \in Known : Held(m)' => Held(m)
    OBVIOUS
<1> USE ConnectionAssumption DEF Proc, Handler, Background, queues, scopes, client, rpc, threads
<1>a. /\ cur \in [Proc -> Msg \cup {Nil}] /\ Unanswered' \subseteq Unanswered \cup (Known' \ Known)
    BY WayStep DEF Shape, TypeOK
<1>b. ASSUME \A p \in Proc : cur'[p] \in {cur[p], Nil}
      PROVE  \A m \in Known : Held(m)' => Held(m)
    BY <1>a, <1>b DEF Held, Known
<1>1. ASSUME NEW i \in Id \cup {Nil}, NEW kind \in {"query", "shutdown", "exit"},
             Receive(i, kind)
      PROVE  \A m \in Known : Held(m)' => Held(m)
  <2>1. \A q \in Proc : cur'[q] \in {cur[q], Nil}
    BY <1>a, <1>1 DEF Receive
  <2> QED
    BY <1>b, <2>1
<1>2. ASSUME NEW i \in Id, CancelRequest(i)
      PROVE  \A m \in Known : Held(m)' => Held(m)
  <2>1. \A q \in Proc : cur'[q] \in {cur[q], Nil}
    BY <1>a, <1>2 DEF CancelRequest
  <2> QED
    BY <1>b, <2>1
<1>3. ASSUME EndOfInput
      PROVE  \A m \in Known : Held(m)' => Held(m)
  <2>1. \A q \in Proc : cur'[q] \in {cur[q], Nil}
    BY <1>a, <1>3 DEF EndOfInput
  <2> QED
    BY <1>b, <2>1
<1>4. ASSUME NEW x \in {"connection", "process"}, End(x)
      PROVE  \A m \in Known : Held(m)' => Held(m)
  <2>1. \A q \in Proc : cur'[q] \in {cur[q], Nil}
    BY <1>a, <1>4 DEF End
  <2> QED
    BY <1>b, <2>1
<1>5. ASSUME Put
      PROVE  \A m \in Known : Held(m)' => Held(m)
  <2>1. \A q \in Proc : cur'[q] \in {cur[q], Nil}
    BY <1>a, <1>5 DEF Put
  <2> QED
    BY <1>b, <2>1
<1>6. ASSUME Refuse
      PROVE  \A m \in Known : Held(m)' => Held(m)
  <2>1. \A q \in Proc : cur'[q] \in {cur[q], Nil}
    BY <1>a, <1>6 DEF Refuse, Publish
  <2> QED
    BY <1>b, <2>1
<1>7. ASSUME Cancel
      PROVE  \A m \in Known : Held(m)' => Held(m)
  <2>1. \A q \in Proc : cur'[q] \in {cur[q], Nil}
    BY <1>a, <1>7 DEF Cancel
  <2> QED
    BY <1>b, <2>1
<1>8. ASSUME Deliver
      PROVE  \A m \in Known : Held(m)' => Held(m)
  <2>1. \A q \in Proc : cur'[q] \in {cur[q], Nil}
    BY <1>a, <1>8 DEF Deliver
  <2> QED
    BY <1>b, <2>1
<1>9. ASSUME NEW n \in 1 .. MaxCalls, ReceiveReply(n)
      PROVE  \A m \in Known : Held(m)' => Held(m)
  <2>1. \A q \in Proc : cur'[q] \in {cur[q], Nil}
    BY <1>a, <1>9 DEF ReceiveReply
  <2> QED
    BY <1>b, <2>1
<1>10. ASSUME Write
      PROVE  \A m \in Known : Held(m)' => Held(m)
  <2>1. \A q \in Proc : cur'[q] \in {cur[q], Nil}
    BY <1>a, <1>10 DEF Write
  <2> QED
    BY <1>b, <2>1
<1>11. ASSUME Dispatch
      PROVE  \A m \in Known : Held(m)' => Held(m)
  <2>1. \A q \in Proc \ {Disp} : cur'[q] = cur[q]
    BY <1>a, <1>11 DEF Dispatch
  <2>2. cur'[Disp] = cur[Disp] \/ cur'[Disp] \in Elements(requests)
    BY <1>11, QueueSteps DEF Dispatch
  <2> QED
    BY <1>a, <2>1, <2>2 DEF Held, Unanswered, Queued
<1>12. ASSUME start_request
      PROVE  \A m \in Known : Held(m)' => Held(m)
  <2>1. \A q \in Proc : cur'[q] \in {cur[q], Nil}
    BY <1>a, <1>12 DEF start_request, Goto
  <2> QED
    BY <1>b, <2>1
<1>13. ASSUME cancel_requests
      PROVE  \A m \in Known : Held(m)' => Held(m)
  <2>1. \A q \in Proc : cur'[q] \in {cur[q], Nil}
    BY <1>a, <1>13 DEF cancel_requests, Goto
  <2> QED
    BY <1>b, <2>1
<1>14. ASSUME CancelNext
      PROVE  \A m \in Known : Held(m)' => Held(m)
  <2>1. \A q \in Proc : cur'[q] \in {cur[q], Nil}
    BY <1>a, <1>14 DEF CancelNext, Goto
  <2> QED
    BY <1>b, <2>1
<1>15. ASSUME Enqueue
      PROVE  \A m \in Known : Held(m)' => Held(m)
  <2>1. \A q \in Proc : cur'[q] \in {cur[q], Nil}
    BY <1>a, <1>15 DEF Enqueue, Goto
  <2> QED
    BY <1>b, <2>1
<1>16. ASSUME Join
      PROVE  \A m \in Known : Held(m)' => Held(m)
  <2>1. \A q \in Proc : cur'[q] \in {cur[q], Nil}
    BY <1>a, <1>16 DEF Join, Goto
  <2> QED
    BY <1>b, <2>1
<1>17. ASSUME NEW outcome \in Results, Prepare(outcome)
      PROVE  \A m \in Known : Held(m)' => Held(m)
  <2>1. \A q \in Proc : cur'[q] \in {cur[q], Nil}
    BY <1>a, <1>17 DEF Prepare, Goto
  <2> QED
    BY <1>b, <2>1
<1>18. ASSUME NEW x \in {"connection", "query"}, Finish(x)
      PROVE  \A m \in Known : Held(m)' => Held(m)
  <2>1. \A q \in Proc : cur'[q] \in {cur[q], Nil}
    BY <1>a, <1>18 DEF Finish, Goto
  <2> QED
    BY <1>b, <2>1
<1>19. ASSUME NEW w \in Worker, Fetch(w)
      PROVE  \A m \in Known : Held(m)' => Held(m)
  <2>1. \A q \in Proc \ {w} : cur'[q] = cur[q]
    BY <1>a, <1>19 DEF Fetch
  <2>2. cur'[w] = cur[w] \/ cur'[w] \in Elements(jobs)
    BY <1>19, QueueSteps DEF Fetch
  <2> QED
    BY <1>a, <2>1, <2>2 DEF Held, Unanswered, Queued
<1>20. ASSUME NEW w \in Worker, NEW outcome \in {"value", "error"}, Work(w, outcome)
      PROVE  \A m \in Known : Held(m)' => Held(m)
  <2>1. \A q \in Proc : cur'[q] \in {cur[q], Nil}
    BY <1>a, <1>20 DEF Work, Goto
  <2> QED
    BY <1>b, <2>1
<1>21. ASSUME NEW p \in Proc, Judge(p)
      PROVE  \A m \in Known : Held(m)' => Held(m)
  <2>1. \A q \in Proc : cur'[q] \in {cur[q], Nil}
    BY <1>a, <1>21 DEF Judge, After, Goto
  <2> QED
    BY <1>b, <2>1
<1>22. ASSUME NEW p \in Proc, Retire(p)
      PROVE  \A m \in Known : Held(m)' => Held(m)
  <2>1. \A q \in Proc : cur'[q] \in {cur[q], Nil}
    BY <1>a, <1>22 DEF Retire, After, Goto
  <2> QED
    BY <1>b, <2>1
<1>23. ASSUME NEW p \in Proc, Reply(p)
      PROVE  \A m \in Known : Held(m)' => Held(m)
  <2>1. \A q \in Proc : cur'[q] \in {cur[q], Nil}
    BY <1>a, <1>23 DEF Reply, Publish, After, Goto
  <2> QED
    BY <1>b, <2>1
<1>24. ASSUME NEW p \in Proc, Release(p)
      PROVE  \A m \in Known : Held(m)' => Held(m)
  <2>1. \A q \in Proc : cur'[q] \in {cur[q], Nil}
    BY <1>a, <1>24 DEF Release, Own, Goto
  <2> QED
    BY <1>b, <2>1
<1>25. ASSUME NEW p \in Proc, Send(p)
      PROVE  \A m \in Known : Held(m)' => Held(m)
  <2>1. \A q \in Proc : cur'[q] \in {cur[q], Nil}
    BY <1>a, <1>25 DEF Send, Goto
  <2> QED
    BY <1>b, <2>1
<1>26. ASSUME NEW p \in Proc, Await(p)
      PROVE  \A m \in Known : Held(m)' => Held(m)
  <2>1. \A q \in Proc : cur'[q] \in {cur[q], Nil}
    BY <1>a, <1>26 DEF Await, Goto
  <2> QED
    BY <1>b, <2>1
<1>27. ASSUME NEW p \in Proc, Unlist(p)
      PROVE  \A m \in Known : Held(m)' => Held(m)
  <2>1. \A q \in Proc : cur'[q] \in {cur[q], Nil}
    BY <1>a, <1>27 DEF Unlist, Unlisted, Outside, Goto
  <2> QED
    BY <1>b, <2>1
<1>28. ASSUME NEW p \in Proc, Call(p)
      PROVE  \A m \in Known : Held(m)' => Held(m)
  <2>1. \A q \in Proc : cur'[q] \in {cur[q], Nil}
    BY <1>a, <1>28 DEF Call, Outside, Goto
  <2> QED
    BY <1>b, <2>1
<1>29. ASSUME Rest \/ UNCHANGED vars
      PROVE  \A m \in Known : Held(m)' => Held(m)
  <2>1. \A q \in Proc : cur'[q] \in {cur[q], Nil}
    BY <1>a, <1>29 DEF Rest, vars
  <2> QED
    BY <1>b, <2>1
<1>30. ASSUME Close
      PROVE  \A m \in Known : Held(m)' => Held(m)
  <2>1. \A q \in Proc : cur'[q] \in {cur[q], Nil}
    BY <1>a, <1>30 DEF Close, Goto
  <2> QED
    BY <1>b, <2>1
<1>31. ASSUME NEW p \in Background, Leave(p)
      PROVE  \A m \in Known : Held(m)' => Held(m)
  <2>1. \A q \in Proc : cur'[q] \in {cur[q], Nil}
    BY <1>a, <1>31 DEF Leave, Goto
  <2> QED
    BY <1>b, <2>1
<1>32. ASSUME NEW p \in Proc, TimeOut(p)
      PROVE  \A m \in Known : Held(m)' => Held(m)
  <2>1. \A q \in Proc : cur'[q] \in {cur[q], Nil}
    BY <1>a, <1>32 DEF TimeOut, Goto
  <2> QED
    BY <1>b, <2>1
<1> QED
    BY <1>1, <1>2, <1>3, <1>4, <1>5, <1>6, <1>7, <1>8, <1>9, <1>10, <1>11, <1>12, <1>13,
       <1>14, <1>15, <1>16, <1>17, <1>18, <1>19, <1>20, <1>21, <1>22, <1>23, <1>24, <1>25,
       <1>26, <1>27, <1>28, <1>29, <1>30, <1>31, <1>32
       DEF Next, Reading, Answering, Dispatching, Working, Completing, Calling, Thread,
           Proc, Handler, Background, Results

(* A refusal or a cancellation keeps its reason, in every step. *)
LEMMA ReasonsStep == Shape /\ Places /\ Ids /\ Reasons /\ [Next]_vars => Reasons'
<1> SUFFICES ASSUME Shape, Places, Ids, Reasons, [Next]_vars PROVE Reasons'
    OBVIOUS
<1> USE ConnectionAssumption DEF Proc, Handler, Background, queues, scopes, client, rpc, threads
<1>a. /\ pc \in [Proc -> PC] /\ cur \in [Proc -> Msg \cup {Nil}] /\ result \in [Proc -> Results \cup {Nil}]
      /\ canceled \subseteq Known /\ ended \in SUBSET {"process", "connection", "query"}
    BY DEF Shape, TypeOK, Places, Read
<1>b. /\ \A m \in Known : Held(m)' => Held(m)
      /\ \A m \in canceled : m \in asked \/ ~Held(m)
      /\ todo \subseteq asked /\ ReaderReasons /\ ThreadReasons
    BY HeldStep DEF Reasons, CancelReasons
<1>c. \A p \in Proc : pc[p] \notin AtRest \cup Calling_ => cur[p] \in Msg
    BY Handling
<1>d. ASSUME asked \subseteq asked', rude \subseteq rude', Over => Over',
             reader'.op \in {"refuse", "cancel"} => reader' = reader
      PROVE  ReaderReasons'
    BY <1>b, <1>d DEF ReaderReasons
<1>e. ASSUME asked \subseteq asked', \A m \in canceled' : m \in canceled \/ m \in asked' \/ ~Held(m)'
      PROVE  CancelReasons'
    BY <1>a, <1>b, <1>e DEF CancelReasons
<1>f. ASSUME asked \subseteq asked', Over => Over',
             \A p \in Proc : pc'[p] \in Judged /\ result'[p] = "canceled" =>
                 \/ pc[p] \in Judged /\ result[p] = "canceled" /\ cur'[p] = cur[p]
                 \/ cur'[p] \in asked' \/ Over'
      PROVE  ThreadReasons'
    BY <1>b, <1>f DEF ThreadReasons
<1>1. ASSUME NEW i \in Id \cup {Nil}, NEW kind \in {"query", "shutdown", "exit"},
             Receive(i, kind)
      PROVE  Reasons'
  <2>1. /\ UNCHANGED <<asked, todo, canceled, ended, pc, result, cur>> /\ rude \subseteq rude'
        /\ reader'.op # "cancel"
        /\ reader'.op = "refuse" => reader'.r = "duplicate" /\ i \in Id /\ contexts[i] # Nil
        /\ i # Nil /\ Reused(i) => reader'.m \in rude'
    BY <1>1 DEF Receive, Taken
  <2>2. reader'.op = "refuse" => reader'.m \in rude'
    BY <2>1, TakenIsReused
  <2>3. ReaderReasons'
    BY <2>1, <2>2 DEF ReaderReasons
  <2>4. CancelReasons'
    BY <1>e, <2>1
  <2>5. ThreadReasons'
    BY <1>b, <2>1 DEF ThreadReasons, Over
  <2> QED
    BY <1>b, <2>1, <2>3, <2>4, <2>5 DEF Reasons
<1>2. ASSUME NEW i \in Id, CancelRequest(i)
      PROVE  Reasons'
  <2>1. /\ UNCHANGED <<rude, todo, canceled, ended, pc, result, cur>> /\ asked \subseteq asked'
        /\ reader'.op = "cancel" /\ reader'.m \in asked'
    BY <1>2 DEF CancelRequest
  <2>2. ReaderReasons'
    BY <2>1 DEF ReaderReasons
  <2>3. CancelReasons'
    BY <1>e, <2>1
  <2>4. ThreadReasons'
    BY <1>b, <2>1 DEF ThreadReasons, Over
  <2> QED
    BY <1>b, <2>1, <2>2, <2>3, <2>4 DEF Reasons
<1>3. ASSUME EndOfInput
      PROVE  Reasons'
  <2>1. asked \subseteq asked' /\ rude \subseteq rude' /\ todo' \subseteq asked'
    BY <1>b, <1>3 DEF EndOfInput
  <2>2. Over => Over'
    BY <1>3 DEF Over, EndOfInput
  <2>3. ReaderReasons'
    BY <1>d, <1>3, <2>1, <2>2 DEF Idle, EndOfInput
  <2>4. CancelReasons'
    BY <1>b, <1>e, <1>3, <2>1 DEF ReaderReasons, Idle, EndOfInput
  <2>5. ThreadReasons'
    BY <1>a, <1>f, <1>3, <2>1, <2>2 DEF Judged, EndOfInput
  <2> QED
    BY <2>1, <2>3, <2>4, <2>5 DEF Reasons
<1>4. ASSUME NEW x \in {"connection", "process"}, End(x)
      PROVE  Reasons'
  <2>1. asked \subseteq asked' /\ rude \subseteq rude' /\ todo' \subseteq asked'
    BY <1>b, <1>4 DEF End
  <2>2. Over => Over'
    BY <1>4 DEF Over, End
  <2>3. ReaderReasons'
    BY <1>d, <1>4, <2>1, <2>2 DEF Idle, End
  <2>4. CancelReasons'
    BY <1>b, <1>e, <1>4, <2>1 DEF ReaderReasons, Idle, End
  <2>5. ThreadReasons'
    BY <1>a, <1>f, <1>4, <2>1, <2>2 DEF Judged, End
  <2> QED
    BY <2>1, <2>3, <2>4, <2>5 DEF Reasons
<1>5. ASSUME Put
      PROVE  Reasons'
  <2>1. /\ UNCHANGED <<asked, rude, todo, canceled, ended, pc, result, cur>>
        /\ reader'.op # "cancel" /\ (reader'.op = "refuse" => reader'.r = "canceled" /\ Over)
    BY <1>5 DEF Put, Idle
  <2>2. ReaderReasons'
    BY <2>1 DEF ReaderReasons, Over
  <2>3. CancelReasons'
    BY <1>e, <2>1
  <2>4. ThreadReasons'
    BY <1>b, <2>1 DEF ThreadReasons, Over
  <2> QED
    BY <1>b, <2>1, <2>2, <2>3, <2>4 DEF Reasons
<1>6. ASSUME Refuse
      PROVE  Reasons'
  <2>1. asked \subseteq asked' /\ rude \subseteq rude' /\ todo' \subseteq asked'
    BY <1>b, <1>6 DEF Refuse, Publish
  <2>2. Over => Over'
    BY <1>6 DEF Over, Refuse, Publish
  <2>3. ReaderReasons'
    BY <1>d, <1>6, <2>1, <2>2 DEF Idle, Refuse, Publish
  <2>4. CancelReasons'
    BY <1>b, <1>e, <1>6, <2>1 DEF ReaderReasons, Idle, Refuse, Publish
  <2>5. ThreadReasons'
    BY <1>a, <1>f, <1>6, <2>1, <2>2 DEF Judged, Refuse, Publish
  <2> QED
    BY <2>1, <2>3, <2>4, <2>5 DEF Reasons
<1>7. ASSUME Cancel
      PROVE  Reasons'
  <2>1. asked \subseteq asked' /\ rude \subseteq rude' /\ todo' \subseteq asked'
    BY <1>b, <1>7 DEF Cancel
  <2>2. Over => Over'
    BY <1>7 DEF Over, Cancel
  <2>3. ReaderReasons'
    BY <1>d, <1>7, <2>1, <2>2 DEF Idle, Cancel
  <2>4. CancelReasons'
    BY <1>b, <1>e, <1>7, <2>1 DEF ReaderReasons, Idle, Cancel
  <2>5. ThreadReasons'
    BY <1>a, <1>f, <1>7, <2>1, <2>2 DEF Judged, Cancel
  <2> QED
    BY <2>1, <2>3, <2>4, <2>5 DEF Reasons
<1>8. ASSUME Deliver
      PROVE  Reasons'
  <2>1. asked \subseteq asked' /\ rude \subseteq rude' /\ todo' \subseteq asked'
    BY <1>b, <1>8 DEF Deliver
  <2>2. Over => Over'
    BY <1>8 DEF Over, Deliver
  <2>3. ReaderReasons'
    BY <1>d, <1>8, <2>1, <2>2 DEF Idle, Deliver
  <2>4. CancelReasons'
    BY <1>b, <1>e, <1>8, <2>1 DEF ReaderReasons, Idle, Deliver
  <2>5. ThreadReasons'
    BY <1>a, <1>f, <1>8, <2>1, <2>2 DEF Judged, Deliver
  <2> QED
    BY <2>1, <2>3, <2>4, <2>5 DEF Reasons
<1>9. ASSUME NEW n \in 1 .. MaxCalls, ReceiveReply(n)
      PROVE  Reasons'
  <2>1. asked \subseteq asked' /\ rude \subseteq rude' /\ todo' \subseteq asked'
    BY <1>b, <1>9 DEF ReceiveReply
  <2>2. Over => Over'
    BY <1>9 DEF Over, ReceiveReply
  <2>3. ReaderReasons'
    BY <1>d, <1>9, <2>1, <2>2 DEF Idle, ReceiveReply
  <2>4. CancelReasons'
    BY <1>b, <1>e, <1>9, <2>1 DEF ReaderReasons, Idle, ReceiveReply
  <2>5. ThreadReasons'
    BY <1>a, <1>f, <1>9, <2>1, <2>2 DEF Judged, ReceiveReply
  <2> QED
    BY <2>1, <2>3, <2>4, <2>5 DEF Reasons
<1>10. ASSUME Write
      PROVE  Reasons'
  <2>1. asked \subseteq asked' /\ rude \subseteq rude' /\ todo' \subseteq asked'
    BY <1>b, <1>10 DEF Write
  <2>2. Over => Over'
    BY <1>10 DEF Over, Write
  <2>3. ReaderReasons'
    BY <1>d, <1>10, <2>1, <2>2 DEF Idle, Write
  <2>4. CancelReasons'
    BY <1>b, <1>e, <1>10, <2>1 DEF ReaderReasons, Idle, Write
  <2>5. ThreadReasons'
    BY <1>a, <1>f, <1>10, <2>1, <2>2 DEF Judged, Write
  <2> QED
    BY <2>1, <2>3, <2>4, <2>5 DEF Reasons
<1>11. ASSUME Dispatch
      PROVE  Reasons'
  <2>1. asked \subseteq asked' /\ rude \subseteq rude' /\ todo' \subseteq asked'
    BY <1>b, <1>11 DEF Dispatch, Goto
  <2>2. Over => Over'
    BY <1>11 DEF Over, Dispatch, Goto
  <2>3. ReaderReasons'
    BY <1>d, <1>11, <2>1, <2>2 DEF Idle, Dispatch, Goto
  <2>4. CancelReasons'
    BY <1>b, <1>e, <1>11, <2>1 DEF ReaderReasons, Idle, Dispatch, Goto
  <2>5. ThreadReasons'
    BY <1>a, <1>f, <1>11, <2>1, <2>2 DEF Judged, Dispatch, Goto
  <2> QED
    BY <2>1, <2>3, <2>4, <2>5 DEF Reasons
<1>12. ASSUME start_request
      PROVE  Reasons'
  <2>1. asked \subseteq asked' /\ rude \subseteq rude' /\ todo' \subseteq asked'
    BY <1>b, <1>12 DEF start_request, Goto
  <2>2. Over => Over'
    BY <1>12 DEF Over, start_request, Goto
  <2>3. ReaderReasons'
    BY <1>d, <1>12, <2>1, <2>2 DEF Idle, start_request, Goto
  <2>4. CancelReasons'
    BY <1>b, <1>e, <1>12, <2>1 DEF ReaderReasons, Idle, start_request, Goto
  <2>5. ThreadReasons'
    BY <1>a, <1>f, <1>12, <2>1, <2>2 DEF Judged, start_request, Goto
  <2> QED
    BY <2>1, <2>3, <2>4, <2>5 DEF Reasons
<1>13. ASSUME cancel_requests
      PROVE  Reasons'
  <2>1. asked \subseteq asked' /\ rude \subseteq rude' /\ todo' \subseteq asked'
    BY <1>b, <1>13 DEF cancel_requests, Goto
  <2>2. Over => Over'
    BY <1>13 DEF Over, cancel_requests, Goto
  <2>3. ReaderReasons'
    BY <1>d, <1>13, <2>1, <2>2 DEF Idle, cancel_requests, Goto
  <2>4. CancelReasons'
    BY <1>b, <1>e, <1>13, <2>1 DEF ReaderReasons, Idle, cancel_requests, Goto
  <2>5. ThreadReasons'
    BY <1>a, <1>f, <1>13, <2>1, <2>2 DEF Judged, cancel_requests, Goto
  <2> QED
    BY <2>1, <2>3, <2>4, <2>5 DEF Reasons
<1>14. ASSUME CancelNext
      PROVE  Reasons'
  <2>1. asked \subseteq asked' /\ rude \subseteq rude' /\ todo' \subseteq asked'
    BY <1>b, <1>14 DEF CancelNext, Goto
  <2>2. Over => Over'
    BY <1>14 DEF Over, CancelNext, Goto
  <2>3. ReaderReasons'
    BY <1>d, <1>14, <2>1, <2>2 DEF Idle, CancelNext, Goto
  <2>4. CancelReasons'
    BY <1>b, <1>e, <1>14, <2>1 DEF ReaderReasons, Idle, CancelNext, Goto
  <2>5. ThreadReasons'
    BY <1>a, <1>f, <1>14, <2>1, <2>2 DEF Judged, CancelNext, Goto
  <2> QED
    BY <2>1, <2>3, <2>4, <2>5 DEF Reasons
<1>15. ASSUME Enqueue
      PROVE  Reasons'
  <2>1. asked \subseteq asked' /\ rude \subseteq rude' /\ todo' \subseteq asked'
    BY <1>b, <1>15 DEF Enqueue, Goto
  <2>2. Over => Over'
    BY <1>15 DEF Over, Enqueue, Goto
  <2>3. ReaderReasons'
    BY <1>d, <1>15, <2>1, <2>2 DEF Idle, Enqueue, Goto
  <2>4. CancelReasons'
    BY <1>b, <1>e, <1>15, <2>1 DEF ReaderReasons, Idle, Enqueue, Goto
  <2>5. ThreadReasons'
    BY <1>a, <1>f, <1>15, <2>1, <2>2 DEF Judged, Enqueue, Goto
  <2> QED
    BY <2>1, <2>3, <2>4, <2>5 DEF Reasons
<1>16. ASSUME Join
      PROVE  Reasons'
  <2>1. asked \subseteq asked' /\ rude \subseteq rude' /\ todo' \subseteq asked'
    BY <1>b, <1>16 DEF Join, Goto
  <2>2. Over => Over'
    BY <1>16 DEF Over, Join, Goto
  <2>3. ReaderReasons'
    BY <1>d, <1>16, <2>1, <2>2 DEF Idle, Join, Goto
  <2>4. CancelReasons'
    BY <1>b, <1>e, <1>16, <2>1 DEF ReaderReasons, Idle, Join, Goto
  <2>5. ThreadReasons'
    BY <1>a, <1>f, <1>16, <2>1, <2>2 DEF Judged, Join, Goto
  <2> QED
    BY <2>1, <2>3, <2>4, <2>5 DEF Reasons
<1>17. ASSUME NEW outcome \in Results, Prepare(outcome)
      PROVE  Reasons'
  <2> PICK m : m = cur[Disp]
    OBVIOUS
  <2>1. /\ UNCHANGED <<asked, rude, todo, canceled, ended, cur, reader>> /\ pc[Disp] = "prepare"
        /\ m \in Msg /\ result'[Disp] = outcome /\ (outcome = "canceled" => Err(m))
        /\ \A q \in Proc \ {Disp} : pc'[q] = pc[q] /\ result'[q] = result[q]
    BY <1>a, <1>c, <1>17 DEF Prepare, Outcomes, Goto, AtRest, Calling_
  <2>2. Over' = Over
    BY <2>1 DEF Over
  <2>3. outcome = "canceled" => m \in asked \/ Over
    BY <1>b, <2>1 DEF Err, Held
  <2>4. ReaderReasons'
    BY <1>b, <2>1, <2>2 DEF ReaderReasons
  <2>5. CancelReasons'
    BY <1>e, <2>1
  <2>6. ThreadReasons'
    BY <1>b, <2>1, <2>2, <2>3 DEF ThreadReasons
  <2> QED
    BY <1>b, <2>1, <2>4, <2>5, <2>6 DEF Reasons
<1>18. ASSUME NEW x \in {"connection", "query"}, Finish(x)
      PROVE  Reasons'
  <2>1. asked \subseteq asked' /\ rude \subseteq rude' /\ todo' \subseteq asked'
    BY <1>b, <1>18 DEF Finish, Goto
  <2>2. Over => Over'
    BY <1>18 DEF Over, Finish, Goto
  <2>3. ReaderReasons'
    BY <1>d, <1>18, <2>1, <2>2 DEF Idle, Finish, Goto
  <2>4. CancelReasons'
    BY <1>b, <1>e, <1>18, <2>1 DEF ReaderReasons, Idle, Finish, Goto
  <2>5. ThreadReasons'
    BY <1>a, <1>f, <1>18, <2>1, <2>2 DEF Judged, Finish, Goto
  <2> QED
    BY <2>1, <2>3, <2>4, <2>5 DEF Reasons
<1>19. ASSUME NEW w \in Worker, Fetch(w)
      PROVE  Reasons'
  <2>1. asked \subseteq asked' /\ rude \subseteq rude' /\ todo' \subseteq asked'
    BY <1>b, <1>19 DEF Fetch, Goto
  <2>2. Over => Over'
    BY <1>19 DEF Over, Fetch, Goto
  <2>3. ReaderReasons'
    BY <1>d, <1>19, <2>1, <2>2 DEF Idle, Fetch, Goto
  <2>4. CancelReasons'
    BY <1>b, <1>e, <1>19, <2>1 DEF ReaderReasons, Idle, Fetch, Goto
  <2>5. ThreadReasons'
    BY <1>a, <1>f, <1>19, <2>1, <2>2 DEF Judged, Fetch, Goto
  <2> QED
    BY <2>1, <2>3, <2>4, <2>5 DEF Reasons
<1>20. ASSUME NEW w \in Worker, NEW outcome \in {"value", "error"}, Work(w, outcome)
      PROVE  Reasons'
  <2>1. asked \subseteq asked' /\ rude \subseteq rude' /\ todo' \subseteq asked'
    BY <1>b, <1>20 DEF Work, Goto
  <2>2. Over => Over'
    BY <1>20 DEF Over, Work, Goto
  <2>3. ReaderReasons'
    BY <1>d, <1>20, <2>1, <2>2 DEF Idle, Work, Goto
  <2>4. CancelReasons'
    BY <1>b, <1>e, <1>20, <2>1 DEF ReaderReasons, Idle, Work, Goto
  <2>5. ThreadReasons'
    BY <1>a, <1>f, <1>20, <2>1, <2>2 DEF Judged, Work, Goto
  <2> QED
    BY <2>1, <2>3, <2>4, <2>5 DEF Reasons
<1>21. ASSUME NEW p \in Proc, Judge(p)
      PROVE  Reasons'
  <2> PICK m : m = cur[p]
    OBVIOUS
  <2>1. /\ UNCHANGED <<asked, rude, todo, canceled, ended, cur, reader>> /\ pc[p] = "judge" /\ m \in Msg
        /\ result'[p] = (IF Err(m) THEN "canceled" ELSE result[p])
        /\ \A q \in Proc \ {p} : pc'[q] = pc[q] /\ result'[q] = result[q]
    BY <1>a, <1>c, <1>21 DEF Judge, Goto, AtRest, Calling_
  <2>2. Over' = Over
    BY <2>1 DEF Over
  <2>3. Err(m) => m \in asked \/ Over
    BY <1>b, <2>1 DEF Err, Held
  <2>4. ReaderReasons'
    BY <1>b, <2>1, <2>2 DEF ReaderReasons
  <2>5. CancelReasons'
    BY <1>e, <2>1
  <2>6. ThreadReasons'
    BY <1>b, <2>1, <2>2, <2>3 DEF ThreadReasons, Judged
  <2> QED
    BY <1>b, <2>1, <2>4, <2>5, <2>6 DEF Reasons
<1>22. ASSUME NEW p \in Proc, Retire(p)
      PROVE  Reasons'
  <2>1. asked \subseteq asked' /\ rude \subseteq rude' /\ todo' \subseteq asked'
    BY <1>b, <1>22 DEF Retire, After, Goto
  <2>2. Over => Over'
    BY <1>22 DEF Over, Retire, After, Goto
  <2>3. ReaderReasons'
    BY <1>d, <1>22, <2>1, <2>2 DEF Idle, Retire, After, Goto
  <2>4. CancelReasons'
    BY <1>b, <1>e, <1>22, <2>1 DEF ReaderReasons, Idle, Retire, After, Goto
  <2>5. ThreadReasons'
    BY <1>a, <1>f, <1>22, <2>1, <2>2 DEF Judged, Retire, After, Goto
  <2> QED
    BY <2>1, <2>3, <2>4, <2>5 DEF Reasons
<1>23. ASSUME NEW p \in Proc, Reply(p)
      PROVE  Reasons'
  <2>1. asked \subseteq asked' /\ rude \subseteq rude' /\ todo' \subseteq asked'
    BY <1>b, <1>23 DEF Reply, Publish, After, Goto
  <2>2. Over => Over'
    BY <1>23 DEF Over, Reply, Publish, After, Goto
  <2>3. ReaderReasons'
    BY <1>d, <1>23, <2>1, <2>2 DEF Idle, Reply, Publish, After, Goto
  <2>4. CancelReasons'
    BY <1>b, <1>e, <1>23, <2>1 DEF ReaderReasons, Idle, Reply, Publish, After, Goto
  <2>5. ThreadReasons'
    BY <1>a, <1>f, <1>23, <2>1, <2>2 DEF Judged, Reply, Publish, After, Goto
  <2> QED
    BY <2>1, <2>3, <2>4, <2>5 DEF Reasons
<1>24. ASSUME NEW p \in Proc, Release(p)
      PROVE  Reasons'
  <2> PICK m : m = cur[p]
    OBVIOUS
  <2>1. /\ UNCHANGED <<asked, rude, todo, ended, reader, requests, jobs>> /\ pc[p] = "release" /\ m \in Msg
        /\ canceled' = canceled \cup {m} /\ cur'[p] = Nil /\ pc'[p] = "get"
        /\ \A q \in Proc \ {p} : pc'[q] = pc[q] /\ result'[q] = result[q] /\ cur'[q] = cur[q]
    BY <1>a, <1>c, <1>24 DEF Release, Own, Goto, AtRest, Calling_
  <2>2. Over' = Over
    BY <2>1 DEF Over
  <2>3. ~Held(m)'
    BY <2>1 DEF Held, Unanswered, Queued, InHand, Places, OnePlace
  <2>4. ReaderReasons'
    BY <1>b, <2>1, <2>2 DEF ReaderReasons
  <2>5. CancelReasons'
    BY <1>e, <2>1, <2>3
  <2>6. ThreadReasons'
    BY <1>b, <2>1, <2>2 DEF ThreadReasons, Judged
  <2> QED
    BY <1>b, <2>1, <2>4, <2>5, <2>6 DEF Reasons
<1>25. ASSUME NEW p \in Proc, Send(p)
      PROVE  Reasons'
  <2>1. asked \subseteq asked' /\ rude \subseteq rude' /\ todo' \subseteq asked'
    BY <1>b, <1>25 DEF Send, Goto
  <2>2. Over => Over'
    BY <1>25 DEF Over, Send, Goto
  <2>3. ReaderReasons'
    BY <1>d, <1>25, <2>1, <2>2 DEF Idle, Send, Goto
  <2>4. CancelReasons'
    BY <1>b, <1>e, <1>25, <2>1 DEF ReaderReasons, Idle, Send, Goto
  <2>5. ThreadReasons'
    BY <1>a, <1>f, <1>25, <2>1, <2>2 DEF Judged, Send, Goto
  <2> QED
    BY <2>1, <2>3, <2>4, <2>5 DEF Reasons
<1>26. ASSUME NEW p \in Proc, Await(p)
      PROVE  Reasons'
  <2>1. asked \subseteq asked' /\ rude \subseteq rude' /\ todo' \subseteq asked'
    BY <1>b, <1>26 DEF Await, Goto
  <2>2. Over => Over'
    BY <1>26 DEF Over, Await, Goto
  <2>3. ReaderReasons'
    BY <1>d, <1>26, <2>1, <2>2 DEF Idle, Await, Goto
  <2>4. CancelReasons'
    BY <1>b, <1>e, <1>26, <2>1 DEF ReaderReasons, Idle, Await, Goto
  <2>5. ThreadReasons'
    BY <1>a, <1>f, <1>26, <2>1, <2>2 DEF Judged, Await, Goto
  <2> QED
    BY <2>1, <2>3, <2>4, <2>5 DEF Reasons
<1>27. ASSUME NEW p \in Proc, Unlist(p)
      PROVE  Reasons'
  <2>1. asked \subseteq asked' /\ rude \subseteq rude' /\ todo' \subseteq asked'
    BY <1>b, <1>27 DEF Unlist, Unlisted, Outside, Goto
  <2>2. Over => Over'
    BY <1>27 DEF Over, Unlist, Unlisted, Outside, Goto
  <2>3. ReaderReasons'
    BY <1>d, <1>27, <2>1, <2>2 DEF Idle, Unlist, Unlisted, Outside, Goto
  <2>4. CancelReasons'
    BY <1>b, <1>e, <1>27, <2>1 DEF ReaderReasons, Idle, Unlist, Unlisted, Outside, Goto
  <2>5. ThreadReasons'
    BY <1>a, <1>f, <1>27, <2>1, <2>2 DEF Judged, Unlist, Unlisted, Outside, Goto
  <2> QED
    BY <2>1, <2>3, <2>4, <2>5 DEF Reasons
<1>28. ASSUME NEW p \in Proc, Call(p)
      PROVE  Reasons'
  <2>1. asked \subseteq asked' /\ rude \subseteq rude' /\ todo' \subseteq asked'
    BY <1>b, <1>28 DEF Call, Outside, Goto
  <2>2. Over => Over'
    BY <1>28 DEF Over, Call, Outside, Goto
  <2>3. ReaderReasons'
    BY <1>d, <1>28, <2>1, <2>2 DEF Idle, Call, Outside, Goto
  <2>4. CancelReasons'
    BY <1>b, <1>e, <1>28, <2>1 DEF ReaderReasons, Idle, Call, Outside, Goto
  <2>5. ThreadReasons'
    BY <1>a, <1>f, <1>28, <2>1, <2>2 DEF Judged, Call, Outside, Goto
  <2> QED
    BY <2>1, <2>3, <2>4, <2>5 DEF Reasons
<1>29. ASSUME Rest \/ UNCHANGED vars
      PROVE  Reasons'
  <2>1. asked \subseteq asked' /\ rude \subseteq rude' /\ todo' \subseteq asked'
    BY <1>b, <1>29 DEF Rest, vars
  <2>2. Over => Over'
    BY <1>29 DEF Over, Rest, vars
  <2>3. ReaderReasons'
    BY <1>d, <1>29, <2>1, <2>2 DEF Idle, Rest, vars
  <2>4. CancelReasons'
    BY <1>b, <1>e, <1>29, <2>1 DEF ReaderReasons, Idle, Rest, vars
  <2>5. ThreadReasons'
    BY <1>a, <1>f, <1>29, <2>1, <2>2 DEF Judged, Rest, vars
  <2> QED
    BY <2>1, <2>3, <2>4, <2>5 DEF Reasons
<1>30. ASSUME Close
      PROVE  Reasons'
  <2>1. asked \subseteq asked' /\ rude \subseteq rude' /\ todo' \subseteq asked'
    BY <1>b, <1>30 DEF Close, Goto
  <2>2. Over => Over'
    BY <1>30 DEF Over, Close, Goto
  <2>3. ReaderReasons'
    BY <1>d, <1>30, <2>1, <2>2 DEF Idle, Close, Goto
  <2>4. CancelReasons'
    BY <1>b, <1>e, <1>30, <2>1 DEF ReaderReasons, Idle, Close, Goto
  <2>5. ThreadReasons'
    BY <1>a, <1>f, <1>30, <2>1, <2>2 DEF Judged, Close, Goto
  <2> QED
    BY <2>1, <2>3, <2>4, <2>5 DEF Reasons
<1>31. ASSUME NEW p \in Background, Leave(p)
      PROVE  Reasons'
  <2>1. asked \subseteq asked' /\ rude \subseteq rude' /\ todo' \subseteq asked'
    BY <1>b, <1>31 DEF Leave, Goto
  <2>2. Over => Over'
    BY <1>31 DEF Over, Leave, Goto
  <2>3. ReaderReasons'
    BY <1>d, <1>31, <2>1, <2>2 DEF Idle, Leave, Goto
  <2>4. CancelReasons'
    BY <1>b, <1>e, <1>31, <2>1 DEF ReaderReasons, Idle, Leave, Goto
  <2>5. ThreadReasons'
    BY <1>a, <1>f, <1>31, <2>1, <2>2 DEF Judged, Leave, Goto
  <2> QED
    BY <2>1, <2>3, <2>4, <2>5 DEF Reasons
<1>32. ASSUME NEW p \in Proc, TimeOut(p)
      PROVE  Reasons'
  <2>1. asked \subseteq asked' /\ rude \subseteq rude' /\ todo' \subseteq asked'
    BY <1>b, <1>32 DEF TimeOut, Goto
  <2>2. Over => Over'
    BY <1>32 DEF Over, TimeOut, Goto
  <2>3. ReaderReasons'
    BY <1>d, <1>32, <2>1, <2>2 DEF Idle, TimeOut, Goto
  <2>4. CancelReasons'
    BY <1>b, <1>e, <1>32, <2>1 DEF ReaderReasons, Idle, TimeOut, Goto
  <2>5. ThreadReasons'
    BY <1>a, <1>f, <1>32, <2>1, <2>2 DEF Judged, TimeOut, Goto
  <2> QED
    BY <2>1, <2>3, <2>4, <2>5 DEF Reasons
<1> QED
    BY <1>1, <1>2, <1>3, <1>4, <1>5, <1>6, <1>7, <1>8, <1>9, <1>10, <1>11, <1>12, <1>13,
       <1>14, <1>15, <1>16, <1>17, <1>18, <1>19, <1>20, <1>21, <1>22, <1>23, <1>24, <1>25,
       <1>26, <1>27, <1>28, <1>29, <1>30, <1>31, <1>32
       DEF Next, Reading, Answering, Dispatching, Working, Completing, Calling, Thread,
           Proc, Handler, Background, Results

(* Every step answers with a reason. *)
LEMMA AnswersStep ==
    Shape /\ Reasons /\ RequestsHold /\ [Next]_vars => RequestsHold'
<1> SUFFICES ASSUME Shape, Reasons, RequestsHold, [Next]_vars PROVE RequestsHold'
    OBVIOUS
<1> USE ConnectionAssumption DEF Proc, Handler, Background, queues, scopes, client, rpc, threads
<1>a. /\ answered \in [Msg -> Results \cup {Nil, "duplicate"}] /\ result \in [Proc -> Results \cup {Nil}]
      /\ ReaderOK
    BY DEF Shape, TypeOK
<1>b. ASSUME asked \subseteq asked', rude \subseteq rude', Over => Over', answered' = answered
      PROVE  RequestsHold'
    BY <1>b DEF RequestsHold, PoliteNeverRefused, CanceledForAReason
<1>1. ASSUME NEW i \in Id \cup {Nil}, NEW kind \in {"query", "shutdown", "exit"},
             Receive(i, kind)
      PROVE  RequestsHold'
  <2>1. asked \subseteq asked' /\ rude \subseteq rude' /\ answered' = answered
    BY <1>1 DEF Receive
  <2>2. Over => Over'
    BY <1>1 DEF Over, Receive
  <2> QED
    BY <1>b, <2>1, <2>2
<1>2. ASSUME NEW i \in Id, CancelRequest(i)
      PROVE  RequestsHold'
  <2>1. asked \subseteq asked' /\ rude \subseteq rude' /\ answered' = answered
    BY <1>2 DEF CancelRequest
  <2>2. Over => Over'
    BY <1>2 DEF Over, CancelRequest
  <2> QED
    BY <1>b, <2>1, <2>2
<1>3. ASSUME EndOfInput
      PROVE  RequestsHold'
  <2>1. asked \subseteq asked' /\ rude \subseteq rude' /\ answered' = answered
    BY <1>3 DEF EndOfInput
  <2>2. Over => Over'
    BY <1>3 DEF Over, EndOfInput
  <2> QED
    BY <1>b, <2>1, <2>2
<1>4. ASSUME NEW x \in {"connection", "process"}, End(x)
      PROVE  RequestsHold'
  <2>1. asked \subseteq asked' /\ rude \subseteq rude' /\ answered' = answered
    BY <1>4 DEF End
  <2>2. Over => Over'
    BY <1>4 DEF Over, End
  <2> QED
    BY <1>b, <2>1, <2>2
<1>5. ASSUME Put
      PROVE  RequestsHold'
  <2>1. asked \subseteq asked' /\ rude \subseteq rude' /\ answered' = answered
    BY <1>5 DEF Put
  <2>2. Over => Over'
    BY <1>5 DEF Over, Put
  <2> QED
    BY <1>b, <2>1, <2>2
<1>6. ASSUME Refuse
      PROVE  RequestsHold'
  <2>1. /\ UNCHANGED <<asked, rude, ended>> /\ reader.op = "refuse"
        /\ answered' \in {answered, [answered EXCEPT ![reader.m] = reader.r]}
    BY <1>6 DEF Refuse, Publish
  <2>2. Over' = Over
    BY <2>1 DEF Over
  <2>3. \A m \in Msg : answered'[m] = answered[m] \/ (m = reader.m /\ answered'[m] = reader.r)
    BY <1>a, <2>1
  <2> QED
    BY <2>1, <2>2, <2>3 DEF RequestsHold, PoliteNeverRefused, CanceledForAReason, Reasons,
           ReaderReasons
<1>7. ASSUME Cancel
      PROVE  RequestsHold'
  <2>1. asked \subseteq asked' /\ rude \subseteq rude' /\ answered' = answered
    BY <1>7 DEF Cancel
  <2>2. Over => Over'
    BY <1>7 DEF Over, Cancel
  <2> QED
    BY <1>b, <2>1, <2>2
<1>8. ASSUME Deliver
      PROVE  RequestsHold'
  <2>1. asked \subseteq asked' /\ rude \subseteq rude' /\ answered' = answered
    BY <1>8 DEF Deliver
  <2>2. Over => Over'
    BY <1>8 DEF Over, Deliver
  <2> QED
    BY <1>b, <2>1, <2>2
<1>9. ASSUME NEW n \in 1 .. MaxCalls, ReceiveReply(n)
      PROVE  RequestsHold'
  <2>1. asked \subseteq asked' /\ rude \subseteq rude' /\ answered' = answered
    BY <1>9 DEF ReceiveReply
  <2>2. Over => Over'
    BY <1>9 DEF Over, ReceiveReply
  <2> QED
    BY <1>b, <2>1, <2>2
<1>10. ASSUME Write
      PROVE  RequestsHold'
  <2>1. asked \subseteq asked' /\ rude \subseteq rude' /\ answered' = answered
    BY <1>10 DEF Write
  <2>2. Over => Over'
    BY <1>10 DEF Over, Write
  <2> QED
    BY <1>b, <2>1, <2>2
<1>11. ASSUME Dispatch
      PROVE  RequestsHold'
  <2>1. asked \subseteq asked' /\ rude \subseteq rude' /\ answered' = answered
    BY <1>11 DEF Dispatch, Goto
  <2>2. Over => Over'
    BY <1>11 DEF Over, Dispatch, Goto
  <2> QED
    BY <1>b, <2>1, <2>2
<1>12. ASSUME start_request
      PROVE  RequestsHold'
  <2>1. asked \subseteq asked' /\ rude \subseteq rude' /\ answered' = answered
    BY <1>12 DEF start_request, Goto
  <2>2. Over => Over'
    BY <1>12 DEF Over, start_request, Goto
  <2> QED
    BY <1>b, <2>1, <2>2
<1>13. ASSUME cancel_requests
      PROVE  RequestsHold'
  <2>1. asked \subseteq asked' /\ rude \subseteq rude' /\ answered' = answered
    BY <1>13 DEF cancel_requests, Goto
  <2>2. Over => Over'
    BY <1>13 DEF Over, cancel_requests, Goto
  <2> QED
    BY <1>b, <2>1, <2>2
<1>14. ASSUME CancelNext
      PROVE  RequestsHold'
  <2>1. asked \subseteq asked' /\ rude \subseteq rude' /\ answered' = answered
    BY <1>14 DEF CancelNext, Goto
  <2>2. Over => Over'
    BY <1>14 DEF Over, CancelNext, Goto
  <2> QED
    BY <1>b, <2>1, <2>2
<1>15. ASSUME Enqueue
      PROVE  RequestsHold'
  <2>1. asked \subseteq asked' /\ rude \subseteq rude' /\ answered' = answered
    BY <1>15 DEF Enqueue, Goto
  <2>2. Over => Over'
    BY <1>15 DEF Over, Enqueue, Goto
  <2> QED
    BY <1>b, <2>1, <2>2
<1>16. ASSUME Join
      PROVE  RequestsHold'
  <2>1. asked \subseteq asked' /\ rude \subseteq rude' /\ answered' = answered
    BY <1>16 DEF Join, Goto
  <2>2. Over => Over'
    BY <1>16 DEF Over, Join, Goto
  <2> QED
    BY <1>b, <2>1, <2>2
<1>17. ASSUME NEW outcome \in Results, Prepare(outcome)
      PROVE  RequestsHold'
  <2>1. asked \subseteq asked' /\ rude \subseteq rude' /\ answered' = answered
    BY <1>17 DEF Prepare, Goto
  <2>2. Over => Over'
    BY <1>17 DEF Over, Prepare, Goto
  <2> QED
    BY <1>b, <2>1, <2>2
<1>18. ASSUME NEW x \in {"connection", "query"}, Finish(x)
      PROVE  RequestsHold'
  <2>1. asked \subseteq asked' /\ rude \subseteq rude' /\ answered' = answered
    BY <1>18 DEF Finish, Goto
  <2>2. Over => Over'
    BY <1>18 DEF Over, Finish, Goto
  <2> QED
    BY <1>b, <2>1, <2>2
<1>19. ASSUME NEW w \in Worker, Fetch(w)
      PROVE  RequestsHold'
  <2>1. asked \subseteq asked' /\ rude \subseteq rude' /\ answered' = answered
    BY <1>19 DEF Fetch, Goto
  <2>2. Over => Over'
    BY <1>19 DEF Over, Fetch, Goto
  <2> QED
    BY <1>b, <2>1, <2>2
<1>20. ASSUME NEW w \in Worker, NEW outcome \in {"value", "error"}, Work(w, outcome)
      PROVE  RequestsHold'
  <2>1. asked \subseteq asked' /\ rude \subseteq rude' /\ answered' = answered
    BY <1>20 DEF Work, Goto
  <2>2. Over => Over'
    BY <1>20 DEF Over, Work, Goto
  <2> QED
    BY <1>b, <2>1, <2>2
<1>21. ASSUME NEW p \in Proc, Judge(p)
      PROVE  RequestsHold'
  <2>1. asked \subseteq asked' /\ rude \subseteq rude' /\ answered' = answered
    BY <1>21 DEF Judge, After, Goto
  <2>2. Over => Over'
    BY <1>21 DEF Over, Judge, After, Goto
  <2> QED
    BY <1>b, <2>1, <2>2
<1>22. ASSUME NEW p \in Proc, Retire(p)
      PROVE  RequestsHold'
  <2>1. asked \subseteq asked' /\ rude \subseteq rude' /\ answered' = answered
    BY <1>22 DEF Retire, After, Goto
  <2>2. Over => Over'
    BY <1>22 DEF Over, Retire, After, Goto
  <2> QED
    BY <1>b, <2>1, <2>2
<1>23. ASSUME NEW p \in Proc, Reply(p)
      PROVE  RequestsHold'
  <2>1. /\ UNCHANGED <<asked, rude>> /\ ended \subseteq ended' /\ pc[p] = "reply"
        /\ answered' \in {answered, [answered EXCEPT ![cur[p]] = result[p]]}
    BY <1>23 DEF Reply, Publish
  <2>2. Over => Over'
    BY <2>1 DEF Over
  <2>3. \A m \in Msg : answered'[m] = answered[m] \/ (m = cur[p] /\ answered'[m] = result[p])
    BY <1>a, <2>1
  <2>4. result[p] # "duplicate" /\ (result[p] = "canceled" => cur[p] \in asked \/ Over)
    BY <1>a, <2>1 DEF Reasons, ThreadReasons, Judged, Results
  <2> QED
    BY <2>1, <2>2, <2>3, <2>4 DEF RequestsHold, PoliteNeverRefused, CanceledForAReason
<1>24. ASSUME NEW p \in Proc, Release(p)
      PROVE  RequestsHold'
  <2>1. asked \subseteq asked' /\ rude \subseteq rude' /\ answered' = answered
    BY <1>24 DEF Release, Own, Goto
  <2>2. Over => Over'
    BY <1>24 DEF Over, Release, Own, Goto
  <2> QED
    BY <1>b, <2>1, <2>2
<1>25. ASSUME NEW p \in Proc, Send(p)
      PROVE  RequestsHold'
  <2>1. asked \subseteq asked' /\ rude \subseteq rude' /\ answered' = answered
    BY <1>25 DEF Send, Goto
  <2>2. Over => Over'
    BY <1>25 DEF Over, Send, Goto
  <2> QED
    BY <1>b, <2>1, <2>2
<1>26. ASSUME NEW p \in Proc, Await(p)
      PROVE  RequestsHold'
  <2>1. asked \subseteq asked' /\ rude \subseteq rude' /\ answered' = answered
    BY <1>26 DEF Await, Goto
  <2>2. Over => Over'
    BY <1>26 DEF Over, Await, Goto
  <2> QED
    BY <1>b, <2>1, <2>2
<1>27. ASSUME NEW p \in Proc, Unlist(p)
      PROVE  RequestsHold'
  <2>1. asked \subseteq asked' /\ rude \subseteq rude' /\ answered' = answered
    BY <1>27 DEF Unlist, Unlisted, Outside, Goto
  <2>2. Over => Over'
    BY <1>27 DEF Over, Unlist, Unlisted, Outside, Goto
  <2> QED
    BY <1>b, <2>1, <2>2
<1>28. ASSUME NEW p \in Proc, Call(p)
      PROVE  RequestsHold'
  <2>1. asked \subseteq asked' /\ rude \subseteq rude' /\ answered' = answered
    BY <1>28 DEF Call, Outside, Goto
  <2>2. Over => Over'
    BY <1>28 DEF Over, Call, Outside, Goto
  <2> QED
    BY <1>b, <2>1, <2>2
<1>29. ASSUME Rest \/ UNCHANGED vars
      PROVE  RequestsHold'
  <2>1. asked \subseteq asked' /\ rude \subseteq rude' /\ answered' = answered
    BY <1>29 DEF Rest, vars
  <2>2. Over => Over'
    BY <1>29 DEF Over, Rest, vars
  <2> QED
    BY <1>b, <2>1, <2>2
<1>30. ASSUME Close
      PROVE  RequestsHold'
  <2>1. asked \subseteq asked' /\ rude \subseteq rude' /\ answered' = answered
    BY <1>30 DEF Close, Goto
  <2>2. Over => Over'
    BY <1>30 DEF Over, Close, Goto
  <2> QED
    BY <1>b, <2>1, <2>2
<1>31. ASSUME NEW p \in Background, Leave(p)
      PROVE  RequestsHold'
  <2>1. asked \subseteq asked' /\ rude \subseteq rude' /\ answered' = answered
    BY <1>31 DEF Leave, Goto
  <2>2. Over => Over'
    BY <1>31 DEF Over, Leave, Goto
  <2> QED
    BY <1>b, <2>1, <2>2
<1>32. ASSUME NEW p \in Proc, TimeOut(p)
      PROVE  RequestsHold'
  <2>1. asked \subseteq asked' /\ rude \subseteq rude' /\ answered' = answered
    BY <1>32 DEF TimeOut, Goto
  <2>2. Over => Over'
    BY <1>32 DEF Over, TimeOut, Goto
  <2> QED
    BY <1>b, <2>1, <2>2
<1> QED
    BY <1>1, <1>2, <1>3, <1>4, <1>5, <1>6, <1>7, <1>8, <1>9, <1>10, <1>11, <1>12, <1>13,
       <1>14, <1>15, <1>16, <1>17, <1>18, <1>19, <1>20, <1>21, <1>22, <1>23, <1>24, <1>25,
       <1>26, <1>27, <1>28, <1>29, <1>30, <1>31, <1>32
       DEF Next, Reading, Answering, Dispatching, Working, Completing, Calling, Thread,
           Proc, Handler, Background, Results

(* A client that reuses an ID only after the response to it is never refused
   for it, and a request is answered as cancelled only when it was cancelled
   itself or the connection ended. *)
THEOREM AnswersHaveReasons == Spec => []RequestsHold
<1>1. Init => Reasons /\ RequestsHold
    BY ConnectionAssumption
       DEF Init, Reasons, ReaderReasons, CancelReasons, ThreadReasons, RequestsHold, PoliteNeverRefused,
           CanceledForAReason, Idle, Judged
<1> QED
    BY <1>1, ReasonsStep, AnswersStep, IdsHold, ShapeHolds, PTL DEF Spec
=============================================================================
