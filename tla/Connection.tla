----------------------------- MODULE Connection -----------------------------
(***************************************************************************)
(* One connection of the language server: the admission pump, the          *)
(* dispatcher and the workers (crates/tsr_lsp/src/connection.rs), requests *)
(* to the client (rpc_client.rs) and the reader and writer threads around  *)
(* them (crates/tsrust/src/lsp.rs).                                        *)
(*                                                                         *)
(* The queues are DynamicQueues, used as CancelableQueue describes them:   *)
(* put and get are one step, and give up when their context has ended.     *)
(* Every request context is a child of the connection's, and that of the   *)
(* process's; err() looks at all of them.                                  *)
(***************************************************************************)
EXTENDS Naturals, Sequences, FiniteSets

CONSTANTS Msg, Id, Worker, Disp, Nil,
          Observer,    \* the thread that observes the session's events
          Watch,       \* threads that update the client's file watches
          MaxCalls,    \* bound on requests to the client
          MayEnd       \* whether input may end and output fail

Message == [id : Id \cup {Nil}, kind : {"query", "shutdown", "exit"}]

(* The threads that handle requests, and those of the session, which call the
   client too. *)
Handler == Worker \cup {Disp}
Background == Watch \cup {Observer}
Proc == Handler \cup Background

ASSUME ConnectionAssumption ==
    /\ Disp \notin Worker /\ Background \cap Handler = {} /\ MaxCalls \in Nat /\ MayEnd \in BOOLEAN
    /\ Nil \notin Msg \cup Id \cup Proc \cup Message
    /\ Nil \notin {"reserved", "duplicate", "canceled"}
    /\ "reserved" \notin Msg /\ Msg \cap Nat = {}

VARIABLES msg,       \* a message the reader has read, or Nil
          contexts,  \* Admission.contexts: Nil, "reserved" or the request whose context it is
          reader,    \* what the reader thread is doing
          requests, jobs,   \* the two queues
          outgoing,  \* the queue to the writer: responses and requests to the client
          canceled,  \* requests whose own context is cancelled
          ended,     \* the contexts cancelled among "process", "connection", "query"
          pc, cur,   \* where a thread is, and with which request
          result,    \* of the request a thread completes
          todo,      \* requests that shutdown has yet to cancel
          shutdown,  \* Runtime.shutdown
          answered,  \* the response of a request, once published
          seen,      \* what the writer has written
          pending,   \* RpcClient.pending: calls of the client that wait
          box,       \* replies to calls, delivered and not taken
          rev,       \* the call a thread is in, or 0
          calls,     \* RpcClient.next
          asked,     \* history: requests that a cancellation found running
          rude       \* history: requests sent with the ID of one not yet answered

queues == <<requests, jobs, outgoing>>
scopes == <<canceled, ended>>
client == <<answered, seen, asked, rude>>
rpc == <<pending, box, rev, calls>>
threads == <<pc, cur, result, todo, shutdown>>
vars == <<msg, contexts, reader, queues, scopes, client, rpc, threads>>

Idle == [op |-> "read"]

Init ==
    /\ msg = [m \in Msg |-> Nil]
    /\ contexts = [i \in Id |-> Nil]
    /\ reader = Idle
    /\ requests = <<>> /\ jobs = <<>> /\ outgoing = <<>>
    /\ canceled = {} /\ ended = {} /\ todo = {} /\ seen = {} /\ asked = {} /\ rude = {}
    /\ pc = [p \in Proc |-> IF p \in Background THEN "idle" ELSE "get"]
    /\ cur = [p \in Proc |-> Nil]
    /\ result = [p \in Proc |-> Nil]
    /\ shutdown = FALSE
    /\ answered = [m \in Msg |-> Nil]
    /\ pending = [n \in 1 .. MaxCalls |-> Nil]
    /\ box = {} /\ calls = 0
    /\ rev = [p \in Proc |-> 0]

Over == ended \cap {"process", "connection"} # {}
QueryOver == Over \/ "query" \in ended
Err(m) == Over \/ m \in canceled
Goto(p, l) == [pc EXCEPT ![p] = l]
HasId(m) == msg[m].id # Nil
----------------------------------------------------------------------------
(* The reader thread: Input::receive *)

Publish(m, r) ==
    IF "process" \in ended
      THEN UNCHANGED <<outgoing, answered>>
      ELSE /\ outgoing' = Append(outgoing, m)
           /\ answered' = [answered EXCEPT ![m] = r]

(* A request before this one has the ID, and its response is not written. *)
Reused(i) == \E m \in Msg : msg[m] # Nil /\ msg[m].id = i /\ m \notin seen

(* Mutant: an ID in use is not refused. *)
NeverTaken(i) == FALSE
Taken(i) == contexts[i] # Nil

Unread == {m \in Msg : msg[m] = Nil}

(* The ID is reserved at admission.  Which message is next is immaterial. *)
Receive(i, kind) ==
    LET m == CHOOSE x \in Unread : TRUE
    IN  /\ reader = Idle /\ Unread # {}
        /\ msg' = [msg EXCEPT ![m] = [id |-> i, kind |-> kind]]
        /\ IF i # Nil /\ Taken(i)
             THEN /\ reader' = [op |-> "refuse", m |-> m, r |-> "duplicate"]
                  /\ UNCHANGED contexts
             ELSE /\ reader' = [op |-> "put", m |-> m]
                  /\ contexts' = IF i # Nil THEN [contexts EXCEPT ![i] = "reserved"] ELSE contexts
        /\ rude' = rude \cup (IF i # Nil /\ Reused(i) THEN {m} ELSE {})
        /\ UNCHANGED <<queues, scopes, answered, seen, asked, rpc, threads>>

Put ==
    /\ reader.op = "put"
    /\ IF Over
         THEN /\ reader' = [op |-> "refuse", m |-> reader.m, r |-> "canceled"]
              /\ contexts' = IF HasId(reader.m) THEN [contexts EXCEPT ![msg[reader.m].id] = Nil]
                              ELSE contexts
              /\ UNCHANGED requests
         ELSE /\ reader' = Idle
              /\ requests' = Append(requests, reader.m)
              /\ UNCHANGED contexts
    /\ UNCHANGED <<msg, jobs, outgoing, scopes, client, rpc, threads>>

(* An error response; without an output the reader ends. *)
Refuse ==
    /\ reader.op = "refuse"
    /\ Publish(reader.m, reader.r)
    /\ reader' = IF "process" \in ended THEN [op |-> "end"] ELSE Idle
    /\ UNCHANGED <<msg, contexts, requests, jobs, scopes, seen, asked, rude, rpc, threads>>

(* $/cancelRequest finds the context, and cancels it without the lock. *)
CancelRequest(i) ==
    /\ reader = Idle
    /\ contexts[i] \in Msg
    /\ reader' = [op |-> "cancel", m |-> contexts[i]]
    /\ asked' = asked \cup {contexts[i]}
    /\ UNCHANGED <<msg, contexts, queues, scopes, answered, seen, rude, rpc, threads>>

Cancel ==
    /\ reader.op = "cancel"
    /\ canceled' = canceled \cup {reader.m}
    /\ reader' = Idle
    /\ UNCHANGED <<msg, contexts, queues, ended, client, rpc, threads>>

(* RpcClient::receive: a response to a call, once or again; unknown and
   retired calls are ignored. *)
ReceiveReply(n) ==
    /\ reader = Idle
    /\ n \in seen /\ pending[n] # Nil
    /\ pending' = [pending EXCEPT ![n] = Nil]
    /\ reader' = [op |-> "deliver", n |-> n]
    /\ UNCHANGED <<msg, contexts, queues, scopes, client, box, rev, calls, threads>>

Deliver ==
    /\ reader.op = "deliver"
    /\ box' = box \cup (IF \E p \in Proc : rev[p] = reader.n THEN {reader.n} ELSE {})
    /\ reader' = Idle
    /\ UNCHANGED <<msg, contexts, queues, scopes, client, pending, rev, calls, threads>>

EndOfInput ==
    /\ MayEnd /\ reader = Idle
    /\ reader' = [op |-> "end"]
    /\ UNCHANGED <<msg, contexts, queues, scopes, client, rpc, threads>>

(* The reader ends, the last thing it does, or the output fails, or the
   process is told to stop. *)
End(x) ==
    /\ x \notin ended
    /\ \/ x = "connection" /\ reader.op = "end"
       \/ x = "process" /\ MayEnd
    /\ ended' = ended \cup {x}
    /\ UNCHANGED <<msg, contexts, reader, queues, canceled, client, rpc, threads>>

(* The writer thread *)
Write ==
    /\ outgoing # <<>> /\ "process" \notin ended
    /\ seen' = seen \cup {Head(outgoing)}
    /\ outgoing' = Tail(outgoing)
    /\ UNCHANGED <<msg, contexts, reader, requests, jobs, scopes, answered, asked, rude, rpc,
                   threads>>
----------------------------------------------------------------------------
(* The dispatcher: Connection::run *)

Dispatch ==
    /\ pc[Disp] = "get"
    /\ IF Over
         THEN pc' = Goto(Disp, "end") /\ UNCHANGED <<requests, cur>>
         ELSE /\ requests # <<>>
              /\ cur' = [cur EXCEPT ![Disp] = Head(requests)]
              /\ requests' = Tail(requests)
              /\ pc' = Goto(Disp, "start")
    /\ UNCHANGED <<msg, contexts, reader, jobs, outgoing, scopes, client, rpc, result, todo,
                   shutdown>>

start_request ==
    LET m == cur[Disp]
    IN  /\ pc[Disp] = "start"
        /\ contexts' = IF HasId(m) THEN [contexts EXCEPT ![msg[m].id] = m] ELSE contexts
        /\ pc' = Goto(Disp, IF msg[m].kind = "shutdown" THEN "collect" ELSE "prepare")
        /\ UNCHANGED <<msg, reader, queues, scopes, client, rpc, cur, result, todo, shutdown>>

Others(m) == {contexts[i] : i \in Id} \ {Nil, "reserved", m}

cancel_requests ==
    /\ pc[Disp] = "collect"
    /\ todo' = Others(cur[Disp])
    /\ asked' = asked \cup todo'
    /\ pc' = Goto(Disp, "cancel")
    /\ UNCHANGED <<msg, contexts, reader, queues, scopes, answered, seen, rude, rpc, cur, result,
                   shutdown>>

CancelNext ==
    /\ pc[Disp] = "cancel"
    /\ IF todo = {}
         THEN pc' = Goto(Disp, "prepare") /\ UNCHANGED <<todo, canceled>>
         ELSE \E m \in todo : /\ canceled' = canceled \cup {m}
                              /\ todo' = todo \ {m}
                              /\ UNCHANGED pc
    /\ UNCHANGED <<msg, contexts, reader, queues, ended, client, rpc, cur, result, shutdown>>

(* Runtime::prepare.  Decoding may fail, and "exit" is refused before
   initialization; a panic is an error of the request. *)
Outcomes(m) ==
    IF Err(m) THEN {"canceled"}
    ELSE IF msg[m].kind = "exit" THEN {"exit", "error"}
    ELSE IF shutdown THEN {"error"}
    ELSE IF msg[m].kind = "query" THEN {"value", "error", "work"}
    ELSE {"value", "error"}

Prepare(outcome) ==
    LET m == cur[Disp]
    IN  /\ pc[Disp] = "prepare" /\ rev[Disp] = 0
        /\ outcome \in Outcomes(m)
        /\ shutdown' = (shutdown \/ (msg[m].kind = "shutdown" /\ outcome = "value"))
        /\ result' = [result EXCEPT ![Disp] = outcome]
        /\ pc' = Goto(Disp, IF outcome = "exit" THEN "end"
                            ELSE IF outcome = "work" THEN "enqueue" ELSE "judge")
        /\ UNCHANGED <<msg, contexts, reader, queues, scopes, client, rpc, cur, todo>>

Enqueue ==
    /\ pc[Disp] = "enqueue"
    /\ IF QueryOver
         THEN pc' = Goto(Disp, "end") /\ UNCHANGED <<jobs, cur, result>>
         ELSE /\ pc' = Goto(Disp, "get")
              /\ jobs' = Append(jobs, cur[Disp])
              /\ cur' = [cur EXCEPT ![Disp] = Nil]
              /\ result' = [result EXCEPT ![Disp] = Nil]
    /\ UNCHANGED <<msg, contexts, reader, requests, outgoing, scopes, client, rpc, todo, shutdown>>

(* After the loop: the connection ends, its queries end, the workers are
   joined and the runtime is closed. *)
Finish(x) ==
    /\ pc[Disp] = (IF x = "connection" THEN "end" ELSE "endQueries")
    /\ x \in {"connection", "query"}
    /\ ended' = ended \cup {x}
    /\ pc' = Goto(Disp, IF x = "connection" THEN "endQueries" ELSE "join")
    /\ UNCHANGED <<msg, contexts, reader, queues, canceled, client, rpc, cur, result, todo,
                   shutdown>>

Join ==
    /\ pc[Disp] = "join" /\ \A w \in Worker : pc[w] = "stopped"
    /\ pc' = Goto(Disp, "close")
    /\ UNCHANGED <<msg, contexts, reader, queues, scopes, client, rpc, cur, result, todo,
                   shutdown>>

(* Runtime::close: closing the session waits for the threads that update
   watches, and then sends the observer the event it ends at. *)
Leave(b) ==
    /\ pc[Disp] = "close" /\ pc[b] = "idle"
    /\ b = Observer => \A w \in Watch : pc[w] = "stopped"
    /\ pc' = Goto(b, "stopped")
    /\ UNCHANGED <<msg, contexts, reader, queues, scopes, client, rpc, cur, result, todo,
                   shutdown>>

(* The observer is joined, run returns, and the process's context is
   cancelled. *)
Close ==
    /\ pc[Disp] = "close" /\ pc[Observer] = "stopped"
    /\ pc' = Goto(Disp, "stopped")
    /\ ended' = ended \cup {"process"}
    /\ UNCHANGED <<msg, contexts, reader, queues, canceled, client, rpc, cur, result, todo,
                   shutdown>>
----------------------------------------------------------------------------
(* The workers *)

Fetch(w) ==
    /\ pc[w] = "get"
    /\ IF QueryOver
         THEN pc' = Goto(w, "stopped") /\ UNCHANGED <<jobs, cur>>
         ELSE /\ jobs # <<>>
              /\ cur' = [cur EXCEPT ![w] = Head(jobs)]
              /\ jobs' = Tail(jobs)
              /\ pc' = Goto(w, "work")
    /\ UNCHANGED <<msg, contexts, reader, requests, outgoing, scopes, client, rpc, result, todo,
                   shutdown>>

Work(w, outcome) ==
    /\ pc[w] = "work" /\ rev[w] = 0
    /\ result' = [result EXCEPT ![w] = outcome]
    /\ pc' = Goto(w, "judge")
    /\ UNCHANGED <<msg, contexts, reader, queues, scopes, client, rpc, cur, todo, shutdown>>
----------------------------------------------------------------------------
(* Input::complete, by the dispatcher or by a worker *)

(* Mutant: no response. *)
NoResponse(l) == IF l = "judge" THEN "retire" ELSE "release"
(* "Retire before publishing" *)
After(l) == IF l = "judge" THEN "retire" ELSE IF l = "retire" THEN "reply" ELSE "release"

Judge(p) ==
    LET m == cur[p]
    IN  /\ pc[p] = "judge"
        /\ result' = [result EXCEPT ![p] = IF Err(m) THEN "canceled" ELSE @]
        /\ pc' = Goto(p, IF HasId(m) THEN After("judge") ELSE "release")
        /\ UNCHANGED <<msg, contexts, reader, queues, scopes, client, rpc, cur, todo, shutdown>>

Retire(p) ==
    /\ pc[p] = "retire"
    /\ contexts' = [contexts EXCEPT ![msg[cur[p]].id] = Nil]
    /\ pc' = Goto(p, After("retire"))
    /\ UNCHANGED <<msg, reader, queues, scopes, client, rpc, cur, result, todo, shutdown>>

Reply(p) ==
    /\ pc[p] = "reply"
    /\ Publish(cur[p], result[p])
    /\ ended' = IF "process" \in ended THEN ended \cup {"connection"} ELSE ended
    /\ pc' = Goto(p, After("reply"))
    /\ UNCHANGED <<msg, contexts, reader, requests, jobs, canceled, seen, asked, rude, rpc, cur,
                   result, todo, shutdown>>

(* Mutant: the context is looked up by ID when the request ends. *)
ByID(m) == IF HasId(m) THEN {contexts[msg[m].id]} ELSE {m}
Own(m) == {m}

Release(p) ==
    /\ pc[p] = "release"
    /\ canceled' = canceled \cup Own(cur[p])
    /\ cur' = [cur EXCEPT ![p] = Nil]
    /\ result' = [result EXCEPT ![p] = Nil]
    /\ pc' = Goto(p, "get")
    /\ UNCHANGED <<msg, contexts, reader, queues, ended, client, rpc, todo, shutdown>>
----------------------------------------------------------------------------
(* RpcClient::request, made while a request is prepared or worked on, for an
   event of the session, or to update its watches.  The threads of the session
   use contexts that do not end before the connection's. *)

Outside(p) == IF p = Disp THEN "prepare" ELSE IF p \in Worker THEN "work" ELSE "idle"

Call(p) ==
    /\ pc[p] = Outside(p) /\ rev[p] = 0 /\ ~Err(cur[p]) /\ calls < MaxCalls
    /\ calls' = calls + 1
    /\ rev' = [rev EXCEPT ![p] = calls + 1]
    /\ pending' = [pending EXCEPT ![calls + 1] = p]
    /\ pc' = Goto(p, "send")
    /\ UNCHANGED <<msg, contexts, reader, queues, scopes, client, box, cur, result, todo, shutdown>>

Send(p) ==
    /\ pc[p] = "send"
    /\ IF "process" \in ended
         THEN pc' = Goto(p, "unlist") /\ UNCHANGED outgoing
         ELSE pc' = Goto(p, "await") /\ outgoing' = Append(outgoing, rev[p])
    /\ UNCHANGED <<msg, contexts, reader, requests, jobs, scopes, client, rpc, cur, result, todo,
                   shutdown>>

(* Mutant: the end of the request does not end the call. *)
OnlyReply(p) == rev[p] \in box
CallEnds(p) == rev[p] \in box \/ Err(cur[p])

Await(p) ==
    /\ pc[p] = "await" /\ CallEnds(p)
    /\ box' = box \ {rev[p]}
    /\ pc' = Goto(p, "unlist")
    /\ UNCHANGED <<msg, contexts, reader, queues, scopes, client, pending, rev, calls, cur,
                   result, todo, shutdown>>

(* WatchManager::call gives a call to the client a time limit. *)
TimeOut(w) ==
    /\ w \in Watch /\ pc[w] = "await"
    /\ box' = box \ {rev[w]}
    /\ pc' = Goto(w, "unlist")
    /\ UNCHANGED <<msg, contexts, reader, queues, scopes, client, pending, rev, calls, cur,
                   result, todo, shutdown>>

(* Mutant: a call that was given up stays listed. *)
StillPending(n) == pending
Unlisted(n) == [pending EXCEPT ![n] = Nil]

Unlist(p) ==
    /\ pc[p] = "unlist"
    /\ pending' = Unlisted(rev[p])
    /\ rev' = [rev EXCEPT ![p] = 0]
    /\ pc' = Goto(p, Outside(p))
    /\ UNCHANGED <<msg, contexts, reader, queues, scopes, client, box, calls, cur, result, todo,
                   shutdown>>
----------------------------------------------------------------------------
Reading == Put \/ Refuse \/ Cancel \/ Deliver \/ End("connection")
Dispatching ==
    \/ Dispatch \/ start_request \/ cancel_requests \/ CancelNext \/ Enqueue \/ Join \/ Close
    \/ (\E outcome \in {"value", "error", "canceled", "work", "exit"} : Prepare(outcome))
    \/ (\E x \in {"connection", "query"} : Finish(x))
Working(w) == Fetch(w) \/ \E outcome \in {"value", "error"} : Work(w, outcome)
Completing(p) == Judge(p) \/ Retire(p) \/ Reply(p) \/ Release(p)
Calling(p) == Send(p) \/ Await(p) \/ Unlist(p)
(* What a thread does by itself *)
Thread(p) ==
    \/ Completing(p) \/ Calling(p)
    \/ p = Disp /\ Dispatching
    \/ p \in Worker /\ Working(p)
    \/ p \in Background /\ Leave(p)
Answering == \E n \in 1 .. MaxCalls : ReceiveReply(n)

(* Waiting for input, or stopped *)
Rest ==
    /\ \A p \in Proc : pc[p] \in {"get", "idle", "stopped"}
    /\ pc[Disp] = "get" => requests = <<>> /\ jobs = <<>> /\ ~Over
    /\ UNCHANGED vars

Next ==
    \/ \E i \in Id, kind \in {"query", "shutdown"} : Receive(i, kind)
    \/ \E kind \in {"query", "exit"} : Receive(Nil, kind)
    \/ \E i \in Id : CancelRequest(i)
    \/ EndOfInput \/ End("process")
    \/ Reading \/ Answering \/ Write
    \/ \E p \in Proc : Thread(p) \/ Call(p) \/ TimeOut(p)
    \/ Rest

Spec == Init /\ [][Next]_vars

(* Threads run, work ends, output is written and the client answers. *)
FairSpec ==
    /\ Spec
    /\ WF_vars(Reading) /\ WF_vars(Write)
    /\ \A n \in 1 .. MaxCalls : SF_vars(ReceiveReply(n))
    /\ \A p \in Proc : WF_vars(Thread(p))
----------------------------------------------------------------------------
(* Properties *)

(* Requests admitted whose ID is not retired yet: on their way into the queue,
   in a queue, or with a thread. *)
Elements(q) == {q[k] : k \in 1 .. Len(q)}
Waiting == Elements(requests) \cup (IF reader.op = "put" THEN {reader.m} ELSE {})
                              \cup (IF pc[Disp] = "start" THEN {cur[Disp]} ELSE {})
Running == Elements(jobs) \cup {cur[p] : p \in {q \in Proc : pc[q] \notin {"get", "start", "reply", "release"}}}

(* The map of contexts and the requests agree: one that waits has its ID
   reserved, one that runs is found, and cancelled, by its ID, and no ID stays
   reserved for a request that is gone.  So start_request's expectation
   "request ID reserved at admission" holds, and no two requests in flight
   share an ID. *)
IdsAgree ==
    \A i \in Id :
        LET waiting == {m \in Waiting : msg[m].id = i}
            running == {m \in Running \ {Nil} : msg[m].id = i}
        IN  IF contexts[i] = Nil THEN waiting \cup running = {}
            ELSE IF contexts[i] = "reserved" THEN running = {} /\ Cardinality(waiting) = 1
            ELSE running = {contexts[i]} /\ waiting = {}

(* A client that reuses an ID only after the response to it is never told
   "duplicate in-flight request ID". *)
PoliteNeverRefused == \A m \in Msg : answered[m] = "duplicate" => m \in rude

(* A request is cancelled because a $/cancelRequest or a shutdown found it
   running, or the connection ended; not because another request with its ID
   was, or came to its end. *)
CanceledForAReason ==
    \A m \in Msg : answered[m] = "canceled" => m \in asked \/ Over

(* What a request meets is its own doing: refusals and cancellations. *)
RequestsHold == PoliteNeverRefused /\ CanceledForAReason

(* A call to the client is listed as pending only while its caller is in it:
   whatever way a call ends, nothing is left behind for a late reply. *)
PendingIsAwaited ==
    \A n \in 1 .. MaxCalls :
        pending[n] # Nil => rev[pending[n]] = n /\ pc[pending[n]] \in {"send", "await", "unlist"}

(* Every request that was read is answered, unless the connection ends. *)
AllAnswered ==
    \A m \in Msg : (msg[m] # Nil /\ HasId(m)) ~> (answered[m] # Nil \/ Over)

(* When the connection ends, whoever ended it, run() comes to its end: the
   dispatcher, every worker it joins and every thread of the session that
   Runtime::close waits for stop, also those that wait for the client. *)
StopsWhenOver == Over ~> pc[Disp] = "stopped"
=============================================================================
