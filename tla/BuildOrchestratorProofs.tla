------------------------ MODULE BuildOrchestratorProofs ------------------------
(***************************************************************************)
(* What a build promises for every graph, every number of builders and     *)
(* every scenario: the reports follow the graph's order, a task that is    *)
(* done is final, the builders never all wait for each other, projects are *)
(* skipped for a reason, and a watch that is quiet has built everything.   *)
(*                                                                         *)
(* The invariants come in layers.  IInv says how the positions of the      *)
(* order are shared out while a build runs (Walk): every position below    *)
(* the counter is reported or with exactly one builder, what is done has   *)
(* its upstream tasks done, and what is reported is a prefix of the order. *)
(* Stage says that a build ends only when all of its order is done.  On    *)
(* these rest Fresh and Skipping, for one build that stops at errors, and  *)
(* Versions, Firsts and Quiet, for a watch.                                *)
(***************************************************************************)
EXTENDS BuildOrchestrator, TLAPS, WellFoundedInduction

Busy == {"wait", "build", "report"}
Mine(b) == graph.order[at[b].pos]

(* A builder that has a position has one of its own, below the counter.    *)
Placed ==
  /\ \A b \in Builder : at[b].step \in Busy =>
       at[b].pos \in DOMAIN graph.order /\ at[b].pos < current
  /\ \A b, c \in Builder :
       at[b].step \in Busy /\ at[c].step \in Busy /\ at[b].pos = at[c].pos => b = c

(* What its step says about its task.                                      *)
Stepped ==
  \A b \in Builder :
    /\ at[b].step \in {"wait", "build"} => Mine(b) \notin done
    /\ at[b].step = "build" => Up(Mine(b)) \subseteq done
    /\ at[b].step = "report" => Mine(b) \in done \ reported

(* Tasks that are done have a position below the counter and have their    *)
(* upstream tasks done; positions below the counter are reported or held.  *)
Counted ==
  /\ reported \subseteq done
  /\ \A i \in DOMAIN graph.order : graph.order[i] \in done => i < current
  /\ \A t \in done : Up(t) \subseteq done
  /\ \A i \in DOMAIN graph.order : i < current =>
       \/ graph.order[i] \in reported
       \/ \E b \in Builder : at[b].step \in Busy /\ at[b].pos = i

(* What is reported is a prefix of the order, printed in its order.        *)
Sorted ==
  /\ \A i, j \in DOMAIN graph.order :
       i < j /\ graph.order[j] \in reported => graph.order[i] \in reported
  /\ printed \in Seq(Task)
  /\ \A i \in DOMAIN printed : printed[i] \in reported
  /\ \A i, j \in DOMAIN printed : \A k, l \in DOMAIN graph.order :
       i < j /\ printed[i] = graph.order[k] /\ printed[j] = graph.order[l] => k < l

Walk == Placed /\ Stepped /\ Counted /\ Sorted

(* A compilation has read its inputs; a builder of no build is gone.       *)
Read == \A b \in Builder : at[b].step = "build" => at[b].read \in Inputs
Idle == phase # "building" => \A b \in Builder : at[b].step = "gone"

IInv == TypeOK /\ Read /\ Idle /\ (phase = "building" => Walk)

-------------------------------------------------------------------------------
(* The least-number principle, for sets.                                   *)
Below == {p \in Nat \X Nat : p[1] < p[2]}
LEMMA Least ==
  ASSUME NEW S, S \subseteq Nat, S # {}
  PROVE  \E m \in S : \A k \in S : m <= k
<1>1. IsWellFoundedOn(Below, Nat)
  <2>1. IsWellFoundedOn(OpToRel(<, Nat), Nat)
    BY NatLessThanWellFounded, Zenon
  <2> QED
    BY <2>1, Zenon DEF OpToRel, Below
<1>2. PICK m \in S : \A k \in S : ~(<<k, m>> \in Below)
  BY <1>1, WFMin, Zenon
<1>3. \A k \in S : ~(k < m)
  BY <1>2 DEF Below
<1> QED
  BY <1>3

(* What the graph gives: tasks in the order, each once, after its upstream *)
(* tasks.                                                                  *)
LEMMA Order ==
  ASSUME graph \in Graphs
  PROVE  /\ graph.order \in Seq(Task) /\ DOMAIN graph.order \subseteq Nat
         /\ \A i \in DOMAIN graph.order : graph.order[i] \in Task
         /\ \A t \in Task : graph.upstream[t] \in Seq(Task)
         /\ \A i, j \in DOMAIN graph.order : graph.order[i] = graph.order[j] => i = j
         /\ \A i \in DOMAIN graph.order : \A u \in Up(graph.order[i]) :
              \E j \in DOMAIN graph.order : j < i /\ graph.order[j] = u
         /\ Range(graph.order) \subseteq Task
         /\ \A t \in Task : Referred(graph, t) \subseteq Task
<1>1. Topological(graph)
  BY GraphsAreTopological
<1>2. Range(graph.order) \subseteq Task
  BY <1>1 DEF Topological, Range
<1> QED
  BY <1>1, <1>2 DEF Topological, Up

(* Upstream tasks are tasks.                                               *)
LEMMA UpIsTask ==
  ASSUME graph \in Graphs, NEW t \in Task
  PROVE  Up(t) \subseteq Task
<1>1. graph.upstream[t] \in Seq(Task)
  BY Order
<1> QED
  BY <1>1 DEF Up, Range

(* The first upstream task with errors is there when there is one.         *)
LEMMA FirstBadIsTask ==
  ASSUME TypeOK, NEW t \in Task, Stopped(t)
  PROVE  FirstBad(t) \in Task /\ FirstBad(t) \in Up(t) /\ IsError(status[FirstBad(t)])
<1> DEFINE s == graph.upstream[t]
           Bad(i) == IsError(status[s[i]])
           S == {i \in DOMAIN s : Bad(i)}
<1>1. s \in Seq(Task)
  BY Order DEF TypeOK
<1>2. S # {} /\ S \subseteq Nat
  BY <1>1 DEF Stopped, Up, Range
<1>3. PICK m \in S : \A k \in S : m <= k
  BY <1>2, Least
<1>4. \A j \in 1..(m - 1) : j \in DOMAIN s /\ ~(j \in S)
  BY <1>1, <1>3
<1>5. \E i \in DOMAIN s : Bad(i) /\ \A j \in 1..(i - 1) : ~Bad(j)
  BY <1>3, <1>4
<1>6. FirstBad(t) = s[CHOOSE i \in DOMAIN s : Bad(i) /\ \A j \in 1..(i - 1) : ~Bad(j)]
  BY DEF FirstBad
<1>7. PICK i \in DOMAIN s : Bad(i) /\ FirstBad(t) = s[i]
  BY <1>5, <1>6
<1> QED
  BY <1>1, <1>7 DEF Up, Range

-------------------------------------------------------------------------------
(* The steps of a builder.                                                 *)

(* The entries that the actions write.                                     *)
LEMMA Entries ==
  ASSUME NEW st \in Step, NEW p \in Nat
  PROVE  /\ Away \in Entry /\ Away.step = "gone"
         /\ Fetching \in Entry /\ Fetching.step = "fetch"
         /\ [Fetching EXCEPT !.step = st, !.pos = p] \in Entry
         /\ [Fetching EXCEPT !.step = st, !.pos = p].step = st
         /\ [Fetching EXCEPT !.step = st, !.pos = p].pos = p
BY DEF Away, Fetching, Entry, Step

(* A builder moves to entry e; the others stay.                            *)
LEMMA Moved ==
  ASSUME TypeOK, NEW b \in Builder, NEW e, e \in Entry, at' = [at EXCEPT ![b] = e]
  PROVE  /\ at' \in [Builder -> Entry]
         /\ at \in [Builder -> Entry]
         /\ at'[b] = e
         /\ \A c \in Builder : c = b \/ at'[c] = at[c]
BY DEF TypeOK

(* A builder takes the next position, or leaves.                           *)
LEMMA FetchStep ==
  ASSUME IInv, NEW b \in Builder, Fetch(b)
  PROVE  IInv'
<1> DEFINE e == IF current \in DOMAIN graph.order
                THEN [Fetching EXCEPT !.step = "wait", !.pos = current]
                ELSE Away
<1>1. phase = "building" /\ phase' = phase /\ Walk /\ TypeOK /\ current \in Nat
  BY DEF IInv, Fetch, TypeOK
<1>2. /\ e \in Entry /\ e.step \in {"wait", "gone"}
      /\ e.step = "wait" => current \in DOMAIN graph.order /\ e.pos = current
      /\ current \in DOMAIN graph.order => e.step = "wait"
  BY <1>1, Entries DEF Step
<1>3. at' = [at EXCEPT ![b] = e]
  BY DEF Fetch
<1>4. /\ at' \in [Builder -> Entry] /\ at'[b] = e /\ at \in [Builder -> Entry]
      /\ \A c \in Builder : c = b \/ at'[c] = at[c]
  BY <1>1, <1>2, <1>3, Moved
<1> HIDE DEF e
<1>5. current' = current + 1 /\ at[b].step = "fetch"
      /\ UNCHANGED <<scenario, graph, done, reported, task, disk, printed, edits>>
  BY DEF Fetch
<1>6. TypeOK' /\ Read' /\ Idle'
  <2>1. TypeOK'
    BY <1>1, <1>4, <1>5 DEF TypeOK, task, disk
  <2>2. Read'
    <3>1. ASSUME NEW c \in Builder, at'[c].step = "build"
          PROVE  at'[c].read \in Inputs
      BY <3>1, <1>2, <1>4 DEF IInv, Read
    <3> QED
      BY <3>1 DEF Read
  <2> QED
    BY <2>1, <2>2, <1>1 DEF Idle
<1>7. Placed'
  <2>1. \A c \in Builder : c # b /\ at[c].step \in Busy => at[c].pos \in Nat /\ at[c].pos < current
    BY <1>1, <1>4 DEF Walk, Placed, Entry
  <2>2. \A c \in Builder : at'[c].step \in Busy =>
          at'[c].pos \in DOMAIN graph.order /\ at'[c].pos < current + 1
    BY <2>1, <1>1, <1>2, <1>4 DEF Walk, Placed, Busy
  <2>3. ASSUME NEW c \in Builder, NEW d \in Builder, at'[c].step \in Busy,
               at'[d].step \in Busy, at'[c].pos = at'[d].pos
        PROVE  c = d
    BY <2>1, <2>3, <1>1, <1>2, <1>4 DEF Walk, Placed, Busy
  <2> QED
    BY <2>2, <2>3, <1>5 DEF Placed
<1>8. Stepped'
  <2>1. e.step = "wait" => graph.order[e.pos] \notin done
    BY <1>1, <1>2 DEF Walk, Counted
  <2>2. ASSUME NEW c \in Builder
        PROVE  /\ at'[c].step \in {"wait", "build"} => graph.order[at'[c].pos] \notin done
               /\ at'[c].step = "build" => Up(graph.order[at'[c].pos]) \subseteq done
               /\ at'[c].step = "report" => graph.order[at'[c].pos] \in done \ reported
    BY <2>1, <1>1, <1>2, <1>4 DEF Walk, Stepped, Mine
  <2> QED
    BY <2>2, <1>5 DEF Stepped, Mine, Up
<1>9. Counted'
  <2>1. ASSUME NEW i \in DOMAIN graph.order, i < current + 1
        PROVE  \/ graph.order[i] \in reported
               \/ \E c \in Builder : at'[c].step \in Busy /\ at'[c].pos = i
    <3>0. i \in Nat
      BY <1>1, Order DEF TypeOK
    <3>1. CASE i = current
      BY <3>1, <1>2, <1>4 DEF Busy
    <3>2. CASE i < current
      BY <3>2, <1>1, <1>4, <1>5 DEF Walk, Counted, Busy
    <3> QED
      BY <3>0, <3>1, <3>2, <2>1, <1>1
  <2>2. ASSUME NEW i \in DOMAIN graph.order, graph.order[i] \in done
        PROVE  i < current + 1
    <3>1. i \in Nat
      BY <1>1, Order DEF TypeOK
    <3> QED
      BY <3>1, <2>2, <1>1 DEF Walk, Counted
  <2> QED
    BY <2>1, <2>2, <1>1, <1>5 DEF Walk, Counted, Up
<1>10. Sorted'
  BY <1>1, <1>5 DEF Walk, Sorted
<1> QED
  BY <1>6, <1>7, <1>8, <1>9, <1>10 DEF IInv, Walk

(* A builder with a position is in a build, and its position is a task.    *)
LEMMA InBuild ==
  ASSUME IInv, NEW b \in Builder, at[b].step \in Busy
  PROVE  /\ phase = "building" /\ Walk /\ TypeOK
         /\ at[b].pos \in DOMAIN graph.order /\ at[b].pos \in Nat
         /\ Mine(b) \in Task
<1>1. phase = "building"
  BY DEF IInv, Idle, Busy
<1>2. Walk /\ TypeOK
  BY <1>1 DEF IInv
<1>3. at[b].pos \in DOMAIN graph.order
  BY <1>2 DEF Walk, Placed
<1> QED
  BY <1>1, <1>2, <1>3, Order DEF TypeOK, Mine

(* What a released builder decides to do.                                  *)
LEMMA Planned ==
  ASSUME TypeOK, NEW t \in Task
  PROVE  /\ Plan(t) \in Status \cup {"", "cancel", "clean", "replay"}
         /\ Plan(t) = "upstream" /\ status[t] = "none" => Stopped(t)
<1>1. Inspected(t) \in Status /\ (Inspected(t) = "upstream" => Stopped(t))
  BY DEF Inspected, Status
<1>2. status[t] \in Status
  BY DEF TypeOK
<1>3. UpToDateStatus(t) \in Status
  BY <1>1, <1>2 DEF UpToDateStatus
<1>4. UpToDateStatus(t) = "upstream" /\ status[t] = "none" => Stopped(t)
  BY <1>1 DEF UpToDateStatus
<1>5. Plan(t) \in {"cancel", "clean", "replay", UpToDateStatus(t)}
  BY DEF Plan
<1> HIDE DEF Plan, UpToDateStatus
<1> QED
  BY <1>3, <1>4, <1>5 DEF Status

(* A builder that is released holds a task of its own.                     *)
LEMMA EnterStep ==
  ASSUME IInv, NEW b \in Builder, Enter(b)
  PROVE  IInv'
<1> DEFINE t == graph.order[at[b].pos]
           who == IF Plan(t) # "upstream" THEN Nil
                  ELSE IF status[t] # "none" THEN blame[t] ELSE FirstBad(t)
           read == [src |-> src[t], ups |-> [u \in Task |-> built[u].dts]]
           e == [step |-> "build", pos |-> at[b].pos, does |-> Plan(t),
                 blame |-> who, read |-> read]
<1>1. /\ phase = "building" /\ Walk /\ TypeOK /\ at[b].step = "wait"
      /\ at[b].pos \in DOMAIN graph.order /\ at[b].pos \in Nat /\ t \in Task
  BY InBuild DEF Enter, Busy, Mine
<1>2. who \in Task \cup {Nil}
  BY <1>1, Planned, FirstBadIsTask DEF TypeOK
<1>3. read \in Inputs
  BY <1>1 DEF TypeOK, Inputs, Info
<1>4. e \in Entry /\ e.step = "build" /\ e.pos = at[b].pos /\ e.read = read
  BY <1>1, <1>2, <1>3, Planned DEF Entry, Step
<1>5. at' = [at EXCEPT ![b] = e] /\ Up(t) \subseteq done
      /\ UNCHANGED <<scenario, graph, phase, current, done, reported, task, disk, printed, edits>>
  BY DEF Enter, Released
<1> HIDE DEF who, read, e
<1>6. /\ at' \in [Builder -> Entry] /\ at'[b] = e /\ at \in [Builder -> Entry]
      /\ \A c \in Builder : c = b \/ at'[c] = at[c]
  BY <1>1, <1>4, <1>5, Moved
<1>7. TypeOK' /\ Read' /\ Idle'
  <2>1. TypeOK'
    BY <1>1, <1>5, <1>6 DEF TypeOK, task, disk
  <2>2. Read'
    <3>1. ASSUME NEW c \in Builder, at'[c].step = "build"
          PROVE  at'[c].read \in Inputs
      BY <3>1, <1>3, <1>4, <1>6 DEF IInv, Read
    <3> QED
      BY <3>1 DEF Read
  <2> QED
    BY <2>1, <2>2, <1>1, <1>5 DEF Idle
<1>8. Placed'
  BY <1>1, <1>4, <1>5, <1>6 DEF Walk, Placed, Busy
<1>9. Stepped'
  <2>1. ASSUME NEW c \in Builder
        PROVE  /\ at'[c].step \in {"wait", "build"} => graph.order[at'[c].pos] \notin done
               /\ at'[c].step = "build" => Up(graph.order[at'[c].pos]) \subseteq done
               /\ at'[c].step = "report" => graph.order[at'[c].pos] \in done \ reported
    BY <1>1, <1>4, <1>5, <1>6 DEF Walk, Stepped, Mine
  <2> QED
    BY <2>1, <1>5 DEF Stepped, Mine, Up
<1>10. Counted'
  <2>1. \A c \in Builder : at[c].step \in Busy => at'[c].step \in Busy /\ at'[c].pos = at[c].pos
    BY <1>4, <1>6 DEF Busy
  <2> QED
    BY <2>1, <1>1, <1>5 DEF Walk, Counted, Up
<1>11. Sorted'
  BY <1>1, <1>5 DEF Walk, Sorted
<1> QED
  BY <1>7, <1>8, <1>9, <1>10, <1>11 DEF IInv, Walk

(* The end of a task, whatever became of it.                               *)
LEMMA Finished ==
  ASSUME IInv, NEW b \in Builder, NEW t, t = graph.order[at[b].pos],
         at[b].step = "build", NEW st, NEW bl, NEW pend, Finish(b, t, st, bl, pend)
  PROVE  /\ graph' \in Graphs /\ phase' = "building" /\ current' \in Nat \ {0}
         /\ at' \in [Builder -> Entry] /\ done' \subseteq Task /\ reported' \subseteq Task
         /\ initial' \in [Task -> BOOLEAN]
         /\ Read' /\ Idle' /\ Walk'
<1> DEFINE e == [Fetching EXCEPT !.step = "report", !.pos = at[b].pos]
<1>1. /\ phase = "building" /\ Walk /\ TypeOK
      /\ at[b].pos \in DOMAIN graph.order /\ at[b].pos \in Nat /\ t \in Task
  BY InBuild DEF Busy, Mine
<1>2. e \in Entry /\ e.step = "report" /\ e.pos = at[b].pos
  BY <1>1, Entries DEF Step
<1>3. /\ at' = [at EXCEPT ![b] = e] /\ done' = done \cup {t}
      /\ initial' = [initial EXCEPT ![t] = FALSE]
      /\ UNCHANGED <<graph, phase, current, reported, printed>>
  BY DEF Finish
<1> HIDE DEF e
<1>4. /\ at' \in [Builder -> Entry] /\ at'[b] = e /\ at \in [Builder -> Entry]
      /\ \A c \in Builder : c = b \/ at'[c] = at[c]
  BY <1>1, <1>2, <1>3, Moved
<1>5. Read'
  <2>1. ASSUME NEW c \in Builder, at'[c].step = "build"
        PROVE  at'[c].read \in Inputs
    BY <2>1, <1>2, <1>4 DEF IInv, Read
  <2> QED
    BY <2>1 DEF Read
<1>6. t \notin done /\ Up(t) \subseteq done
  BY <1>1 DEF Walk, Stepped, Mine
<1>7. ASSUME NEW c \in Builder, c # b, at[c].step \in Busy
      PROVE  graph.order[at[c].pos] # t
  <2>1. at[c].pos \in DOMAIN graph.order /\ at[c].pos # at[b].pos
    BY <1>1, <1>7 DEF Walk, Placed, Busy
  <2> QED
    BY <2>1, <1>1, Order DEF TypeOK
<1>8. Placed'
  BY <1>1, <1>2, <1>3, <1>4 DEF Walk, Placed, Busy
<1>9. Stepped'
  <2>1. t \notin reported
    BY <1>1, <1>6 DEF Walk, Counted
  <2>2. ASSUME NEW c \in Builder
        PROVE  /\ at'[c].step \in {"wait", "build"} => graph.order[at'[c].pos] \notin done'
               /\ at'[c].step = "build" => Up(graph.order[at'[c].pos]) \subseteq done'
               /\ at'[c].step = "report" => graph.order[at'[c].pos] \in done' \ reported
    BY <2>1, <1>1, <1>2, <1>3, <1>4, <1>7 DEF Walk, Stepped, Mine, Busy
  <2> QED
    BY <2>2, <1>3 DEF Stepped, Mine, Up
<1>10. Counted'
  <2>1. \A c \in Builder : at[c].step \in Busy => at'[c].step \in Busy /\ at'[c].pos = at[c].pos
    BY <1>2, <1>4 DEF Busy
  <2>2. ASSUME NEW i \in DOMAIN graph.order, graph.order[i] = t
        PROVE  i < current
    <3>1. i = at[b].pos
      BY <2>2, <1>1, Order DEF TypeOK
    <3> QED
      BY <3>1, <1>1 DEF Walk, Placed, Busy
  <2>3. \A x \in done' : Up(x) \subseteq done'
    BY <1>1, <1>3, <1>6 DEF Walk, Counted
  <2>4. reported \subseteq done'
    BY <1>1, <1>3 DEF Walk, Counted
  <2>5. \A i \in DOMAIN graph.order : graph.order[i] \in done' => i < current
    BY <2>2, <1>1, <1>3 DEF Walk, Counted
  <2>6. ASSUME NEW i \in DOMAIN graph.order, i < current
        PROVE  \/ graph.order[i] \in reported
               \/ \E c \in Builder : at'[c].step \in Busy /\ at'[c].pos = i
    BY <2>1, <2>6, <1>1 DEF Walk, Counted
  <2> QED
    BY <2>3, <2>4, <2>5, <2>6, <1>3 DEF Counted, Up
<1>11. Sorted'
  BY <1>1, <1>3 DEF Walk, Sorted
<1>12. /\ graph' \in Graphs /\ phase' = "building" /\ current' \in Nat \ {0}
       /\ done' \subseteq Task /\ reported' \subseteq Task /\ initial' \in [Task -> BOOLEAN]
  BY <1>1, <1>3 DEF TypeOK
<1> QED
  BY <1>4, <1>5, <1>8, <1>9, <1>10, <1>11, <1>12 DEF Walk, Idle

(* A report extends the reported prefix by its own position.               *)
LEMMA ReportStep ==
  ASSUME IInv, NEW b \in Builder, Report(b)
  PROVE  IInv'
<1> DEFINE p == at[b].pos
           t == graph.order[p]
<1>1. /\ phase = "building" /\ Walk /\ TypeOK /\ at[b].step = "report"
      /\ p \in DOMAIN graph.order /\ p \in Nat /\ t \in Task
  BY InBuild DEF Report, Busy, Mine
<1>2. /\ at' = [at EXCEPT ![b] = Fetching] /\ reported' = reported \cup {t}
      /\ \A i \in DOMAIN graph.order : i + 1 = p => graph.order[i] \in reported
      /\ UNCHANGED <<graph, phase, current, done, task, disk, edits>>
      /\ printed' = Append(printed, t) \/ printed' = printed
  BY DEF Report, MayReport
<1>3. /\ at' \in [Builder -> Entry] /\ at'[b] = Fetching /\ at \in [Builder -> Entry]
      /\ \A c \in Builder : c = b \/ at'[c] = at[c]
      /\ Fetching.step = "fetch"
  <2>1. Fetching \in Entry /\ Fetching.step = "fetch"
    <3>1. "gone" \in Step /\ 0 \in Nat
      BY DEF Step
    <3> QED
      BY <3>1, Entries
  <2>2. at' = [at EXCEPT ![b] = Fetching]
    BY <1>2
  <2> QED
    BY <1>1, <2>1, <2>2, Moved
<1>4. TypeOK' /\ Read' /\ Idle'
  <2>1. TypeOK'
    BY <1>1, <1>2, <1>3 DEF TypeOK, task, disk
  <2>2. Read'
    <3>1. ASSUME NEW c \in Builder, at'[c].step = "build"
          PROVE  at'[c].read \in Inputs
      BY <3>1, <1>3 DEF IInv, Read
    <3> QED
      BY <3>1 DEF Read
  <2> QED
    BY <2>1, <2>2, <1>1, <1>2 DEF Idle
<1>5. t \in done /\ t \notin reported
  BY <1>1 DEF Walk, Stepped, Mine
<1>6. ASSUME NEW c \in Builder, c # b, at[c].step \in Busy
      PROVE  graph.order[at[c].pos] # t
  <2>1. at[c].pos \in DOMAIN graph.order /\ at[c].pos # p
    BY <1>1, <1>6 DEF Walk, Placed, Busy
  <2> QED
    BY <2>1, <1>1, Order DEF TypeOK
<1>7. Placed'
  BY <1>1, <1>2, <1>3 DEF Walk, Placed, Busy
<1>8. Stepped'
  <2>1. ASSUME NEW c \in Builder
        PROVE  /\ at'[c].step \in {"wait", "build"} => graph.order[at'[c].pos] \notin done
               /\ at'[c].step = "build" => Up(graph.order[at'[c].pos]) \subseteq done
               /\ at'[c].step = "report" => graph.order[at'[c].pos] \in done \ reported'
    BY <1>1, <1>2, <1>3, <1>6 DEF Walk, Stepped, Mine, Busy
  <2> QED
    BY <2>1, <1>2 DEF Stepped, Mine, Up
<1>9. Counted'
  <2>1. reported' \subseteq done
    BY <1>1, <1>2, <1>5 DEF Walk, Counted
  <2>2. ASSUME NEW i \in DOMAIN graph.order, i < current
        PROVE  \/ graph.order[i] \in reported'
               \/ \E c \in Builder : at'[c].step \in Busy /\ at'[c].pos = i
    <3>1. CASE graph.order[i] \in reported
      BY <3>1, <1>2
    <3>2. CASE \E c \in Builder : at[c].step \in Busy /\ at[c].pos = i
      BY <3>2, <1>2, <1>3
    <3> QED
      BY <3>1, <3>2, <2>2, <1>1 DEF Walk, Counted
  <2> QED
    BY <2>1, <2>2, <1>1, <1>2 DEF Walk, Counted, Up
<1>10. Sorted'
  <2>1. graph.order \in Seq(Task) /\ DOMAIN graph.order \subseteq Nat
        /\ \A i \in DOMAIN graph.order : graph.order[i] = t => i = p
    BY <1>1, Order DEF TypeOK
  <2>2. ASSUME NEW i \in DOMAIN graph.order, i < p
        PROVE  graph.order[i] \in reported
    <3>1. p - 1 \in DOMAIN graph.order /\ i \in Nat
      BY <2>1, <2>2, <1>1
    <3>2. graph.order[p - 1] \in reported
      BY <3>1, <1>1, <1>2
    <3> QED
      BY <3>1, <3>2, <2>2, <1>1 DEF Walk, Sorted
  <2>3. \A i, j \in DOMAIN graph.order :
          i < j /\ graph.order[j] \in reported' => graph.order[i] \in reported'
    BY <2>1, <2>2, <1>1, <1>2 DEF Walk, Sorted
  <2>4. ASSUME NEW k \in DOMAIN graph.order, graph.order[k] \in reported
        PROVE  k < p
    <3>1. k # p /\ ~(p < k) /\ k \in Nat
      BY <2>1, <2>4, <1>1, <1>5 DEF Walk, Sorted
    <3> QED
      BY <3>1, <1>1
  <2>5. CASE printed' = printed
    BY <2>3, <2>5, <1>1, <1>2 DEF Walk, Sorted
  <2>6. CASE printed' = Append(printed, t)
    <3>1. /\ printed \in Seq(Task) /\ printed' \in Seq(Task)
          /\ DOMAIN printed' = 1 .. Len(printed) + 1 /\ Len(printed) \in Nat
          /\ \A i \in DOMAIN printed : i \in 1 .. Len(printed) /\ printed'[i] = printed[i]
          /\ DOMAIN printed = 1 .. Len(printed)
          /\ printed'[Len(printed) + 1] = t
      BY <2>6, <1>1 DEF Walk, Sorted
    <3>2. \A i \in DOMAIN printed' : printed'[i] \in reported'
      BY <3>1, <1>1, <1>2 DEF Walk, Sorted
    <3>3. ASSUME NEW i \in DOMAIN printed', NEW j \in DOMAIN printed',
                 NEW k \in DOMAIN graph.order, NEW l \in DOMAIN graph.order,
                 i < j, printed'[i] = graph.order[k], printed'[j] = graph.order[l]
          PROVE  k < l
      <4>1. i \in DOMAIN printed /\ printed[i] = graph.order[k]
        BY <3>1, <3>3
      <4>2. CASE j \in DOMAIN printed
        BY <4>1, <4>2, <3>1, <3>3, <1>1 DEF Walk, Sorted
      <4>3. CASE j = Len(printed) + 1
        <5>1. l = p
          BY <4>3, <3>1, <3>3, <2>1
        <5>2. k < p
          BY <4>1, <2>4, <1>1 DEF Walk, Sorted
        <5> QED
          BY <5>1, <5>2
      <4> QED
        BY <4>2, <4>3, <3>1
    <3> QED
      BY <3>1, <3>2, <3>3, <2>3, <1>2 DEF Sorted
  <2> QED
    BY <2>5, <2>6, <1>2
<1> QED
  BY <1>4, <1>7, <1>8, <1>9, <1>10 DEF IInv, Walk

(* The three ways a task ends.                                             *)
LEMMA UnbuiltStep ==
  ASSUME IInv, NEW b \in Builder, NEW t \in Task, FinishUnbuilt(b, t)
  PROVE  IInv'
<1> DEFINE does == at[b].does
           st == [status EXCEPT ![t] = CASE does = "cancel" -> "error"
                                         [] does \in {"clean", "replay"} -> @
                                         [] does = "types"  -> "uptodate"
                                         [] OTHER           -> does]
           bl == [blame EXCEPT ![t] = IF does \in {"clean", "replay"} THEN @ ELSE at[b].blame]
<1>1. /\ at[b].step = "build" /\ t = graph.order[at[b].pos]
      /\ does \in {"cancel", "clean", "replay", "uptodate", "upstream", "types"}
      /\ Finish(b, t, st, bl, pending) /\ UNCHANGED src
      /\ built' = built \/ built' = [built EXCEPT ![t] = Unbuilt]
  BY DEF FinishUnbuilt, Is
<1>2. TypeOK
  BY DEF IInv
<1>3. at[b] \in Entry /\ at[b].blame \in Task \cup {Nil}
  BY <1>2 DEF TypeOK, Entry
<1>4. st \in [Task -> Status] /\ bl \in [Task -> Task \cup {Nil}]
  BY <1>1, <1>2, <1>3 DEF TypeOK, Status
<1>5. Unbuilt \in Info
  BY DEF Unbuilt, Info
<1>6. /\ status' = st /\ blame' = bl /\ pending' = [pending EXCEPT ![t] = FALSE]
      /\ UNCHANGED edits
  BY <1>1 DEF Finish
<1> HIDE DEF st, bl
<1>7. /\ graph' \in Graphs /\ phase' = "building" /\ current' \in Nat \ {0}
      /\ at' \in [Builder -> Entry] /\ done' \subseteq Task /\ reported' \subseteq Task
      /\ initial' \in [Task -> BOOLEAN] /\ Read' /\ Idle' /\ Walk'
  BY <1>1, Finished
<1>8. TypeOK'
  <2>1. built' \in [Task -> Info] /\ src' \in [Task -> Source]
    BY <1>1, <1>2, <1>5 DEF TypeOK
  <2>2. pending' \in [Task -> BOOLEAN] /\ edits' \in Nat
    BY <1>2, <1>6 DEF TypeOK
  <2> QED
    BY <2>1, <2>2, <1>4, <1>6, <1>7 DEF TypeOK
<1> QED
  BY <1>7, <1>8 DEF IInv

(* A mark is a status.                                                     *)
LEMMA MarkedType ==
  ASSUME TypeOK, NEW t \in Task, NEW d \in Task, NEW c \in BOOLEAN
  PROVE  Marked(t, d, c) \in Status
<1>1. status[d] \in Status
  BY DEF TypeOK
<1> QED
  BY <1>1 DEF Marked, Status

(* A compilation ends its task.                                            *)
LEMMA CompileStep ==
  ASSUME IInv, NEW b \in Builder, NEW t \in Task, Compile(b, t)
  PROVE  IInv'
<1> DEFINE read == at[b].read
           kind == IF read.src.bad THEN "error" ELSE "uptodate"
           changed == built[t].ver = Nil \/ read.src.dts # built[t].dts
           mine == [status EXCEPT ![t] = kind]
           st == [d \in Task |-> IF Marks(t, kind) /\ d \in Down(t)
                                 THEN Marked(t, d, changed) ELSE mine[d]]
           bl == [blame EXCEPT ![t] = Nil]
           info == [ver |-> read.src.ver, bad |-> read.src.bad, dts |-> read.src.dts,
                    ups |-> [u \in Task |-> IF u \in Up(t) THEN read.ups[u] ELSE 0]]
<1>1. /\ at[b].step = "build" /\ t = graph.order[at[b].pos]
      /\ Finish(b, t, st, bl, Pends(t, kind)) /\ UNCHANGED src
      /\ built' = [built EXCEPT ![t] = info]
  BY DEF Compile, Is
<1>2. TypeOK /\ read \in Inputs
  BY <1>1 DEF IInv, Read
<1>3. changed \in BOOLEAN /\ kind \in Status
  BY DEF Status
<1>4. st \in [Task -> Status]
  BY <1>2, <1>3, MarkedType DEF TypeOK
<1>5. info \in Info
  BY <1>2 DEF Inputs, Source, Info
<1>6. /\ status' = st /\ blame' = bl /\ UNCHANGED edits
      /\ pending' = [Pends(t, kind) EXCEPT ![t] = FALSE]
  BY <1>1 DEF Finish
<1>7. Pends(t, kind) \in [Task -> BOOLEAN]
  BY <1>2 DEF Pends, TypeOK
<1> HIDE DEF st, info, kind
<1>8. /\ graph' \in Graphs /\ phase' = "building" /\ current' \in Nat \ {0}
      /\ at' \in [Builder -> Entry] /\ done' \subseteq Task /\ reported' \subseteq Task
      /\ initial' \in [Task -> BOOLEAN] /\ Read' /\ Idle' /\ Walk'
  BY <1>1, Finished
<1>9. TypeOK'
  BY <1>1, <1>2, <1>4, <1>5, <1>6, <1>7, <1>8 DEF TypeOK
<1> QED
  BY <1>8, <1>9 DEF IInv

(* So does an error or a panic.                                            *)
LEMMA FailStep ==
  ASSUME IInv, NEW b \in Builder, NEW t \in Task, Fail(b, t)
  PROVE  IInv'
<1>1. /\ at[b].step = "build" /\ t = graph.order[at[b].pos]
      /\ Finish(b, t, [status EXCEPT ![t] = "error"], blame, pending)
      /\ UNCHANGED <<src, built>>
  BY DEF Fail, disk
<1>2. TypeOK
  BY DEF IInv
<1>3. /\ status' = [status EXCEPT ![t] = "error"] /\ blame' = blame
      /\ pending' = [pending EXCEPT ![t] = FALSE] /\ UNCHANGED edits
  BY <1>1 DEF Finish
<1>4. /\ graph' \in Graphs /\ phase' = "building" /\ current' \in Nat \ {0}
      /\ at' \in [Builder -> Entry] /\ done' \subseteq Task /\ reported' \subseteq Task
      /\ initial' \in [Task -> BOOLEAN] /\ Read' /\ Idle' /\ Walk'
  BY <1>1, Finished
<1>5. TypeOK'
  BY <1>1, <1>2, <1>3, <1>4 DEF TypeOK, Status
<1> QED
  BY <1>4, <1>5 DEF IInv

-------------------------------------------------------------------------------
(* The beginning of a cycle, and the steps outside of it.                  *)

(* A cycle begins: nothing is shared out yet, or nothing will be.          *)
LEMMA Began ==
  ASSUME TypeOK, Idle, phase # "building", NEW g \in Graphs, graph' = g, Begin(g)
  PROVE  /\ graph' \in Graphs /\ phase' \in {"start", "building", "idle", "ended"}
         /\ current' \in Nat \ {0}
         /\ at' \in [Builder -> Entry] /\ done' \subseteq Task /\ reported' \subseteq Task
         /\ Read' /\ Idle' /\ (phase' = "building" => Walk')
<1>1. CASE g.errors
  <2>1. /\ phase' \in {"idle", "ended"} /\ UNCHANGED <<current, at, done, reported>>
    BY <1>1 DEF Begin
  <2>2. Read' /\ Idle'
    BY <2>1 DEF Read, Idle
  <2> QED
    BY <2>1, <2>2 DEF TypeOK
<1>2. CASE ~g.errors
  <2>1. /\ phase' = "building" /\ current' = 1 /\ at' = [b \in Builder |-> Fetching]
        /\ done' = {} /\ reported' = {} /\ printed' = <<>>
    BY <1>2 DEF Begin
  <2>2. Fetching \in Entry /\ Fetching.step = "fetch"
    BY Entries DEF Step
  <2>3. at' \in [Builder -> Entry] /\ \A b \in Builder : at'[b].step = "fetch"
    BY <2>1, <2>2
  <2>4. Read' /\ Idle' /\ Placed' /\ Stepped'
    BY <2>1, <2>3 DEF Read, Idle, Placed, Stepped, Busy
  <2>5. Counted'
    <3>1. DOMAIN g.order \subseteq Nat \ {0}
      BY GraphsAreTopological DEF Topological
    <3>2. \A i \in DOMAIN g.order : ~(i < 1)
      BY <3>1
    <3> QED
      BY <3>2, <2>1 DEF Counted
  <2>6. Sorted'
    BY <2>1 DEF Sorted
  <2> QED
    BY <2>1, <2>3, <2>4, <2>5, <2>6 DEF Walk
<1> QED
  BY <1>1, <1>2

(* A step that leaves the builders and the order alone.                    *)
LEMMA Undisturbed ==
  ASSUME IInv, UNCHANGED <<graph, phase, current, at, done, reported, printed>>
  PROVE  Read' /\ Idle' /\ (phase' = "building" => Walk')
<1>1. Read' /\ Idle'
  BY DEF IInv, Read, Idle
<1>2. Placed /\ Stepped => Placed' /\ Stepped'
  BY DEF Placed, Stepped, Mine, Up
<1>3. Counted /\ Sorted => Counted' /\ Sorted'
  BY DEF Counted, Sorted, Up
<1> QED
  BY <1>1, <1>2, <1>3 DEF IInv, Walk

(* The first build begins.                                                 *)
LEMMA StartStep ==
  ASSUME IInv, Start
  PROVE  IInv'
<1>1. /\ phase = "start" /\ Begin(graph) /\ graph' = graph
      /\ UNCHANGED <<task, disk, edits>>
  BY DEF Start
<1>2. TypeOK /\ Idle /\ graph \in Graphs
  BY DEF IInv, TypeOK
<1>3. /\ graph' \in Graphs /\ phase' \in {"start", "building", "idle", "ended"}
      /\ current' \in Nat \ {0}
      /\ at' \in [Builder -> Entry] /\ done' \subseteq Task /\ reported' \subseteq Task
      /\ Read' /\ Idle' /\ (phase' = "building" => Walk')
  BY <1>1, <1>2, Began
<1>4. TypeOK'
  BY <1>1, <1>2, <1>3 DEF TypeOK, task, disk
<1> QED
  BY <1>3, <1>4 DEF IInv

(* The tasks after a reset.                                                *)
LEMMA ResetTypes ==
  ASSUME TypeOK, NEW r, NEW n, Reset(r, n)
  PROVE  /\ status' \in [Task -> Status] /\ blame' \in [Task -> Task \cup {Nil}]
         /\ pending' \in [Task -> BOOLEAN] /\ initial' \in [Task -> BOOLEAN]
<1>1. status' \in [Task -> Status]
  BY DEF Reset, TypeOK, Status
<1>2. blame' \in [Task -> Task \cup {Nil}]
  BY DEF Reset, TypeOK
<1>3. pending' \in [Task -> BOOLEAN] /\ initial' \in [Task -> BOOLEAN]
  BY DEF Reset, TypeOK
<1> QED
  BY <1>1, <1>2, <1>3

(* A cycle resets tasks and begins a build.                                *)
LEMMA CycleStep ==
  ASSUME IInv, DoCycle
  PROVE  IInv'
<1>1. /\ phase = "idle" /\ graph' = graph /\ UNCHANGED <<src, built, edits>>
      /\ \E r, n : Reset(r, n)
      /\ Begin(graph) \/ UNCHANGED <<phase, current, at, done, reported, printed>>
  BY DEF DoCycle, disk
<1>2. TypeOK /\ Idle /\ graph \in Graphs
  BY DEF IInv, TypeOK
<1>3. /\ graph' \in Graphs /\ phase' \in {"start", "building", "idle", "ended"}
      /\ current' \in Nat \ {0}
      /\ at' \in [Builder -> Entry] /\ done' \subseteq Task /\ reported' \subseteq Task
      /\ Read' /\ Idle' /\ (phase' = "building" => Walk')
  <2>1. CASE Begin(graph)
    BY <2>1, <1>1, <1>2, Began
  <2>2. CASE UNCHANGED <<phase, current, at, done, reported, printed>>
    BY <2>2, <1>1, <1>2, Undisturbed DEF TypeOK
  <2> QED
    BY <2>1, <2>2, <1>1
<1>4. /\ status' \in [Task -> Status] /\ blame' \in [Task -> Task \cup {Nil}]
      /\ pending' \in [Task -> BOOLEAN] /\ initial' \in [Task -> BOOLEAN]
  BY <1>1, <1>2, ResetTypes
<1>5. TypeOK'
  BY <1>1, <1>2, <1>3, <1>4 DEF TypeOK
<1> QED
  BY <1>3, <1>5 DEF IInv

(* So does a configuration, with another graph.                            *)
LEMMA ReconfigureStep ==
  ASSUME IInv, NEW t \in Task, NEW g \in Graphs, Reconfigure(t, g)
  PROVE  IInv'
<1>1. /\ phase = "idle" /\ graph' = g /\ Begin(g) /\ UNCHANGED built
      /\ src' = [src EXCEPT ![t].ver = edits + 1] /\ edits' = edits + 1
      /\ \E r, n : Reset(r, n)
  BY DEF Reconfigure, Noticed
<1>2. TypeOK /\ Idle
  BY DEF IInv
<1>3. /\ graph' \in Graphs /\ phase' \in {"start", "building", "idle", "ended"}
      /\ current' \in Nat \ {0}
      /\ at' \in [Builder -> Entry] /\ done' \subseteq Task /\ reported' \subseteq Task
      /\ Read' /\ Idle' /\ (phase' = "building" => Walk')
  BY <1>1, <1>2, Began
<1>4. /\ status' \in [Task -> Status] /\ blame' \in [Task -> Task \cup {Nil}]
      /\ pending' \in [Task -> BOOLEAN] /\ initial' \in [Task -> BOOLEAN]
  BY <1>1, <1>2, ResetTypes
<1>5. src' \in [Task -> Source] /\ edits' \in Nat
  BY <1>1, <1>2 DEF TypeOK, Source
<1>6. TypeOK'
  BY <1>1, <1>2, <1>3, <1>4, <1>5 DEF TypeOK
<1> QED
  BY <1>3, <1>6 DEF IInv

(* An edit changes sources only.                                           *)
LEMMA EditStep ==
  ASSUME IInv, NEW t \in Task, Edit(t)
  PROVE  IInv'
<1>1. TypeOK
  BY DEF IInv
<1>2. /\ edits' = edits + 1
      /\ UNCHANGED <<graph, phase, current, at, done, reported, printed>>
      /\ UNCHANGED <<task, built>>
  BY DEF Edit, Noticed
<1>3. src' \in [Task -> Source]
  <2>1. \/ src' = src
        \/ \E bad \in BOOLEAN, dts \in {src[t].dts, edits + 1} :
             src' = [src EXCEPT ![t] = [ver |-> edits + 1, bad |-> bad, dts |-> dts]]
    BY DEF Edit
  <2>2. ASSUME NEW bad \in BOOLEAN, NEW dts \in {src[t].dts, edits + 1}
        PROVE  [ver |-> edits + 1, bad |-> bad, dts |-> dts] \in Source
    BY <2>2, <1>1 DEF TypeOK, Source
  <2>3. src \in [Task -> Source]
    BY <1>1 DEF TypeOK
  <2>4. CASE src' = src
    BY <2>3, <2>4
  <2>5. ASSUME NEW bad \in BOOLEAN, NEW dts \in {src[t].dts, edits + 1},
               src' = [src EXCEPT ![t] = [ver |-> edits + 1, bad |-> bad, dts |-> dts]]
        PROVE  src' \in [Task -> Source]
    <3> DEFINE s == [ver |-> edits + 1, bad |-> bad, dts |-> dts]
    <3>1. s \in Source
      BY <2>2
    <3>2. src' = [src EXCEPT ![t] = s]
      BY <2>5
    <3> HIDE DEF s
    <3> QED
      BY <2>3, <3>1, <3>2
  <2> QED
    BY <2>1, <2>4, <2>5
<1>4. TypeOK'
  BY <1>1, <1>2, <1>3 DEF TypeOK, task
<1> QED
  BY <1>2, <1>4, Undisturbed DEF IInv

(* The end of a build, a cancellation and an overflow.                     *)
LEMMA OtherStep ==
  ASSUME IInv, End \/ Cancel \/ Overflow \/ UNCHANGED vars
  PROVE  IInv'
<1>1. TypeOK
  BY DEF IInv
<1>2. CASE End
  <2>1. /\ phase' \in {"idle", "ended"} /\ \A b \in Builder : at[b].step = "gone"
        /\ UNCHANGED <<graph, current, at, done, reported, task, disk, edits>>
    BY <1>2 DEF End
  <2>2. Read' /\ Idle'
    BY <2>1 DEF IInv, Read, Idle
  <2>3. TypeOK'
    BY <2>1, <1>1 DEF TypeOK, task, disk
  <2> QED
    BY <2>1, <2>2, <2>3 DEF IInv
<1>3. CASE Cancel \/ Overflow \/ UNCHANGED vars
  <2>1. /\ UNCHANGED <<graph, phase, current, at, done, reported, printed>>
        /\ UNCHANGED <<task, disk, edits>>
    BY <1>3 DEF Cancel, Overflow, vars
  <2>2. TypeOK'
    BY <2>1, <1>1 DEF TypeOK, task, disk
  <2> QED
    BY <2>1, <2>2, Undisturbed DEF IInv
<1> QED
  BY <1>2, <1>3

-------------------------------------------------------------------------------
(* The theorems.                                                           *)

(* IInv holds at first, and no step breaks it.                             *)
LEMMA Initially == Init => IInv
<1> SUFFICES ASSUME Init PROVE IInv
  OBVIOUS
<1>1. Away \in Entry /\ Away.step = "gone"
  BY Entries DEF Step
<1>2. graph \in Graphs
  BY ScenariosStart DEF Init
<1>3. Unbuilt \in Info /\ First \in Info
  BY DEF Unbuilt, First, Info
<1>4. src \in [Task -> Source] /\ built \in [Task -> Info]
  BY <1>3 DEF Init, Source
<1>5. status \in [Task -> Status]
  BY DEF Init, Status
<1>6. TypeOK
  BY <1>1, <1>2, <1>4, <1>5 DEF Init, TypeOK
<1>7. Read /\ Idle /\ phase # "building"
  BY <1>1 DEF Init, Read, Idle
<1> QED
  BY <1>6, <1>7 DEF IInv

(* IInv is kept by every step.                                             *)
LEMMA Inductive == IInv /\ [Next]_vars => IInv'
<1> SUFFICES ASSUME IInv, [Next]_vars PROVE IInv'
  OBVIOUS
<1>1. CASE Start
  BY <1>1, StartStep
<1>2. CASE DoCycle
  BY <1>2, CycleStep
<1>3. CASE End \/ Cancel \/ Overflow \/ UNCHANGED vars
  BY <1>3, OtherStep
<1>4. ASSUME NEW b \in Builder, Build(b) PROVE IInv'
  BY <1>4, FetchStep, EnterStep, ReportStep, UnbuiltStep, CompileStep, FailStep DEF Build
<1>5. ASSUME NEW t \in Task, Edit(t) \/ \E g \in Graphs : Reconfigure(t, g) PROVE IInv'
  BY <1>5, EditStep, ReconfigureStep
<1> QED
  BY <1>1, <1>2, <1>3, <1>4, <1>5 DEF Next

(* The positions of the order are shared out as IInv says, in every build. *)
THEOREM Invariance == Spec => []IInv
BY Initially, Inductive, PTL DEF Spec

(* Every variable of the build keeps its type.                             *)
THEOREM TypeCorrect == Spec => []TypeOK
<1>1. IInv => TypeOK
  BY DEF IInv
<1> QED
  BY <1>1, Invariance, PTL

(* "A reporter cannot overtake the preceding graph entry": the reports of  *)
(* a build are a prefix of the graph's order and are printed in it.        *)
THEOREM ReportsInOrder == Spec => []InOrder
<1>1. IInv => InOrder
  BY DEF IInv, InOrder, Walk, Counted, Sorted
<1> QED
  BY <1>1, Invariance, PTL

(* The builder with the lowest position waits for nobody, so the waits of  *)
(* build_or_clean form no circle, for any graph and any number of threads. *)
THEOREM NoDeadlock == Spec => []NobodyIsStuck
<1>1. ASSUME IInv, NEW a \in Builder, at[a].step # "gone"
      PROVE  \E b \in Builder : CanGoOn(b)
  <2>1. phase = "building" /\ Walk /\ TypeOK
    BY <1>1 DEF IInv, Idle
  <2>2. CASE \E b \in Builder : at[b].step \in {"fetch", "build"}
    BY <2>2 DEF CanGoOn
  <2>3. CASE \A b \in Builder : at[b].step \notin {"fetch", "build"}
    <3> DEFINE S == {at[b].pos : b \in {c \in Builder : at[c].step \in Busy}}
    <3>1. at[a].step \in Busy
      <4>1. at[a].step \in Step
        BY <2>1 DEF TypeOK, Entry
      <4> QED
        BY <4>1, <2>3, <1>1 DEF Step, Busy
    <3>2. S # {} /\ S \subseteq Nat
      BY <3>1, <1>1, InBuild
    <3>3. PICK p \in S : \A k \in S : p <= k
      BY <3>2, Least
    <3>4. PICK b \in Builder : at[b].step \in Busy /\ at[b].pos = p
      BY <3>3
    <3>5. p \in DOMAIN graph.order /\ p \in Nat /\ p < current
      BY <3>4, <1>1, InBuild DEF Walk, Placed
    <3>6. ASSUME NEW i \in DOMAIN graph.order, i < p
          PROVE  graph.order[i] \in reported
      <4>1. i \in Nat /\ current \in Nat
        BY <2>1, Order DEF TypeOK
      <4>2. i < current /\ i \notin S
        BY <4>1, <3>2, <3>3, <3>5, <3>6
      <4> QED
        BY <4>2, <2>1 DEF Walk, Counted
    <3>7. Released(graph.order[at[b].pos])
      <4>1. graph \in Graphs
        BY <2>1 DEF TypeOK
      <4>2. ASSUME NEW u \in Up(graph.order[p]) PROVE u \in reported
        <5>1. \E j \in DOMAIN graph.order : j < p /\ graph.order[j] = u
          BY <4>1, <4>2, <3>5, Order
        <5> QED
          BY <5>1, <3>6
      <4> QED
        BY <4>2, <3>4, <2>1 DEF Released, Walk, Counted
    <3>8. MayReport(b)
      <4>1. DOMAIN graph.order \subseteq Nat
        BY <2>1, Order DEF TypeOK
      <4> QED
        BY <4>1, <3>4, <3>5, <3>6 DEF MayReport
    <3> QED
      BY <3>4, <3>7, <3>8, <2>3 DEF CanGoOn, Busy
  <2> QED
    BY <2>2, <2>3
<1>2. IInv => NobodyIsStuck
  BY <1>1 DEF NobodyIsStuck
<1> QED
  BY <1>2, Invariance, PTL

(* A task that is done is final: it was released only when its upstream    *)
(* tasks were done, so none of them can mark it any more.                  *)
LEMMA FinalStep ==
  ASSUME IInv, phase = "building", [Next]_vars, NEW x \in done
  PROVE  Final(x)
<1>1. TypeOK /\ Walk /\ x \in Task
  BY DEF IInv, TypeOK
<1>2. /\ status \in [Task -> Status] /\ pending \in [Task -> BOOLEAN]
      /\ built \in [Task -> Info]
  BY <1>1 DEF TypeOK
<1>3. ~Start /\ ~DoCycle /\ \A t \in Task, g \in Graphs : ~Reconfigure(t, g)
  BY DEF Start, DoCycle, Reconfigure
<1>4. CASE UNCHANGED <<status, pending, built>> /\ done' = done
  BY <1>4 DEF Final
<1>5. CASE End \/ Cancel \/ Overflow \/ UNCHANGED vars
  BY <1>4, <1>5 DEF End, Cancel, Overflow, vars, task, disk
<1>6. ASSUME NEW t \in Task, Edit(t) PROVE Final(x)
  BY <1>4, <1>6 DEF Edit, task
<1>7. ASSUME NEW b \in Builder, Fetch(b) \/ Enter(b) \/ Report(b) PROVE Final(x)
  BY <1>4, <1>7 DEF Fetch, Enter, Report, task, disk
<1>8. ASSUME NEW b \in Builder, NEW t \in Task, at[b].step = "build", t = graph.order[at[b].pos]
      PROVE  x # t /\ x \notin Down(t)
  <2>1. t \notin done
    BY <1>1, <1>8 DEF Walk, Stepped, Mine
  <2> QED
    BY <2>1, <1>1 DEF Walk, Counted, Down
<1>9. ASSUME NEW b \in Builder, NEW t \in Task, FinishUnbuilt(b, t) PROVE Final(x)
  <2>1. x # t
    BY <1>8, <1>9 DEF FinishUnbuilt, Is
  <2>2. /\ \E v : status' = [status EXCEPT ![t] = v]
        /\ pending' = [pending EXCEPT ![t] = FALSE]
        /\ built' = built \/ built' = [built EXCEPT ![t] = Unbuilt]
        /\ done' = done \cup {t}
    BY <1>9 DEF FinishUnbuilt, Finish
  <2> QED
    BY <2>1, <2>2, <1>1, <1>2 DEF Final
<1>10. ASSUME NEW b \in Builder, NEW t \in Task, Compile(b, t) PROVE Final(x)
  <2>1. x # t /\ x \notin Down(t)
    BY <1>8, <1>10 DEF Compile, Is
  <2> DEFINE k == IF at[b].read.src.bad THEN "error" ELSE "uptodate"
             c == built[t].ver = Nil \/ at[b].read.src.dts # built[t].dts
             m == [status EXCEPT ![t] = k]
  <2>2. /\ status' = [d \in Task |-> IF Marks(t, k) /\ d \in Down(t)
                                     THEN Marked(t, d, c) ELSE m[d]]
        /\ pending' = [Pends(t, k) EXCEPT ![t] = FALSE]
        /\ \E v : built' = [built EXCEPT ![t] = v]
        /\ done' = done \cup {t}
    BY <1>10 DEF Compile, Finish
  <2> HIDE DEF k, c
  <2>3. status'[x] = status[x]
    BY <2>1, <2>2, <1>1, <1>2
  <2>4. pending'[x] = pending[x]
    BY <2>1, <2>2, <1>1, <1>2 DEF Pends
  <2>5. built'[x] = built[x] /\ x \in done'
    BY <2>1, <2>2, <1>1, <1>2
  <2> QED
    BY <2>3, <2>4, <2>5 DEF Final
<1>11. ASSUME NEW b \in Builder, NEW t \in Task, Fail(b, t) PROVE Final(x)
  <2>1. x # t
    BY <1>8, <1>11 DEF Fail
  <2>2. /\ status' = [status EXCEPT ![t] = "error"] /\ built' = built
        /\ pending' = [pending EXCEPT ![t] = FALSE] /\ done' = done \cup {t}
    BY <1>11 DEF Fail, Finish, disk
  <2> QED
    BY <2>1, <2>2, <1>1, <1>2 DEF Final
<1> QED
  BY <1>3, <1>5, <1>6, <1>7, <1>9, <1>10, <1>11 DEF Next, Build

(* No step of a build touches what is done in it: neither the status nor   *)
(* the outputs of a project change after it was built.                     *)
THEOREM DoneStaysFinal == Spec => DoneIsFinal
<1>1. IInv /\ [Next]_vars => [phase = "building" => \A t \in done : Final(t)]_vars
  BY FinalStep
<1> QED
  BY <1>1, Invariance, PTL DEF Spec, DoneIsFinal

-------------------------------------------------------------------------------
(* The frame of a build: what its phases and its options exclude, and that *)
(* it does not end before every position was taken and finished.           *)
Stage ==
  /\ ~(opts.watch /\ opts.clean)
  /\ phase = "idle" => opts.watch
  /\ phase \in {"start", "idle"} => ~failed
  /\ phase = "building" =>
       /\ ~graph.errors
       /\ \A b \in Builder : at[b].step = "gone" => \A i \in DOMAIN graph.order : i < current
  /\ phase \in {"idle", "ended"} /\ ~graph.errors => Range(graph.order) \subseteq done

(* What every end of a task does, whatever became of the task.             *)
Ends(b, t) ==
  /\ t \in Task /\ t = Mine(b) /\ t \notin done /\ Up(t) \subseteq done
  /\ t \in Range(graph.order) /\ t \notin Up(t)
  /\ phase = "building" /\ at[b].step = "build" /\ at'[b].step = "report"
  /\ \A c \in Builder : c # b => at'[c] = at[c] /\ (at[c].step \in Busy => Mine(c) # t)
  /\ done' = done \cup {t} /\ pending'[t] = FALSE /\ initial'[t] = FALSE
  /\ \A x \in Task : x # t => initial'[x] = initial[x] /\ built'[x] = built[x]
  /\ UNCHANGED <<scenario, graph, phase, canceled, current, events, overflow, edits, src>>

(* The part of it that Finish is responsible for.                          *)
LEMMA FinishEnds ==
  ASSUME IInv, NEW b \in Builder, NEW t \in Task, t = graph.order[at[b].pos],
         at[b].step = "build", NEW st, NEW bl, NEW pend, Finish(b, t, st, bl, pend),
         pend \in [Task -> BOOLEAN],
         \A x \in Task : x # t => built'[x] = built[x], UNCHANGED src
  PROVE  Ends(b, t)
<1> DEFINE e == [Fetching EXCEPT !.step = "report", !.pos = at[b].pos]
<1>1. /\ phase = "building" /\ Walk /\ TypeOK
      /\ at[b].pos \in DOMAIN graph.order /\ at[b].pos \in Nat /\ t \in Task
  BY InBuild DEF Busy, Mine
<1>2. e \in Entry /\ e.step = "report"
  BY <1>1, Entries DEF Step
<1>3. /\ at' = [at EXCEPT ![b] = e] /\ done' = done \cup {t}
      /\ pending' = [pend EXCEPT ![t] = FALSE] /\ initial' = [initial EXCEPT ![t] = FALSE]
      /\ UNCHANGED <<scenario, graph, phase, canceled, current, events, overflow, edits>>
  BY DEF Finish, watch
<1> HIDE DEF e
<1>4. /\ at'[b] = e /\ \A c \in Builder : c = b \/ at'[c] = at[c]
  BY <1>1, <1>2, <1>3, Moved
<1>5. t \notin done /\ Up(t) \subseteq done
  BY <1>1 DEF Walk, Stepped, Mine
<1>6. ASSUME NEW c \in Builder, c # b, at[c].step \in Busy
      PROVE  Mine(c) # t
  <2>1. at[c].pos \in DOMAIN graph.order /\ at[c].pos # at[b].pos
    BY <1>1, <1>6 DEF Walk, Placed, Busy
  <2> QED
    BY <2>1, <1>1, Order DEF TypeOK, Mine
<1>7. t \in Range(graph.order)
  BY <1>1 DEF Range
<1>8. /\ pending'[t] = FALSE /\ initial'[t] = FALSE
      /\ \A x \in Task : x # t => initial'[x] = initial[x]
  BY <1>1, <1>3 DEF TypeOK
<1> QED
  BY <1>1, <1>2, <1>3, <1>4, <1>5, <1>6, <1>7, <1>8 DEF Ends, Mine

(* What the branches without a compilation do.                             *)
LEMMA UnbuiltEnds ==
  ASSUME IInv, NEW b \in Builder, NEW t \in Task, FinishUnbuilt(b, t)
  PROVE  /\ Ends(b, t) /\ UNCHANGED failed
         /\ at[b].does \in {"cancel", "clean", "replay", "uptodate", "upstream", "types"}
         /\ \A x \in Task : x # t => /\ status'[x] = status[x] /\ blame'[x] = blame[x]
                                     /\ pending'[x] = pending[x]
         /\ at[b].does = "cancel" => status'[t] = "error"
         /\ at[b].does \in {"uptodate", "types"} => status'[t] = "uptodate"
         /\ at[b].does = "upstream" => status'[t] = "upstream"
         /\ at[b].does \in {"clean", "replay"} => status'[t] = status[t]
         /\ at[b].does \notin {"clean", "replay"} => blame'[t] = at[b].blame
         /\ at[b].does # "clean" => built' = built
         /\ at[b].does # "types" => UNCHANGED <<later, newdts, missed>>
         /\ at[b].does = "types" =>
              /\ later' = Outdated(later, t) /\ newdts' = Outdated(newdts, t)
              /\ missed' = IF built[t].ver # src[t].ver THEN missed \cup {t} ELSE missed
<1> DEFINE does == at[b].does
           st == [status EXCEPT ![t] = CASE does = "cancel" -> "error"
                                         [] does \in {"clean", "replay"} -> @
                                         [] does = "types"  -> "uptodate"
                                         [] OTHER           -> does]
           bl == [blame EXCEPT ![t] = IF does \in {"clean", "replay"} THEN @ ELSE at[b].blame]
<1>1. /\ at[b].step = "build" /\ t = graph.order[at[b].pos]
      /\ does \in {"cancel", "clean", "replay", "uptodate", "upstream", "types"}
      /\ Finish(b, t, st, bl, pending) /\ UNCHANGED <<src, failed>>
      /\ built' = IF does = "clean" THEN [built EXCEPT ![t] = Unbuilt] ELSE built
      /\ later' = IF does = "types" THEN Outdated(later, t) ELSE later
      /\ newdts' = IF does = "types" THEN Outdated(newdts, t) ELSE newdts
      /\ missed' = IF does = "types" /\ built[t].ver # src[t].ver
                   THEN missed \cup {t} ELSE missed
  BY DEF FinishUnbuilt, Is
<1>2. TypeOK
  BY DEF IInv
<1>3. status' = st /\ blame' = bl /\ pending' = [pending EXCEPT ![t] = FALSE]
  BY <1>1 DEF Finish
<1>4. /\ status \in [Task -> Status] /\ blame \in [Task -> Task \cup {Nil}]
      /\ pending \in [Task -> BOOLEAN] /\ built \in [Task -> Info]
  BY <1>2 DEF TypeOK
<1>5. \A x \in Task : x # t => built'[x] = built[x]
  BY <1>1, <1>4
<1>6. Ends(b, t)
  BY <1>1, <1>4, <1>5, FinishEnds
<1>7. \A x \in Task : x # t => status'[x] = status[x] /\ blame'[x] = blame[x] /\ pending'[x] = pending[x]
  BY <1>3, <1>4
<1>8. /\ does = "cancel" => status'[t] = "error"
      /\ does \in {"uptodate", "types"} => status'[t] = "uptodate"
      /\ does = "upstream" => status'[t] = "upstream"
      /\ does \in {"clean", "replay"} => status'[t] = status[t]
      /\ does \notin {"clean", "replay"} => blame'[t] = at[b].blame
  BY <1>1, <1>3, <1>4
<1> QED
  BY <1>1, <1>6, <1>7, <1>8

(* What a compilation does.                                                *)
LEMMA CompileEnds ==
  ASSUME IInv, NEW b \in Builder, NEW t \in Task, Compile(b, t)
  PROVE  LET r == at[b].read
             k == IF r.src.bad THEN "error" ELSE "uptodate"
             c == built[t].ver = Nil \/ r.src.dts # built[t].dts
         IN /\ Ends(b, t) /\ UNCHANGED failed /\ r \in Inputs
            /\ at[b].does \in {"error", "newer"}
            /\ status' = [d \in Task |-> IF Marks(t, k) /\ d \in Down(t)
                                         THEN Marked(t, d, c)
                                         ELSE [status EXCEPT ![t] = k][d]]
            /\ status'[t] = k
            /\ \A x \in Task : x # t =>
                 /\ blame'[x] = blame[x]
                 /\ pending'[x] = (pending[x] \/ (Marks(t, k) /\ x \in Down(t)))
            /\ built' = [built EXCEPT ![t] =
                 [ver |-> r.src.ver, bad |-> r.src.bad, dts |-> r.src.dts,
                  ups |-> [u \in Task |-> IF u \in Up(t) THEN r.ups[u] ELSE 0]]]
            /\ later' = Outdated(later, t) \cup {<<t, d>> : d \in Task \ {t}}
            /\ newdts' = Outdated(newdts, t) \cup (IF c THEN {<<t, d>> : d \in Task \ {t}} ELSE {})
            /\ missed' = IF r.src.ver # src[t].ver \/ t \in Loose(graph)
                         THEN missed \cup {t} ELSE missed \ {t}
<1> DEFINE r == at[b].read
           k == IF r.src.bad THEN "error" ELSE "uptodate"
           c == built[t].ver = Nil \/ r.src.dts # built[t].dts
           st == [d \in Task |-> IF Marks(t, k) /\ d \in Down(t)
                                 THEN Marked(t, d, c) ELSE [status EXCEPT ![t] = k][d]]
           bl == [blame EXCEPT ![t] = Nil]
           info == [ver |-> r.src.ver, bad |-> r.src.bad, dts |-> r.src.dts,
                    ups |-> [u \in Task |-> IF u \in Up(t) THEN r.ups[u] ELSE 0]]
<1>1. /\ at[b].step = "build" /\ t = graph.order[at[b].pos]
      /\ at[b].does \in {"error", "newer"}
      /\ Finish(b, t, st, bl, Pends(t, k)) /\ UNCHANGED <<src, failed>>
      /\ built' = [built EXCEPT ![t] = info]
      /\ later' = Outdated(later, t) \cup {<<t, d>> : d \in Task \ {t}}
      /\ newdts' = Outdated(newdts, t) \cup (IF c THEN {<<t, d>> : d \in Task \ {t}} ELSE {})
      /\ missed' = IF r.src.ver # src[t].ver \/ t \in Loose(graph)
                   THEN missed \cup {t} ELSE missed \ {t}
  BY DEF Compile, Is
<1>2. TypeOK /\ r \in Inputs
  BY <1>1 DEF IInv, Read
<1>3. status' = st /\ blame' = bl /\ pending' = [Pends(t, k) EXCEPT ![t] = FALSE]
  BY <1>1 DEF Finish
<1>4. /\ status \in [Task -> Status] /\ blame \in [Task -> Task \cup {Nil}]
      /\ pending \in [Task -> BOOLEAN] /\ built \in [Task -> Info]
      /\ Pends(t, k) \in [Task -> BOOLEAN]
  BY <1>2 DEF TypeOK, Pends
<1> HIDE DEF info, k, c
<1>5. \A x \in Task : x # t => built'[x] = built[x]
  BY <1>1, <1>4
<1>6. Ends(b, t)
  BY <1>1, <1>4, <1>5, FinishEnds
<1>7. ASSUME NEW x \in Task, x # t
      PROVE  /\ blame'[x] = blame[x]
             /\ pending'[x] = (pending[x] \/ (Marks(t, k) /\ x \in Down(t)))
  <2>1. blame'[x] = blame[x] /\ pending'[x] = Pends(t, k)[x]
    BY <1>3, <1>4, <1>7
  <2> QED
    BY <2>1 DEF Pends
<1>8. status'[t] = k
  <2>1. t \notin Down(t)
    BY <1>6 DEF Ends, Down
  <2> QED
    BY <2>1, <1>3, <1>4
<1>9. /\ Ends(b, t) /\ UNCHANGED failed /\ r \in Inputs
      /\ at[b].does \in {"error", "newer"}
      /\ status' = st /\ status'[t] = k
      /\ \A x \in Task : x # t => /\ blame'[x] = blame[x]
                                  /\ pending'[x] = (pending[x] \/ (Marks(t, k) /\ x \in Down(t)))
      /\ built' = [built EXCEPT ![t] = info]
      /\ later' = Outdated(later, t) \cup {<<t, d>> : d \in Task \ {t}}
      /\ newdts' = Outdated(newdts, t) \cup (IF c THEN {<<t, d>> : d \in Task \ {t}} ELSE {})
      /\ missed' = IF r.src.ver # src[t].ver \/ t \in Loose(graph)
                   THEN missed \cup {t} ELSE missed \ {t}
  BY <1>1, <1>2, <1>3, <1>6, <1>7, <1>8
<1> QED
  BY <1>9 DEF info, k, c

(* What an error or a panic of a task does.                                *)
LEMMA FailEnds ==
  ASSUME IInv, NEW b \in Builder, NEW t \in Task, Fail(b, t)
  PROVE  Ends(b, t) /\ failed' = TRUE /\ UNCHANGED <<built, later, newdts, missed>>
         /\ \A x \in Task : x # t => /\ status'[x] = status[x] /\ blame'[x] = blame[x]
                                     /\ pending'[x] = pending[x]
<1>1. /\ at[b].step = "build" /\ t = graph.order[at[b].pos]
      /\ Finish(b, t, [status EXCEPT ![t] = "error"], blame, pending)
      /\ failed' = TRUE /\ UNCHANGED <<src, built, later, newdts, missed>>
  BY DEF Fail, disk
<1>2. status \in [Task -> Status] /\ pending \in [Task -> BOOLEAN]
  BY DEF IInv, TypeOK
<1>3. Ends(b, t)
  BY <1>1, <1>2, FinishEnds
<1>4. /\ status' = [status EXCEPT ![t] = "error"] /\ blame' = blame
      /\ pending' = [pending EXCEPT ![t] = FALSE]
  BY <1>1 DEF Finish
<1> QED
  BY <1>1, <1>2, <1>3, <1>4

(* What a builder decides when it is released.                             *)
Enters(b) ==
  /\ phase = "building" /\ at[b].step = "wait" /\ at'[b].step = "build"
  /\ Mine(b) \in Task /\ Mine(b) \in Range(graph.order)
  /\ Mine(b) \notin done /\ Up(Mine(b)) \subseteq done
  /\ graph.order[at'[b].pos] = Mine(b) /\ at'[b].does = Plan(Mine(b))
  /\ at'[b].blame = IF Plan(Mine(b)) # "upstream" THEN Nil
                    ELSE IF status[Mine(b)] # "none" THEN blame[Mine(b)] ELSE FirstBad(Mine(b))
  /\ at'[b].read.src = src[Mine(b)]
  /\ \A u \in Task : at'[b].read.ups[u] = built[u].dts
  /\ \A c \in Builder : c # b => at'[c] = at[c]
  /\ UNCHANGED <<scenario, graph, phase, canceled, current, done, task, failed,
                 disk, watch, missed, edits>>

(* Enter does that.                                                        *)
LEMMA EnterDoes ==
  ASSUME IInv, NEW b \in Builder, Enter(b)
  PROVE  Enters(b)
<1> DEFINE t == graph.order[at[b].pos]
           who == IF Plan(t) # "upstream" THEN Nil
                  ELSE IF status[t] # "none" THEN blame[t] ELSE FirstBad(t)
           read == [src |-> src[t], ups |-> [u \in Task |-> built[u].dts]]
           e == [step |-> "build", pos |-> at[b].pos, does |-> Plan(t),
                 blame |-> who, read |-> read]
<1>1. /\ phase = "building" /\ Walk /\ TypeOK /\ at[b].step = "wait"
      /\ at[b].pos \in DOMAIN graph.order /\ at[b].pos \in Nat /\ t \in Task
  BY InBuild DEF Enter, Busy, Mine
<1>2. t \notin done /\ t \in Range(graph.order)
  BY <1>1 DEF Walk, Stepped, Mine, Range
<1>3. /\ e.step = "build" /\ e.pos = at[b].pos /\ e.does = Plan(t) /\ e.blame = who
      /\ e.read.src = src[t] /\ \A u \in Task : e.read.ups[u] = built[u].dts
  OBVIOUS
<1>4. at' = [at EXCEPT ![b] = e] /\ Up(t) \subseteq done
      /\ UNCHANGED <<scenario, graph, phase, canceled, current, done, task, failed,
                     disk, watch, missed, edits>>
  BY DEF Enter, Released
<1> HIDE DEF e, who
<1>5. at'[b] = e /\ \A c \in Builder : c # b => at'[c] = at[c]
  BY <1>1, <1>4 DEF TypeOK
<1> QED
  BY <1>1, <1>2, <1>3, <1>4, <1>5 DEF Enters, Mine, who

(* A builder between two tasks: it takes a position, or has reported.      *)
LEMMA TurnDoes ==
  ASSUME IInv, NEW b \in Builder, Fetch(b) \/ Report(b)
  PROVE  /\ phase = "building" /\ at'[b].step # "build"
         /\ \A c \in Builder : c # b => at'[c] = at[c]
         /\ UNCHANGED <<scenario, graph, phase, canceled, done, task, disk, watch, missed, edits>>
         /\ failed' = failed \/ failed' = TRUE
<1>1. TypeOK
  BY DEF IInv
<1>2. CASE Fetch(b)
  <2> DEFINE e == IF current \in DOMAIN graph.order
                  THEN [Fetching EXCEPT !.step = "wait", !.pos = current]
                  ELSE Away
  <2>1. e.step # "build"
    BY DEF Fetching, Away
  <2>2. at' = [at EXCEPT ![b] = e]
    BY <1>2 DEF Fetch
  <2> HIDE DEF e
  <2>3. at'[b].step # "build" /\ \A c \in Builder : c # b => at'[c] = at[c]
    BY <1>1, <2>1, <2>2 DEF TypeOK
  <2> QED
    BY <1>2, <2>3 DEF Fetch
<1>3. CASE Report(b)
  <2>1. Fetching.step # "build"
    BY DEF Fetching, Away
  <2>2. at' = [at EXCEPT ![b] = Fetching] /\ phase = "building"
    BY <1>3, InBuild DEF Report, Busy
  <2>3. at'[b].step # "build" /\ \A c \in Builder : c # b => at'[c] = at[c]
    BY <1>1, <2>1, <2>2 DEF TypeOK
  <2>4. failed' = failed \/ failed' = TRUE
    BY <1>3 DEF Report
  <2> QED
    BY <1>3, <2>2, <2>3, <2>4 DEF Report
<1> QED
  BY <1>2, <1>3

(* Stage is kept by every step.                                            *)
LEMMA StageStep ==
  ASSUME IInv, Stage, [Next]_vars
  PROVE  Stage'
<1> USE DEF opts
<1>1. TypeOK
  BY DEF IInv
<1>2. ASSUME Start PROVE Stage'
  <2>1. phase = "start" /\ Begin(graph) /\ UNCHANGED <<scenario, graph>> /\ ~failed
    BY <1>2 DEF Start, Stage
  <2>2. CASE graph.errors
    BY <2>1, <2>2 DEF Begin, Stage
  <2>3. CASE ~graph.errors
    <3>1. phase' = "building" /\ \A b \in Builder : at'[b].step = "fetch"
      BY <2>1, <2>3 DEF Begin, Fetching, Away
    <3> QED
      BY <2>1, <2>3, <3>1 DEF Stage
  <2> QED
    BY <2>2, <2>3
<1>3. ASSUME phase = "idle", UNCHANGED scenario, NEW g, graph' = g, Begin(g) PROVE Stage'
  <2>1. ~failed /\ opts.watch
    BY <1>3 DEF Stage
  <2>2. CASE g.errors
    BY <1>3, <2>1, <2>2 DEF Begin, Stage
  <2>3. CASE ~g.errors
    <3>1. phase' = "building" /\ \A b \in Builder : at'[b].step = "fetch"
      BY <1>3, <2>3 DEF Begin, Fetching, Away
    <3> QED
      BY <1>3, <2>1, <2>3, <3>1 DEF Stage
  <2> QED
    BY <2>2, <2>3
<1>4. CASE UNCHANGED <<scenario, graph, phase, failed, at, current, done>>
  BY <1>4 DEF Stage
<1>5. ASSUME DoCycle PROVE Stage'
  BY <1>3, <1>4, <1>5 DEF DoCycle
<1>6. ASSUME NEW t \in Task, NEW g \in Graphs, Reconfigure(t, g) PROVE Stage'
  BY <1>3, <1>6 DEF Reconfigure
<1>7. ASSUME End PROVE Stage'
  <2>1. /\ phase = "building" /\ \A b \in Builder : at[b].step = "gone"
        /\ phase' = IF opts.watch /\ ~failed THEN "idle" ELSE "ended"
        /\ UNCHANGED <<scenario, graph, at, current, done, failed>>
    BY <1>7 DEF End
  <2>2. Walk /\ \A i \in DOMAIN graph.order : i < current
    BY <2>1, SomeBuilder DEF IInv, Stage
  <2>3. \A i \in DOMAIN graph.order : graph.order[i] \in done
    BY <2>1, <2>2 DEF Walk, Counted, Busy
  <2>4. Range(graph.order) \subseteq done
    BY <2>3 DEF Range
  <2> QED
    BY <2>1, <2>4 DEF Stage
<1>8. ASSUME Cancel \/ Overflow \/ UNCHANGED vars PROVE Stage'
  BY <1>4, <1>8 DEF Cancel, Overflow, vars
<1>9. ASSUME NEW t \in Task, Edit(t) PROVE Stage'
  BY <1>4, <1>9 DEF Edit
<1>10. ASSUME NEW b \in Builder, Fetch(b) PROVE Stage'
  <2> DEFINE e == IF current \in DOMAIN graph.order
                  THEN [Fetching EXCEPT !.step = "wait", !.pos = current]
                  ELSE Away
  <2>1. /\ phase = "building" /\ current' = current + 1 /\ at' = [at EXCEPT ![b] = e]
        /\ UNCHANGED <<scenario, graph, phase, done, failed>>
    BY <1>10 DEF Fetch
  <2>2. /\ current \in Nat \ {0} /\ graph.order \in Seq(Task)
    BY <1>1, Order DEF TypeOK
  <2>3. e \in Entry /\ (e.step = "gone" => current \notin DOMAIN graph.order)
    BY <2>2, Entries DEF Step
  <2> HIDE DEF e
  <2>4. at'[b] = e /\ \A c \in Builder : c = b \/ at'[c] = at[c]
    BY <1>1, <2>1, <2>3, Moved
  <2>5. \A i \in DOMAIN graph.order : i \in Nat /\ (i < current => i < current + 1)
    BY <2>2
  <2>6. current \notin DOMAIN graph.order => \A i \in DOMAIN graph.order : i < current + 1
    BY <2>2
  <2>7. ASSUME NEW c \in Builder, at'[c].step = "gone"
        PROVE  \A i \in DOMAIN graph.order : i < current'
    <3>1. CASE c = b
      BY <3>1, <2>1, <2>3, <2>4, <2>6, <2>7
    <3>2. CASE c # b
      <4>1. \A i \in DOMAIN graph.order : i < current
        BY <3>2, <2>1, <2>4, <2>7 DEF Stage
      <4> QED
        BY <4>1, <2>1, <2>5
    <3> QED
      BY <3>1, <3>2
  <2> QED
    BY <2>1, <2>7 DEF Stage
<1>11. ASSUME NEW b \in Builder, at'[b].step # "gone",
              \A c \in Builder : c # b => at'[c] = at[c],
              phase = "building", UNCHANGED <<scenario, graph, phase, current>>
       PROVE  Stage'
  BY <1>11 DEF Stage
<1>12. ASSUME NEW b \in Builder, Enter(b) PROVE Stage'
  BY <1>11, <1>12, EnterDoes DEF Enters
<1>13. ASSUME NEW b \in Builder, Report(b) PROVE Stage'
  <2>1. phase = "building" /\ at' = [at EXCEPT ![b] = Fetching]
    BY <1>13, InBuild DEF Report, Busy
  <2>2. Fetching.step = "fetch"
    BY DEF Fetching, Away
  <2>3. at'[b].step = "fetch" /\ \A c \in Builder : c # b => at'[c] = at[c]
    BY <2>1, <2>2, <1>1 DEF TypeOK
  <2> QED
    BY <1>11, <1>13, <2>1, <2>3 DEF Report
<1>14. ASSUME NEW b \in Builder, NEW t \in Task, Ends(b, t) PROVE Stage'
  BY <1>11, <1>14 DEF Ends
<1>15. ASSUME NEW b \in Builder, NEW t \in Task,
              FinishUnbuilt(b, t) \/ Compile(b, t) \/ Fail(b, t)
       PROVE  Stage'
  <2>1. Ends(b, t)
    BY <1>15, UnbuiltEnds, CompileEnds, FailEnds
  <2> QED
    BY <1>14, <2>1
<1>16. ASSUME NEW b \in Builder, Build(b) PROVE Stage'
  BY <1>10, <1>12, <1>13, <1>15, <1>16 DEF Build
<1> QED
  BY <1>2, <1>5, <1>6, <1>7, <1>8, <1>9, <1>16 DEF Next

(* A build has no more to do than its order when it ends, and does no less *)
(* for any number of builders.                                             *)
THEOREM StageHolds == Spec => []Stage
<1>1. Init => Stage
  BY ScenariosStart DEF Init, Stage, opts
<1>2. IInv /\ Stage /\ [Next]_vars => Stage'
  BY StageStep
<1> QED
  BY <1>1, <1>2, Invariance, PTL DEF Spec

-------------------------------------------------------------------------------
(* One build that stops at errors.  A task that is not done is untouched,  *)
(* so no task marks another, and what a builder decides on the status of   *)
(* the upstream tasks still holds when it acts on it: they are done.       *)
OneBuild == ~opts.watch /\ ~opts.clean /\ opts.stop /\ ~failed /\ ~canceled

Untouched(t) == status[t] = "none" /\ pending[t] = TRUE /\ initial[t] = TRUE
Fresh ==
  ~opts.watch =>
    /\ phase = "start" => \A t \in Task : Untouched(t)
    /\ phase = "building" => \A t \in Task \ done : Untouched(t)

(* A status st that blames bl is the one the upstream tasks of t call for. *)
Reasoned(t, st, bl) ==
  /\ st = "upstream" <=> \E u \in Up(t) : Unfit(u)
  /\ st = "upstream" => Unfit(bl) /\ bl \in Up(t)

Decided(b) ==
  /\ at[b].does \in {"newer", "types", "uptodate", "upstream"}
  /\ Reasoned(Mine(b), at[b].does, at[b].blame)
  /\ at[b].does \in {"types", "uptodate"} => built[Mine(b)].ver # Nil
Justified(t) ==
  /\ Reasoned(t, status[t], blame[t])
  /\ status[t] # "upstream" => built[t].ver # Nil
Skipping ==
  OneBuild =>
    /\ \A b \in Builder : at[b].step = "build" => Decided(b)
    /\ phase \in {"building", "ended"} /\ ~graph.errors => \A t \in done : Justified(t)

(* The options stay.                                                       *)
LEMMA SameScenario ==
  ASSUME [Next]_vars
  PROVE  scenario' = scenario /\ opts' = opts
<1>1. ASSUME Start \/ End \/ Cancel \/ Overflow \/ DoCycle \/ UNCHANGED vars
      PROVE  scenario' = scenario
  BY <1>1 DEF Start, End, Cancel, Overflow, DoCycle, vars
<1>2. ASSUME NEW b \in Builder, Fetch(b) \/ Enter(b) \/ Report(b) PROVE scenario' = scenario
  BY <1>2 DEF Fetch, Enter, Report
<1>3. ASSUME NEW b \in Builder, NEW t \in Task, FinishUnbuilt(b, t) PROVE scenario' = scenario
  BY <1>3 DEF FinishUnbuilt, Finish
<1>4. ASSUME NEW b \in Builder, NEW t \in Task, Compile(b, t) PROVE scenario' = scenario
  BY <1>4 DEF Compile, Finish
<1>5. ASSUME NEW b \in Builder, NEW t \in Task, Fail(b, t) PROVE scenario' = scenario
  BY <1>5 DEF Fail, Finish
<1>6. ASSUME NEW t \in Task, Edit(t) \/ \E g \in Graphs : Reconfigure(t, g)
      PROVE  scenario' = scenario
  BY <1>6 DEF Edit, Reconfigure
<1>7. scenario' = scenario
  BY <1>1, <1>2, <1>3, <1>4, <1>5, <1>6 DEF Next, Build
<1> QED
  BY <1>7 DEF opts

(* Fresh is kept by every step.                                            *)
LEMMA FreshStep ==
  ASSUME IInv, Stage, Fresh, [Next]_vars
  PROVE  Fresh'
<1> SUFFICES ASSUME ~opts'.watch
             PROVE  /\ phase' = "start" => \A t \in Task : (Untouched(t))'
                    /\ phase' = "building" => \A t \in Task \ done' : (Untouched(t))'
  BY DEF Fresh
<1>0. scenario' = scenario /\ ~opts.watch
  BY SameScenario
<1>1. CASE UNCHANGED <<phase, done, status, pending, initial>>
  BY <1>0, <1>1 DEF Fresh, Untouched
<1>2. CASE Start
  <2>1. phase = "start" /\ phase' # "start" /\ UNCHANGED <<status, pending, initial>>
    BY <1>2 DEF Start, Begin, task
  <2> QED
    BY <1>0, <2>1 DEF Fresh, Untouched
<1>3. CASE End
  BY <1>3 DEF End
<1>4. CASE Cancel \/ Overflow \/ UNCHANGED vars
  BY <1>1, <1>4 DEF Cancel, Overflow, vars, task
<1>5. ~DoCycle /\ \A t \in Task, g \in Graphs : ~Reconfigure(t, g)
  BY <1>0 DEF Stage, DoCycle, Reconfigure
<1>6. ASSUME NEW t \in Task, Edit(t) PROVE UNCHANGED <<phase, done, status, pending, initial>>
  BY <1>6 DEF Edit, task
<1>7. ASSUME NEW b \in Builder, Fetch(b) \/ Enter(b) \/ Report(b)
      PROVE  UNCHANGED <<phase, done, status, pending, initial>>
  BY <1>7 DEF Fetch, Enter, Report, task
<1>8. ASSUME NEW b \in Builder, NEW t \in Task, Ends(b, t),
             \A x \in Task : x # t => status'[x] = status[x] /\ pending'[x] = pending[x]
      PROVE  /\ phase' = "start" => \A x \in Task : (Untouched(x))'
             /\ phase' = "building" => \A x \in Task \ done' : (Untouched(x))'
  BY <1>0, <1>8 DEF Ends, Fresh, Untouched
<1>9. ASSUME NEW b \in Builder, NEW t \in Task, Compile(b, t)
      PROVE  Ends(b, t) /\ \A x \in Task : x # t => status'[x] = status[x] /\ pending'[x] = pending[x]
  <2> DEFINE k == IF at[b].read.src.bad THEN "error" ELSE "uptodate"
             c == built[t].ver = Nil \/ at[b].read.src.dts # built[t].dts
  <2>1. /\ Ends(b, t)
        /\ status' = [d \in Task |-> IF Marks(t, k) /\ d \in Down(t)
                                     THEN Marked(t, d, c) ELSE [status EXCEPT ![t] = k][d]]
        /\ \A x \in Task : x # t => pending'[x] = (pending[x] \/ (Marks(t, k) /\ x \in Down(t)))
    BY <1>9, CompileEnds
  <2> HIDE DEF k, c
  <2>2. ~Marks(t, k)
    BY <1>0, <2>1 DEF Ends, Fresh, Untouched, Marks
  <2>3. status \in [Task -> Status] /\ pending \in [Task -> BOOLEAN]
    BY DEF IInv, TypeOK
  <2> QED
    BY <2>1, <2>2, <2>3
<1>10. ASSUME NEW b \in Builder, NEW t \in Task, FinishUnbuilt(b, t) \/ Fail(b, t)
       PROVE  Ends(b, t) /\ \A x \in Task : x # t => status'[x] = status[x] /\ pending'[x] = pending[x]
  BY <1>10, UnbuiltEnds, FailEnds
<1>11. ASSUME NEW b \in Builder, Build(b)
       PROVE  /\ phase' = "start" => \A x \in Task : (Untouched(x))'
              /\ phase' = "building" => \A x \in Task \ done' : (Untouched(x))'
  BY <1>1, <1>7, <1>8, <1>9, <1>10, <1>11 DEF Build
<1> QED
  BY <1>1, <1>2, <1>3, <1>4, <1>5, <1>6, <1>11 DEF Next

(* What a builder decides in such a build.                                 *)
LEMMA DecidedThen ==
  ASSUME IInv, Fresh, OneBuild, NEW b \in Builder, Enters(b)
  PROVE  (Decided(b))'
<1> DEFINE t == Mine(b)
<1>1. /\ t \in Task /\ Up(t) \subseteq done /\ (Mine(b))' = t
      /\ at'[b].does = Plan(t) /\ UNCHANGED <<graph, status, built>>
      /\ at'[b].blame = IF Plan(t) # "upstream" THEN Nil
                        ELSE IF status[t] # "none" THEN blame[t] ELSE FirstBad(t)
  BY DEF Enters, Mine, task, disk
<1>2. status[t] = "none" /\ pending[t] = TRUE
  BY DEF Enters, OneBuild, Fresh, Untouched
<1>3. Plan(t) = Inspected(t)
  BY <1>2 DEF Plan, OneBuild, UpToDateStatus
<1>4. TypeOK
  BY DEF IInv
<1>5. Stopped(t) <=> \E u \in Up(t) : Unfit(u)
  BY DEF Stopped, OneBuild, IsError, Unfit
<1>6. /\ Inspected(t) \in {"newer", "types", "uptodate", "upstream"}
      /\ Inspected(t) = "upstream" <=> Stopped(t)
      /\ Inspected(t) \in {"types", "uptodate"} => built[t].ver # Nil
  BY DEF Inspected
<1>7. Stopped(t) => FirstBad(t) \in Up(t) /\ Unfit(FirstBad(t))
  BY <1>1, <1>4, FirstBadIsTask DEF IsError, Unfit
<1>8. at'[b].does = "upstream" => at'[b].blame = FirstBad(t)
  BY <1>1, <1>2
<1> HIDE DEF t
<1>9. \A u : (Unfit(u))' <=> Unfit(u)
  BY <1>1 DEF Unfit
<1>10. (Up(Mine(b)))' = Up(t)
  BY <1>1 DEF Up
<1>11. (Reasoned(Mine(b), at[b].does, at[b].blame))'
  BY <1>1, <1>3, <1>5, <1>6, <1>7, <1>8, <1>9, <1>10 DEF Reasoned, Unfit
<1> QED
  BY <1>1, <1>3, <1>6, <1>11 DEF Decided

(* The end of a task in such a build: what is done stays justified, and so *)
(* does what the other builders have decided.                              *)
LEMMA SkippingEnds ==
  ASSUME IInv, Stage, Skipping, OneBuild, [Next]_vars, NEW b \in Builder, NEW t \in Task,
         Ends(b, t), \A x \in Task : x # t => blame'[x] = blame[x],
         Decided(b) => (Justified(t))'
  PROVE  Skipping'
<1>1. TypeOK /\ Walk /\ phase = "building" /\ done \subseteq Task
  BY DEF IInv, Ends, TypeOK
<1>2. \A u \in done : status'[u] = status[u] /\ built'[u] = built[u]
  BY <1>1, FinalStep DEF Final
<1>3. \A u \in done : (Unfit(u))' <=> Unfit(u)
  BY <1>2 DEF Unfit
<1>4. graph' = graph /\ \A x : (Up(x))' = Up(x)
  BY DEF Ends, Up
<1>5. ASSUME NEW c \in Builder, at'[c].step = "build"
      PROVE  (Decided(c))'
  <2>1. c # b /\ at'[c] = at[c] /\ Mine(c) # t /\ at[c].step = "build"
    BY <1>5 DEF Ends, Busy
  <2>2. Decided(c) /\ (Mine(c))' = Mine(c) /\ Up(Mine(c)) \subseteq done /\ Mine(c) \in Task
    BY <1>1, <1>4, <2>1, InBuild DEF Skipping, Mine, Walk, Stepped, Busy
  <2>3. built'[Mine(c)] = built[Mine(c)]
    BY <2>1, <2>2 DEF Ends
  <2>4. (Up(Mine(c)))' = Up(Mine(c))
    BY <1>4, <2>2 DEF Up
  <2>5. (Reasoned(Mine(c), at[c].does, at[c].blame))'
    BY <1>3, <2>1, <2>2, <2>4 DEF Decided, Reasoned, Unfit
  <2> QED
    BY <2>1, <2>2, <2>3, <2>5 DEF Decided
<1>6. ASSUME NEW x \in done PROVE (Justified(x))'
  <2>1. Justified(x) /\ Up(x) \subseteq done /\ x \in Task /\ x # t
    BY <1>1, <1>6 DEF Skipping, Stage, Ends, Walk, Counted
  <2>2. blame'[x] = blame[x] /\ status'[x] = status[x] /\ built'[x] = built[x]
    BY <1>2, <2>1
  <2>3. (Reasoned(x, status[x], blame[x]))'
    BY <1>3, <1>4, <2>1, <2>2 DEF Justified, Reasoned
  <2> QED
    BY <2>1, <2>2, <2>3 DEF Justified
<1>7. (Justified(t))'
  BY DEF Skipping, Ends
<1> QED
  BY <1>5, <1>6, <1>7 DEF Skipping, Ends

(* Skipping is kept by every step.                                         *)
LEMMA SkippingStep ==
  ASSUME IInv, Stage, Fresh, Skipping, [Next]_vars
  PROVE  Skipping'
<1> SUFFICES ASSUME OneBuild' PROVE Skipping'
  BY DEF Skipping
<1>0. scenario' = scenario /\ ~opts.watch /\ ~opts.clean /\ opts.stop /\ ~failed' /\ ~canceled'
  BY SameScenario DEF OneBuild
<1>1. CASE OneBuild /\ UNCHANGED <<graph, phase, at, done, status, blame, built>>
  BY <1>1 DEF Skipping, Decided, Justified, Reasoned, Mine, Up, Unfit
<1>2. CASE Start
  <2>1. phase = "start" /\ Begin(graph) /\ graph' = graph
    BY <1>2 DEF Start
  <2>2. CASE graph.errors
    <3>1. at' = at /\ \A b \in Builder : at[b].step = "gone"
      BY <2>1, <2>2 DEF Begin, IInv, Idle
    <3> QED
      BY <2>1, <2>2, <3>1 DEF Skipping
  <2>3. CASE ~graph.errors
    <3>1. done' = {} /\ \A b \in Builder : at'[b].step = "fetch"
      BY <2>1, <2>3 DEF Begin, Fetching, Away
    <3> QED
      BY <3>1 DEF Skipping
  <2> QED
    BY <2>2, <2>3
<1>3. CASE End
  <2>1. OneBuild /\ phase = "building" /\ UNCHANGED <<graph, at, done, status, blame, built>>
        /\ \A b \in Builder : at[b].step = "gone"
    BY <1>0, <1>3 DEF End, task, disk, OneBuild
  <2>2. \A t \in done : Justified(t)
    BY <2>1 DEF Skipping, Stage
  <2>3. \A t \in done' : (Justified(t))'
    BY <2>1, <2>2 DEF Justified, Reasoned, Up, Unfit
  <2> QED
    BY <2>1, <2>3 DEF Skipping
<1>4. ~Cancel /\ ~DoCycle /\ \A t \in Task, g \in Graphs : ~Reconfigure(t, g)
  BY <1>0 DEF Stage, Cancel, DoCycle, Reconfigure
<1>5. CASE Overflow \/ UNCHANGED vars
  BY <1>0, <1>1, <1>5 DEF Overflow, vars, task, disk, OneBuild
<1>6. ASSUME NEW t \in Task, Edit(t) PROVE Skipping'
  BY <1>0, <1>1, <1>6 DEF Edit, task, OneBuild
<1>7. ASSUME NEW b \in Builder, OneBuild, at'[b].step # "build" \/ (Decided(b))',
             \A c \in Builder : c # b => at'[c] = at[c],
             UNCHANGED <<graph, phase, done, status, blame, built>>
      PROVE  Skipping'
  <2>1. ASSUME NEW c \in Builder, at'[c].step = "build" PROVE (Decided(c))'
    <3>1. CASE c = b
      BY <1>7, <2>1, <3>1
    <3>2. CASE c # b
      <4>1. at'[c] = at[c] /\ Decided(c)
        BY <1>7, <2>1, <3>2 DEF Skipping
      <4>2. (Mine(c))' = Mine(c) /\ (Up(Mine(c)))' = Up(Mine(c)) /\ \A u : (Unfit(u))' <=> Unfit(u)
        BY <1>7, <4>1 DEF Mine, Up, Unfit
      <4>3. (Reasoned(Mine(c), at[c].does, at[c].blame))'
        BY <4>1, <4>2 DEF Decided, Reasoned, Unfit
      <4> QED
        BY <1>7, <4>1, <4>2, <4>3 DEF Decided
    <3> QED
      BY <3>1, <3>2
  <2>2. ASSUME NEW t \in done, Justified(t) PROVE (Justified(t))'
    BY <1>7, <2>2 DEF Justified, Reasoned, Up, Unfit
  <2> QED
    BY <1>7, <2>1, <2>2 DEF Skipping
<1>8. ASSUME NEW b \in Builder, Fetch(b) \/ Report(b) PROVE Skipping'
  <2>1. OneBuild
    BY <1>0, <1>8, TurnDoes DEF OneBuild
  <2> QED
    BY <1>7, <1>8, <2>1, TurnDoes DEF task, disk
<1>9. ASSUME NEW b \in Builder, Enter(b) PROVE Skipping'
  <2>1. Enters(b)
    BY <1>9, EnterDoes
  <2>2. OneBuild
    BY <1>0, <2>1 DEF Enters, OneBuild
  <2> QED
    BY <1>7, <2>1, <2>2, DecidedThen DEF Enters, task, disk
<1>10. ASSUME NEW b \in Builder, NEW t \in Task, FinishUnbuilt(b, t) PROVE Skipping'
  <2>1. /\ Ends(b, t) /\ UNCHANGED failed
        /\ at[b].does \in {"cancel", "clean", "replay", "uptodate", "upstream", "types"}
        /\ \A x \in Task : x # t => blame'[x] = blame[x]
        /\ at[b].does \in {"uptodate", "types"} => status'[t] = "uptodate"
        /\ at[b].does = "upstream" => status'[t] = "upstream"
        /\ at[b].does \notin {"clean", "replay"} => blame'[t] = at[b].blame
        /\ at[b].does # "clean" => built' = built
    BY <1>10, UnbuiltEnds
  <2>2. OneBuild /\ phase = "building"
    BY <1>0, <2>1 DEF Ends, OneBuild
  <2>3. ASSUME Decided(b) PROVE (Justified(t))'
    <3>1. /\ at[b].does \in {"types", "uptodate", "upstream"} /\ Reasoned(t, at[b].does, at[b].blame)
          /\ at[b].does \in {"types", "uptodate"} => built[t].ver # Nil
      BY <2>1, <2>3 DEF Decided, Ends
    <3>2. \A u \in Up(t) : (Unfit(u))' <=> Unfit(u)
      BY <2>1, <2>2, FinalStep DEF Ends, Final, Unfit
    <3>3. (Up(t))' = Up(t)
      BY <2>1 DEF Ends, Up
    <3>4. (Reasoned(t, status[t], blame[t]))'
      BY <2>1, <3>1, <3>2, <3>3 DEF Reasoned
    <3> QED
      BY <2>1, <3>1, <3>4 DEF Justified
  <2> QED
    BY <2>1, <2>2, <2>3, SkippingEnds
<1>11. ASSUME NEW b \in Builder, NEW t \in Task, Compile(b, t) PROVE Skipping'
  <2> DEFINE r == at[b].read
             info == [ver |-> r.src.ver, bad |-> r.src.bad, dts |-> r.src.dts,
                      ups |-> [u \in Task |-> IF u \in Up(t) THEN r.ups[u] ELSE 0]]
  <2>1. /\ Ends(b, t) /\ UNCHANGED failed /\ r \in Inputs /\ at[b].does \in {"error", "newer"}
        /\ \A x \in Task : x # t => blame'[x] = blame[x]
        /\ status'[t] \in {"error", "uptodate"}
        /\ built' = [built EXCEPT ![t] = info]
    BY <1>11, CompileEnds
  <2>2. OneBuild /\ phase = "building"
    BY <1>0, <2>1 DEF Ends, OneBuild
  <2>3. built'[t].ver # Nil
    <3>1. built \in [Task -> Info]
      BY DEF IInv, TypeOK
    <3>2. info.ver \in Nat
      BY <2>1 DEF Inputs, Source
    <3> QED
      BY <2>1, <3>1, <3>2, NilIsNoTask
  <2>4. ASSUME Decided(b) PROVE (Justified(t))'
    <3>1. ~\E u \in Up(t) : Unfit(u)
      BY <2>1, <2>4 DEF Decided, Reasoned, Ends
    <3>2. \A u \in Up(t) : (Unfit(u))' <=> Unfit(u)
      BY <2>1, <2>2, FinalStep DEF Ends, Final, Unfit
    <3>3. (Up(t))' = Up(t)
      BY <2>1 DEF Ends, Up
    <3> QED
      BY <2>1, <2>3, <3>1, <3>2, <3>3 DEF Justified, Reasoned
  <2> QED
    BY <2>1, <2>2, <2>4, SkippingEnds
<1>12. ASSUME NEW b \in Builder, NEW t \in Task PROVE ~Fail(b, t)
  BY <1>0 DEF Fail
<1>13. ASSUME NEW b \in Builder, Build(b) PROVE Skipping'
  BY <1>8, <1>9, <1>10, <1>11, <1>12, <1>13 DEF Build
<1> QED
  BY <1>2, <1>3, <1>4, <1>5, <1>6, <1>13 DEF Next

(* --stopBuildOnErrors: when a build ends, a project was skipped exactly   *)
(* when one upstream of it, along an edge of the graph, has errors or was  *)
(* skipped, it blames one of these, and every other project is built; for  *)
(* every graph and any number of builders.                                 *)
THEOREM SkipsForAReason == Spec => []SkippedForAReason
<1>1. Init => Fresh /\ Skipping
  <2> SUFFICES ASSUME Init PROVE Fresh /\ Skipping
    OBVIOUS
  <2>1. Fresh
    BY DEF Init, Fresh, Untouched
  <2>2. \A b \in Builder : at[b].step = "gone"
    BY DEF Init, Away
  <2> QED
    BY <2>1, <2>2 DEF Init, Skipping
<1>2. IInv /\ Stage /\ Fresh /\ Skipping /\ [Next]_vars => Fresh' /\ Skipping'
  BY FreshStep, SkippingStep
<1>3. Stage /\ Skipping => SkippedForAReason
  <2> SUFFICES ASSUME Stage, Skipping, OneBuild, phase = "ended", ~graph.errors,
                      NEW t \in Range(graph.order)
               PROVE  /\ status[t] = "upstream" <=> \E u \in Up(t) : Unfit(u)
                      /\ status[t] = "upstream" => Unfit(blame[t]) /\ blame[t] \in Up(t)
                      /\ status[t] # "upstream" => built[t].ver # Nil
    BY DEF SkippedForAReason, OneBuild
  <2>1. Justified(t)
    BY DEF Stage, Skipping
  <2> QED
    BY <2>1 DEF Justified, Reasoned
<1> QED
  BY <1>1, <1>2, <1>3, Invariance, StageHolds, PTL DEF Spec

-------------------------------------------------------------------------------
(* A watch.  Versions are never used twice, so outputs of another version  *)
(* than the sources stay out of date until the next compilation.           *)
Versions ==
  /\ \A t \in Task : src[t].ver <= edits /\ (built[t].ver # Nil => built[t].ver <= edits)
  /\ \A b \in Builder : at[b].step = "build" => at[b].read.src.ver <= edits

(* Versions is kept by every step.                                         *)
LEMMA VersionsStep ==
  ASSUME IInv, Versions, [Next]_vars
  PROVE  Versions'
<1>1. TypeOK
  BY DEF IInv
<1>2. /\ edits \in Nat /\ src \in [Task -> Source] /\ built \in [Task -> Info]
      /\ \A x \in Task : src[x] \in Source /\ src[x].ver \in Nat /\ built[x] \in Info
                         /\ (built[x].ver # Nil => built[x].ver \in Nat)
  BY <1>1 DEF TypeOK, Source, Info
<1>3. \A b \in Builder : at[b].step = "build" => at[b].read.src.ver \in Nat
  BY DEF IInv, Read, Inputs, Source
<1>4. CASE UNCHANGED <<at, src, built, edits>>
  BY <1>4 DEF Versions
<1>5. CASE at' = [b \in Builder |-> Fetching] /\ UNCHANGED <<src, built, edits>>
  <2>1. \A b \in Builder : at'[b].step = "fetch"
    BY <1>5 DEF Fetching, Away
  <2> QED
    BY <1>5, <2>1 DEF Versions
<1>6. ASSUME NEW g, Begin(g) PROVE at' = at \/ at' = [b \in Builder |-> Fetching]
  BY <1>6 DEF Begin
<1>7. ASSUME Start \/ End \/ Cancel \/ Overflow \/ UNCHANGED vars PROVE Versions'
  BY <1>4, <1>5, <1>6, <1>7 DEF Start, End, Cancel, Overflow, vars, disk
<1>8. ASSUME DoCycle PROVE Versions'
  BY <1>4, <1>5, <1>6, <1>8 DEF DoCycle, disk
<1>9. ASSUME NEW t \in Task, edits' = edits + 1, built' = built,
             \A x \in Task : src'[x].ver = src[x].ver \/ src'[x].ver = edits + 1,
             \A b \in Builder : at'[b] = at[b] \/ at'[b].step = "fetch"
      PROVE  Versions'
  <2>1. \A n \in Nat : n <= edits => n <= edits + 1
    BY <1>2
  <2>2. edits + 1 <= edits + 1
    BY <1>2
  <2>3. \A x \in Task : src'[x].ver <= edits'
    BY <1>2, <1>9, <2>1, <2>2 DEF Versions
  <2>4. \A x \in Task : built'[x].ver # Nil => built'[x].ver <= edits'
    BY <1>2, <1>9, <2>1 DEF Versions
  <2>5. \A b \in Builder : at'[b].step = "build" => at'[b].read.src.ver <= edits'
    BY <1>3, <1>9, <2>1 DEF Versions
  <2> QED
    BY <2>3, <2>4, <2>5 DEF Versions
<1>10. ASSUME NEW t \in Task, Edit(t) PROVE Versions'
  <2>1. edits' = edits + 1 /\ built' = built /\ at' = at
    BY <1>10 DEF Edit, Noticed
  <2>2. \/ src' = src
        \/ \E s : s.ver = edits + 1 /\ src' = [src EXCEPT ![t] = s]
    <3>1. \/ src' = src
          \/ \E bad \in BOOLEAN, dts \in {src[t].dts, edits + 1} :
               src' = [src EXCEPT ![t] = [ver |-> edits + 1, bad |-> bad, dts |-> dts]]
      BY <1>10 DEF Edit
    <3>2. ASSUME NEW bad \in BOOLEAN, NEW dts \in {src[t].dts, edits + 1},
                 src' = [src EXCEPT ![t] = [ver |-> edits + 1, bad |-> bad, dts |-> dts]]
          PROVE  \E s : s.ver = edits + 1 /\ src' = [src EXCEPT ![t] = s]
      BY <3>2
    <3> QED
      BY <3>1, <3>2
  <2>3. \A x \in Task : src'[x].ver = src[x].ver \/ src'[x].ver = edits + 1
    BY <1>2, <2>2
  <2> QED
    BY <1>9, <2>1, <2>3
<1>11. ASSUME NEW t \in Task, NEW g \in Graphs, Reconfigure(t, g) PROVE Versions'
  <2>1. /\ edits' = edits + 1 /\ built' = built /\ Begin(g)
        /\ src' = [src EXCEPT ![t].ver = edits + 1]
    BY <1>11 DEF Reconfigure, Noticed
  <2>2. \A x \in Task : src'[x].ver = src[x].ver \/ src'[x].ver = edits + 1
    BY <1>2, <2>1 DEF Source
  <2>3. \A b \in Builder : at'[b] = at[b] \/ at'[b].step = "fetch"
    BY <1>6, <2>1 DEF Fetching, Away
  <2> QED
    BY <1>9, <2>1, <2>2, <2>3
<1>12. ASSUME NEW b \in Builder, at'[b].step # "build" \/ at'[b].read.src = src[Mine(b)],
              Mine(b) \in Task \/ at'[b].step # "build",
              \A c \in Builder : c # b => at'[c] = at[c], UNCHANGED <<src, edits>>,
              \A x \in Task : built'[x].ver # Nil =>
                built'[x].ver = built[x].ver
                  \/ (at[b].step = "build" /\ built'[x].ver = at[b].read.src.ver)
       PROVE  Versions'
  <2>1. \A x \in Task : src'[x].ver <= edits' /\ (built'[x].ver # Nil => built'[x].ver <= edits')
    BY <1>12 DEF Versions
  <2>2. \A c \in Builder : at'[c].step = "build" => at'[c].read.src.ver <= edits'
    BY <1>12 DEF Versions
  <2> QED
    BY <2>1, <2>2 DEF Versions
<1>13. ASSUME NEW b \in Builder, Fetch(b) \/ Report(b) PROVE Versions'
  BY <1>12, <1>13, TurnDoes DEF disk
<1>14. ASSUME NEW b \in Builder, Enter(b) PROVE Versions'
  BY <1>12, <1>14, EnterDoes DEF Enters, disk
<1>15. ASSUME NEW b \in Builder, NEW t \in Task, FinishUnbuilt(b, t) \/ Fail(b, t) PROVE Versions'
  <2>1. Ends(b, t)
    BY <1>15, UnbuiltEnds, FailEnds
  <2>2. built'[t].ver = Nil \/ built'[t] = built[t]
    <3>1. CASE Fail(b, t)
      BY <3>1, FailEnds
    <3>2. CASE FinishUnbuilt(b, t)
      BY <3>2, <1>2 DEF FinishUnbuilt, Unbuilt
    <3> QED
      BY <1>15, <3>1, <3>2
  <2> QED
    BY <1>12, <2>1, <2>2 DEF Ends
<1>16. ASSUME NEW b \in Builder, NEW t \in Task, Compile(b, t) PROVE Versions'
  <2> DEFINE r == at[b].read
             info == [ver |-> r.src.ver, bad |-> r.src.bad, dts |-> r.src.dts,
                      ups |-> [u \in Task |-> IF u \in Up(t) THEN r.ups[u] ELSE 0]]
  <2>1. Ends(b, t) /\ built' = [built EXCEPT ![t] = info]
    BY <1>16, CompileEnds
  <2>2. built'[t].ver = r.src.ver
    <3>1. info.ver = r.src.ver
      OBVIOUS
    <3> QED
      BY <1>2, <2>1, <3>1
  <2> QED
    BY <1>12, <2>1, <2>2 DEF Ends
<1>17. ASSUME NEW b \in Builder, Build(b) PROVE Versions'
  BY <1>13, <1>14, <1>15, <1>16, <1>17 DEF Build
<1> QED
  BY <1>7, <1>8, <1>10, <1>11, <1>17 DEF Next

(* As long as a task of the order is in its initial cycle, no task has a   *)
(* status before it is built: nothing that is kept can go out of date      *)
(* because a task in its initial cycle marks nobody.                       *)
Working == IF phase = "building" THEN done ELSE {}
Firsts ==
  /\ \A u, d \in Range(graph.order) :
       initial[u] = TRUE /\ d \notin Working => status[d] = "none" /\ pending[d] = TRUE
  /\ phase = "start" => \A t \in Task : status[t] = "none" /\ pending[t] = TRUE
  /\ phase = "start" => done = {}
  /\ phase = "building" => \A d \in done : initial[d] = FALSE

(* What a cycle does to its tasks.                                         *)
LEMMA ResetDoes ==
  ASSUME TypeOK, NEW S, NEW N, Reset(S, N)
  PROVE  \A x \in Task :
           /\ x \in S \cup N => status'[x] = "none" /\ pending'[x] = TRUE
           /\ x \notin S \cup N => status'[x] = status[x] /\ pending'[x] = pending[x]
           /\ x \in N => initial'[x] = FALSE
           /\ x \notin N => initial'[x] = initial[x]
<1>1. status \in [Task -> Status] /\ pending \in [Task -> BOOLEAN] /\ initial \in [Task -> BOOLEAN]
  BY DEF TypeOK
<1> QED
  BY <1>1 DEF Reset

(* Where a build begins, nothing is done, or nothing is built.             *)
LEMMA BeginDoes ==
  ASSUME IInv, phase \in {"start", "idle"}, NEW g, Begin(g)
  PROVE  /\ phase' \in {"building", "idle", "ended"}
         /\ \A b \in Builder : at'[b].step # "build"
         /\ g.errors => phase' # "building" /\ UNCHANGED <<done, failed>>
         /\ ~g.errors => phase' = "building" /\ done' = {} /\ failed' = FALSE
<1>1. CASE g.errors
  <2>1. phase' \in {"idle", "ended"} /\ UNCHANGED <<done, failed, at>>
    BY <1>1 DEF Begin
  <2>2. \A b \in Builder : at[b].step = "gone"
    BY DEF IInv, Idle
  <2> QED
    BY <1>1, <2>1, <2>2
<1>2. CASE ~g.errors
  BY <1>2 DEF Begin, Fetching, Away
<1> QED
  BY <1>1, <1>2

(* Firsts is kept by every step.                                           *)
LEMMA FirstsStep ==
  ASSUME IInv, Stage, Firsts, [Next]_vars
  PROVE  Firsts'
<1>1. TypeOK
  BY DEF IInv
<1>2. CASE UNCHANGED <<graph, phase, done, status, pending, initial>>
  BY <1>2 DEF Firsts, Working
<1>3. ASSUME Start PROVE Firsts'
  <2>1. phase = "start" /\ Begin(graph) /\ UNCHANGED <<graph, status, pending, initial>>
    BY <1>3 DEF Start, task
  <2>2. phase' \in {"building", "idle", "ended"} /\ (phase' = "building" => done' = {})
    BY <2>1, BeginDoes
  <2>3. Working = {} /\ Working' = {}
    BY <2>1, <2>2 DEF Working
  <2> QED
    BY <2>1, <2>2, <2>3 DEF Firsts
<1>4. ASSUME End PROVE Firsts'
  <2>1. /\ phase = "building" /\ phase' \in {"idle", "ended"} /\ ~graph.errors
        /\ UNCHANGED <<graph, done, initial>>
    BY <1>4 DEF End, task, Stage
  <2>2. Stage'
    BY StageStep
  <2>3. Range(graph.order) \subseteq done
    BY <2>1, <2>2 DEF Stage
  <2>4. \A u \in Range(graph.order) : initial[u] = FALSE
    BY <2>1, <2>3 DEF Firsts
  <2> QED
    BY <2>1, <2>4 DEF Firsts
<1>5. ASSUME NEW t \in Task, Edit(t) PROVE Firsts'
  BY <1>2, <1>5 DEF Edit, task
<1>6. ASSUME Cancel \/ Overflow \/ UNCHANGED vars PROVE Firsts'
  BY <1>2, <1>6 DEF Cancel, Overflow, vars, task
<1>7. ASSUME DoCycle PROVE Firsts'
  <2>1. /\ phase = "idle" /\ graph' = graph
        /\ \E S, N : Reset(S, N)
        /\ Begin(graph) \/ UNCHANGED <<phase, done>>
    BY <1>7 DEF DoCycle
  <2>2. phase' \in {"building", "idle", "ended"} /\ (phase' = "building" => done' = {})
    BY <2>1, BeginDoes
  <2>3. Working = {} /\ Working' = {}
    BY <2>1, <2>2 DEF Working
  <2>4. /\ Range(graph.order) \subseteq Task
    BY <1>1, Order DEF TypeOK
  <2>5. \A x \in Task : /\ status'[x] \in {status[x], "none"} /\ pending'[x] \in {pending[x], TRUE}
                        /\ initial'[x] \in {initial[x], FALSE}
    <3>1. PICK S, N : Reset(S, N)
      BY <2>1
    <3> QED
      BY <1>1, <3>1, ResetDoes
  <2>6. ASSUME NEW u \in Range(graph.order), NEW d \in Range(graph.order), initial'[u] = TRUE
        PROVE  status'[d] = "none" /\ pending'[d] = TRUE
    <3>1. u \in Task /\ d \in Task
      BY <2>4
    <3>2. initial[u] = TRUE
      BY <2>5, <2>6, <3>1
    <3>3. status[d] = "none" /\ pending[d] = TRUE
      BY <2>3, <3>2 DEF Firsts
    <3> QED
      BY <2>5, <3>1, <3>3
  <2> QED
    BY <2>1, <2>2, <2>6 DEF Firsts
<1>8. ASSUME NEW t \in Task, NEW g \in Graphs, Reconfigure(t, g) PROVE Firsts'
  <2> DEFINE S == events \cap Range(graph.order)
             N == {t} \cup (Task \ Range(graph.order))
  <2>1. phase = "idle" /\ graph' = g /\ Reset(S, N) /\ Begin(g)
    BY <1>8 DEF Reconfigure
  <2>2. phase' \in {"building", "idle", "ended"} /\ (phase' = "building" => done' = {})
    BY <2>1, BeginDoes
  <2>3. Working = {} /\ Working' = {}
    BY <2>1, <2>2 DEF Working
  <2>4. Range(g.order) \subseteq Task
    BY GraphsAreTopological DEF Topological, Range
  <2>5. ASSUME NEW u \in Range(g.order), NEW d \in Range(g.order), initial'[u] = TRUE
        PROVE  status'[d] = "none" /\ pending'[d] = TRUE
    <3>1. u \in Task /\ d \in Task
      BY <2>4
    <3>2. u \notin N /\ initial[u] = TRUE
      BY <1>1, <2>1, <2>5, <3>1, ResetDoes
    <3>3. u \in Range(graph.order)
      BY <3>1, <3>2
    <3>4. CASE d \in S \cup N
      BY <1>1, <2>1, <3>1, <3>4, ResetDoes
    <3>5. CASE d \notin S \cup N
      <4>1. status'[d] = status[d] /\ pending'[d] = pending[d]
        BY <1>1, <2>1, <3>1, <3>5, ResetDoes
      <4> QED
        BY <2>3, <3>1, <3>2, <3>3, <3>5, <4>1 DEF Firsts
    <3> QED
      BY <3>4, <3>5
  <2> QED
    BY <2>1, <2>2, <2>5 DEF Firsts
<1>9. ASSUME NEW b \in Builder, Fetch(b) \/ Enter(b) \/ Report(b)
      PROVE  Firsts'
  BY <1>2, <1>9 DEF Fetch, Enter, Report, task
<1>10. ASSUME NEW b \in Builder, NEW t \in Task, Ends(b, t),
              \A x \in Task : x # t /\ status[x] = "none" /\ pending[x] = TRUE
                                => status'[x] = "none" /\ pending'[x] = TRUE
       PROVE  Firsts'
  <2>1. /\ phase = "building" /\ phase' = phase /\ graph' = graph /\ done' = done \cup {t}
        /\ initial'[t] = FALSE /\ \A x \in Task : x # t => initial'[x] = initial[x]
    BY <1>10 DEF Ends
  <2>2. Working = done /\ Working' = done'
    BY <2>1 DEF Working
  <2>3. Range(graph.order) \subseteq Task /\ done \subseteq Task
    BY <1>1, Order DEF TypeOK
  <2>4. \A u, d \in Range(graph.order) :
          initial'[u] = TRUE /\ d \notin done' => status'[d] = "none" /\ pending'[d] = TRUE
    BY <1>10, <2>1, <2>2, <2>3 DEF Firsts
  <2>5. \A d \in done' : initial'[d] = FALSE
    BY <2>1, <2>3 DEF Firsts
  <2> QED
    BY <2>1, <2>2, <2>4, <2>5 DEF Firsts
<1>11. ASSUME NEW b \in Builder, NEW t \in Task, FinishUnbuilt(b, t) \/ Fail(b, t) PROVE Firsts'
  <2>1. Ends(b, t) /\ \A x \in Task : x # t => status'[x] = status[x] /\ pending'[x] = pending[x]
    BY <1>11, UnbuiltEnds, FailEnds
  <2> QED
    BY <1>10, <2>1
<1>12. ASSUME NEW b \in Builder, NEW t \in Task, Compile(b, t) PROVE Firsts'
  <2> DEFINE k == IF at[b].read.src.bad THEN "error" ELSE "uptodate"
             c == built[t].ver = Nil \/ at[b].read.src.dts # built[t].dts
  <2>1. /\ Ends(b, t)
        /\ status' = [d \in Task |-> IF Marks(t, k) /\ d \in Down(t)
                                     THEN Marked(t, d, c) ELSE [status EXCEPT ![t] = k][d]]
        /\ \A x \in Task : x # t => pending'[x] = (pending[x] \/ (Marks(t, k) /\ x \in Down(t)))
    BY <1>12, CompileEnds
  <2> HIDE DEF k, c
  <2>2. status \in [Task -> Status]
    BY <1>1 DEF TypeOK
  <2>3. \A x \in Task : x # t /\ status[x] = "none" => status'[x] = "none"
    BY <2>1, <2>2 DEF Marked
  <2> QED
    BY <1>10, <2>1, <2>3
<1>13. ASSUME NEW b \in Builder, Build(b) PROVE Firsts'
  BY <1>9, <1>11, <1>12, <1>13 DEF Build
<1> QED
  BY <1>3, <1>4, <1>5, <1>6, <1>7, <1>8, <1>13 DEF Next

(* What a watch that has not failed keeps.  The outputs of a project are   *)
(* as its sources and what it refers to are (Held), or the disk shows that *)
(* they are not (Disk), or somebody knows: the project is to be built, the *)
(* watch has an event, or nobody could notice (missed).  A status or a     *)
(* replay that spares a project its inspection (Kept) is good only for a   *)
(* project that is Held; what a builder has decided rests on inputs that   *)
(* do not change before it acts (Underway).                                *)
Watched == opts.watch /\ ~opts.stop /\ ~failed

Uses(d) == \A u \in Referred(graph, d) : built[d].ups[u] = built[u].dts
Current(d) == built[d].ver = src[d].ver
Noted(d) == d \in missed \/ d \in events \/ overflow
Held(d) == (Current(d) \/ Noted(d)) /\ (Uses(d) \/ d \in missed)

Disk(d) ==
  /\ built[d].ver = Nil \/ Current(d) \/ <<d, d>> \in later \/ d \in missed
  /\ \/ built[d].ver = Nil \/ d \in missed \/ (<<d, d>> \in later /\ ~Current(d))
     \/ \A u \in Referred(graph, d) :
          built[d].ups[u] = built[u].dts \/ <<u, d>> \in newdts
Kept(d) ==
  \/ ~graph.errors /\ d \in done
  \/ status[d] \in {"types", "uptodate"}
  \/ pending[d] = FALSE
Underway(b) ==
  /\ \A u \in Up(Mine(b)) : at[b].read.ups[u] = built[u].dts
  /\ at[b].does \in {"newer", "error", "types", "uptodate", "replay"}
  /\ at[b].does \in {"types", "uptodate", "replay"} => Held(Mine(b))

Quiet ==
  Watched =>
    /\ Loose(graph) \subseteq missed
    /\ \A t \in Task : status[t] # "upstream"
    /\ \A d \in Task : Disk(d)
    /\ \A d \in Range(graph.order) : Kept(d) => Held(d)
    /\ \A b \in Builder : at[b].step = "build" => Underway(b)

(* A project whose outputs and references are left alone stays Held, and   *)
(* what the disk shows of it stays true.                                   *)
LEMMA HeldKept ==
  ASSUME NEW d, Held(d), built'[d] = built[d], src'[d] = src[d],
         (Referred(graph, d))' = Referred(graph, d),
         \A u \in Referred(graph, d) : built'[u].dts = built[u].dts \/ d \in missed,
         d \in missed => d \in missed', Noted(d) => (Noted(d))'
  PROVE  (Held(d))'
<1>1. Current(d) => (Current(d))'
  BY DEF Current
<1>2. Uses(d) \/ d \in missed => (Uses(d))' \/ d \in missed'
  BY DEF Uses
<1> QED
  BY <1>1, <1>2 DEF Held

(* The same, for what the disk shows.                                      *)
LEMMA DiskKept ==
  ASSUME NEW d, Disk(d), built'[d] = built[d], src'[d] = src[d],
         (Referred(graph, d))' = Referred(graph, d),
         \A u \in Referred(graph, d) : built'[u].dts = built[u].dts \/ <<u, d>> \in newdts',
         \A u \in Referred(graph, d) : <<u, d>> \in newdts => <<u, d>> \in newdts',
         d \in missed => d \in missed', <<d, d>> \in later => <<d, d>> \in later'
  PROVE  (Disk(d))'
<1>1. (Current(d))' <=> Current(d)
  BY DEF Current
<1>2. ASSUME \A u \in Referred(graph, d) : built[d].ups[u] = built[u].dts \/ <<u, d>> \in newdts
      PROVE  \A u \in (Referred(graph, d))' : built'[d].ups[u] = built'[u].dts \/ <<u, d>> \in newdts'
  BY <1>2
<1> QED
  BY <1>1, <1>2 DEF Disk

(* A project of the order that is not missed has an edge for each of its   *)
(* references.                                                             *)
LEMMA NotLoose ==
  ASSUME NEW d \in Range(graph.order), ~graph.errors, Loose(graph) \subseteq missed, d \notin missed
  PROVE  Referred(graph, d) \subseteq Up(d)
BY DEF Loose, Up

(* A step that leaves the disk and the tasks alone.                        *)
LEMMA QuietFrame ==
  ASSUME Quiet, Watched,
         UNCHANGED <<graph, src, built, later, newdts, missed, status, pending, done>>,
         \A d \in Task : Noted(d) => (Noted(d))', Range(graph.order) \subseteq Task,
         \A b \in Builder : at'[b].step = "build" =>
           (Underway(b))' \/ (at'[b] = at[b] /\ Mine(b) \in Task)
  PROVE  Quiet'
<1>1. \A d : (Referred(graph, d))' = Referred(graph, d)
  BY DEF Referred
<1>2. ASSUME NEW d \in Task, Held(d) PROVE (Held(d))'
  BY <1>1, <1>2, HeldKept
<1>3. ASSUME NEW d \in Task, Disk(d) PROVE (Disk(d))'
  BY <1>1, <1>3, DiskKept
<1>4. \A d : (Kept(d))' <=> Kept(d)
  BY DEF Kept
<1>5. ASSUME NEW b \in Builder, at'[b].step = "build", at'[b] = at[b], Mine(b) \in Task,
             Underway(b)
      PROVE  (Underway(b))'
  <2>1. (Mine(b))' = Mine(b) /\ (Up(Mine(b)))' = Up(Mine(b))
    BY <1>5 DEF Mine, Up
  <2>2. Held(Mine(b)) => (Held(Mine(b)))'
    <3>1. PICK d \in Task : d = Mine(b) /\ d = (Mine(b))'
      BY <1>5, <2>1
    <3>2. Held(d) => (Held(d))'
      BY <1>2
    <3> QED
      BY <3>1, <3>2 DEF Held, Current, Noted, Uses, Referred
  <2> QED
    BY <1>5, <2>1, <2>2 DEF Underway
<1>6. /\ (Loose(graph))' \subseteq missed' /\ \A t \in Task : status'[t] # "upstream"
  BY DEF Quiet, Loose, Referred
<1>7. \A d \in Task : (Disk(d))'
  BY <1>3 DEF Quiet
<1>8. \A d \in Range(graph'.order) : (Kept(d))' => (Held(d))'
  BY <1>2, <1>4 DEF Quiet
<1>9. \A b \in Builder : at'[b].step = "build" => (Underway(b))'
  BY <1>5 DEF Quiet
<1> QED
  BY <1>6, <1>7, <1>8, <1>9 DEF Quiet

(* What a builder decides in a watch.                                      *)
LEMMA UnderwayThen ==
  ASSUME IInv, Stage, Quiet, Watched, NEW b \in Builder, Enters(b)
  PROVE  (Underway(b))'
<1> DEFINE t == Mine(b)
<1>1. /\ t \in Task /\ t \in Range(graph.order) /\ (Mine(b))' = t /\ ~graph.errors
      /\ at'[b].does = Plan(t) /\ \A u \in Task : at'[b].read.ups[u] = built[u].dts
      /\ UNCHANGED <<graph, src, built, missed, events, overflow>>
  BY DEF Enters, Mine, disk, watch, Stage
<1>2. TypeOK
  BY DEF IInv
<1>3. Up(t) \subseteq Task
  BY <1>1, <1>2, UpIsTask DEF TypeOK
<1>4. Plan(t) = IF ~pending[t] THEN "replay" ELSE UpToDateStatus(t)
  BY DEF Plan, Watched, Stage
<1>5. status[t] \in Status /\ status[t] # "upstream" /\ pending[t] \in BOOLEAN
  BY <1>1, <1>2 DEF Quiet, TypeOK
<1>6. ~Stopped(t)
  BY DEF Stopped, Watched
<1>7. Inspected(t) \in {"newer", "types", "uptodate"}
  BY <1>6 DEF Inspected
<1>8. Plan(t) \in {"newer", "error", "types", "uptodate", "replay"}
  BY <1>4, <1>5, <1>7 DEF UpToDateStatus, Status
<1>9. ASSUME Inspected(t) \in {"types", "uptodate"} PROVE Held(t)
  <2>1. /\ built[t].ver # Nil /\ ~(<<t, t>> \in later /\ ~Current(t))
        /\ \A u \in Up(t) : <<u, t>> \notin newdts
    BY <1>6, <1>9 DEF Inspected, Current
  <2>2. Disk(t) /\ Loose(graph) \subseteq missed
    BY <1>1 DEF Quiet
  <2>3. Current(t) \/ t \in missed
    BY <2>1, <2>2 DEF Disk
  <2>4. CASE t \in missed
    BY <2>4 DEF Held, Noted
  <2>5. CASE t \notin missed
    <3>1. Referred(graph, t) \subseteq Up(t)
      BY <1>1, <2>2, <2>5, NotLoose
    <3>2. Uses(t)
      BY <2>1, <2>2, <2>5, <3>1 DEF Disk, Uses
    <3> QED
      BY <2>3, <2>5, <3>2 DEF Held
  <2> QED
    BY <2>4, <2>5
<1>10. Plan(t) \in {"types", "uptodate", "replay"} => Held(t)
  <2>1. Kept(t) => Held(t)
    BY <1>1 DEF Quiet
  <2>2. CASE pending[t] = FALSE
    BY <2>1, <2>2 DEF Kept
  <2>3. CASE pending[t] = TRUE /\ status[t] # "none"
    <3>1. Plan(t) = status[t]
      BY <1>4, <2>3 DEF UpToDateStatus
    <3> QED
      BY <1>5, <2>1, <3>1 DEF Kept, Status
  <2>4. CASE pending[t] = TRUE /\ status[t] = "none"
    <3>1. Plan(t) = Inspected(t)
      BY <1>4, <2>4 DEF UpToDateStatus
    <3> QED
      BY <1>7, <1>9, <3>1
  <2> QED
    BY <1>5, <2>2, <2>3, <2>4
<1> HIDE DEF t
<1>11. (Up(Mine(b)))' = Up(t)
  BY <1>1 DEF Up
<1>12. Held(t) => (Held(Mine(b)))'
  BY <1>1 DEF Held, Current, Noted, Uses, Referred
<1> QED
  BY <1>1, <1>3, <1>8, <1>10, <1>11, <1>12 DEF Underway

(* An edit: the watch has an event, or it is not there yet.                *)
LEMMA QuietEdit ==
  ASSUME IInv, Stage, Versions, Firsts, Quiet, Watched, NEW t \in Task, Edit(t)
  PROVE  Quiet'
<1>1. /\ UNCHANGED <<graph, phase, at, done, status, pending, built, newdts, overflow>>
      /\ later' = later \cup {<<t, d>> : d \in Task} /\ phase # "ended"
      /\ missed' = Loose(graph) \cup missed
                     \cup (IF watching \/ phase = "start" THEN {} ELSE {t})
      /\ events' = IF watching /\ ~overflow THEN events \cup {t} ELSE events
  BY DEF Edit, Noticed, Touched, task
<1>2. TypeOK
  BY DEF IInv
<1>3. \A d : (Referred(graph, d))' = Referred(graph, d)
  BY <1>1 DEF Referred
<1>4. /\ src \in [Task -> Source] /\ edits \in Nat
      /\ built[t].ver # Nil => built[t].ver \in Nat /\ built[t].ver <= edits
  BY <1>2 DEF TypeOK, Info, Versions
<1>5. /\ \A d \in Task : d # t => src'[d] = src[d]
      /\ src'[t] = src[t] \/ src'[t].ver = edits + 1
  <2>1. \/ src' = src
        \/ \E bad \in BOOLEAN, dts \in {src[t].dts, edits + 1} :
             src' = [src EXCEPT ![t] = [ver |-> edits + 1, bad |-> bad, dts |-> dts]]
    BY DEF Edit
  <2>2. ASSUME NEW bad \in BOOLEAN, NEW dts \in {src[t].dts, edits + 1},
               src' = [src EXCEPT ![t] = [ver |-> edits + 1, bad |-> bad, dts |-> dts]]
        PROVE  /\ \A d \in Task : d # t => src'[d] = src[d]
               /\ src'[t].ver = edits + 1
    BY <1>4, <2>2
  <2> QED
    BY <2>1, <2>2
<1>6. Quiet /\ /\ Loose(graph) \subseteq missed
               /\ \A x \in Task : status[x] # "upstream"
               /\ \A d \in Task : Disk(d)
               /\ \A d \in Range(graph.order) : Kept(d) => Held(d)
               /\ \A b \in Builder : at[b].step = "build" => Underway(b)
  BY DEF Quiet
<1>7. \A d : Noted(d) => (Noted(d))'
  BY <1>1 DEF Noted
<1>8. ASSUME NEW d \in Task, Held(d), d # t \/ phase # "start" PROVE (Held(d))'
  <2>1. CASE d # t
    BY <1>1, <1>3, <1>5, <1>7, <1>8, <2>1, HeldKept
  <2>2. CASE d = t
    <3>1. (Noted(t))'
      BY <1>1, <1>8, <2>2 DEF Noted
    <3>2. Uses(t) => (Uses(t))'
      BY <1>1, <1>3 DEF Uses
    <3> QED
      BY <1>1, <1>8, <2>2, <3>1, <3>2 DEF Held
  <2> QED
    BY <2>1, <2>2
<1>9. ASSUME NEW d \in Task PROVE (Disk(d))'
  <2>1. Disk(d)
    BY <1>6
  <2>2. CASE src'[d] = src[d]
    BY <1>1, <1>3, <2>1, <2>2, DiskKept
  <2>3. CASE d = t /\ src'[t].ver = edits + 1
    <3>1. <<t, t>> \in later'
      BY <1>1
    <3>2. built[t].ver = Nil \/ ~(Current(t))'
      <4>1. ASSUME built[t].ver # Nil PROVE built[t].ver # edits + 1
        BY <1>4, <4>1
      <4> QED
        BY <1>1, <2>3, <4>1 DEF Current
    <3> QED
      BY <1>1, <2>3, <3>1, <3>2 DEF Disk
  <2> QED
    BY <1>5, <2>2, <2>3
<1>10. ASSUME NEW d \in Range(graph.order), (Kept(d))' PROVE (Held(d))'
  <2>1. Kept(d) /\ Held(d) /\ d \in Task
    BY <1>1, <1>2, <1>6, <1>10, Order DEF Kept, TypeOK
  <2>2. d = t => phase # "start"
    BY <2>1 DEF Kept, Firsts
  <2> QED
    BY <1>8, <2>1, <2>2
<1>11. ASSUME NEW b \in Builder, at'[b].step = "build" PROVE (Underway(b))'
  <2>1. phase = "building" /\ Mine(b) \in Task
    BY <1>1, <1>11, InBuild DEF Busy
  <2>2. Underway(b)
    BY <1>1, <1>6, <1>11
  <2>3. (Mine(b))' = Mine(b) /\ (Up(Mine(b)))' = Up(Mine(b))
    BY <1>1 DEF Mine, Up
  <2>4. Held(Mine(b)) => (Held(Mine(b)))'
    <3>1. PICK d \in Task : d = Mine(b) /\ d = (Mine(b))'
      BY <2>1, <2>3
    <3>2. Held(d) => (Held(d))'
      BY <1>8, <2>1
    <3> QED
      BY <3>1, <3>2 DEF Held, Current, Noted, Uses, Referred
  <2> QED
    BY <1>1, <2>2, <2>3, <2>4 DEF Underway
<1>12. (Loose(graph))' \subseteq missed'
  BY <1>1 DEF Loose, Referred
<1> QED
  BY <1>1, <1>6, <1>9, <1>10, <1>11, <1>12 DEF Quiet

(* A cycle: what keeps its status has had no event.                        *)
LEMMA QuietCycle ==
  ASSUME IInv, Stage, Quiet, Watched, DoCycle
  PROVE  Quiet'
<1> DEFINE order == Range(graph.order)
           S == IF overflow THEN {} ELSE events \cap order
           N == IF overflow THEN Task ELSE {}
<1>1. /\ phase = "idle" /\ events' = {} /\ overflow' = FALSE /\ Reset(S, N)
      /\ UNCHANGED <<graph, src, built, later, newdts, missed>>
      /\ IF overflow \/ events \cap order # {} THEN Begin(graph) ELSE UNCHANGED <<at, done>>
  BY DEF DoCycle, disk
<1>2. TypeOK /\ order \subseteq Task
  BY Order DEF IInv, TypeOK
<1>3. \A b \in Builder : at'[b].step # "build"
  <2>1. \A b \in Builder : at[b].step = "gone"
    BY <1>1 DEF IInv, Idle
  <2> QED
    BY <1>1, <2>1, BeginDoes
<1>4. \A d : (Referred(graph, d))' = Referred(graph, d)
  BY <1>1 DEF Referred
<1>5. ASSUME NEW d \in order, (Kept(d))' PROVE (Held(d))'
  <2>1. d \in Task
    BY <1>2
  <2>2. ~graph.errors /\ d \in done' => d \in done /\ ~overflow /\ events \cap order = {}
    BY <1>1, BeginDoes
  <2>3. ~overflow /\ d \notin events
    <3>1. CASE d \in S \cup N
      <4>1. status'[d] = "none" /\ pending'[d] = TRUE
        BY <1>1, <1>2, <2>1, <3>1, ResetDoes
      <4>2. ~graph.errors /\ d \in done'
        BY <1>1, <1>5, <4>1 DEF Kept
      <4> QED
        BY <2>2, <4>2
    <3>2. CASE d \notin S \cup N
      BY <2>1, <3>2
    <3> QED
      BY <3>1, <3>2
  <2>4. status'[d] = status[d] /\ pending'[d] = pending[d]
    <3>1. d \notin S \cup N
      BY <2>3
    <3> QED
      BY <1>1, <1>2, <2>1, <3>1, ResetDoes
  <2>5. Kept(d)
    BY <1>1, <1>5, <2>2, <2>4 DEF Kept
  <2>6. Held(d)
    BY <2>5 DEF Quiet
  <2>7. Noted(d) => (Noted(d))'
    BY <1>1, <2>3 DEF Noted
  <2> QED
    BY <1>1, <1>4, <2>6, <2>7, HeldKept
<1>6. ASSUME NEW d \in Task PROVE (Disk(d))'
  <2>1. Disk(d)
    BY DEF Quiet
  <2> QED
    BY <1>1, <1>4, <2>1, DiskKept
<1>7. \A x \in Task : status'[x] # "upstream"
  BY <1>1, <1>2, ResetDoes DEF Quiet
<1>8. (Loose(graph))' \subseteq missed'
  BY <1>1 DEF Loose, Referred, Quiet
<1> QED
  BY <1>1, <1>3, <1>5, <1>6, <1>7, <1>8 DEF Quiet

(* A configuration is saved: its project is a new task, and so is a task   *)
(* that was not in the graph.                                              *)
LEMMA QuietReconfigure ==
  ASSUME IInv, Stage, Versions, Quiet, Watched, NEW t \in Task, NEW g \in Graphs,
         Reconfigure(t, g)
  PROVE  Quiet'
<1> DEFINE order == Range(graph.order)
           S == events \cap order
           N == {t} \cup (Task \ order)
<1>1. /\ phase = "idle" /\ graph' = g /\ Reset(S, N) /\ Begin(g) /\ ~overflow
      /\ UNCHANGED <<built, newdts, overflow>>
      /\ later' = later \cup {<<t, d>> : d \in Task}
      /\ Loose(g) \subseteq missed' /\ missed \subseteq missed'
      /\ src' = [src EXCEPT ![t].ver = edits + 1]
      /\ \A x \in Task : x # t => g.refs[x] = graph.refs[x]
  BY DEF Reconfigure, Noticed
<1>2. TypeOK /\ order \subseteq Task
  BY Order DEF IInv, TypeOK
<1>3. \A b \in Builder : at'[b].step # "build"
  BY <1>1, BeginDoes
<1>4. \A d \in Task : d # t => (Referred(graph, d))' = Referred(graph, d)
  BY <1>1 DEF Referred
<1>5. (\A d \in Task : d # t => src'[d] = src[d]) /\ src'[t].ver = edits + 1
  BY <1>1, <1>2 DEF TypeOK, Source
<1>6. ASSUME NEW d \in Range(g.order), (Kept(d))' PROVE (Held(d))'
  <2>1. d \in Task
    BY GraphsAreTopological DEF Topological, Range
  <2>2. ~(~g.errors /\ d \in done')
    BY <1>1, BeginDoes
  <2>3. d \notin S \cup N
    <3>1. ASSUME d \in S \cup N PROVE status'[d] = "none" /\ pending'[d] = TRUE
      BY <1>1, <1>2, <2>1, <3>1, ResetDoes
    <3> QED
      BY <1>1, <1>6, <2>2, <3>1 DEF Kept
  <2>4. d \in order /\ d \notin events /\ d # t
    BY <2>1, <2>3
  <2>5. status'[d] = status[d] /\ pending'[d] = pending[d]
    BY <1>1, <1>2, <2>1, <2>3, ResetDoes
  <2>6. Kept(d)
    BY <1>1, <1>6, <2>2, <2>5 DEF Kept
  <2>7. Held(d)
    BY <2>4, <2>6 DEF Quiet
  <2>8. Noted(d) => (Noted(d))'
    BY <1>1, <2>4 DEF Noted
  <2> QED
    BY <1>1, <1>4, <1>5, <2>1, <2>4, <2>7, <2>8, HeldKept
<1>7. ASSUME NEW d \in Task PROVE (Disk(d))'
  <2>1. CASE d # t
    <3>1. Disk(d)
      BY DEF Quiet
    <3> QED
      BY <1>1, <1>4, <1>5, <2>1, <3>1, DiskKept
  <2>2. CASE d = t
    <3>1. <<t, t>> \in later'
      BY <1>1
    <3>2. built[t].ver = Nil \/ ~(Current(t))'
      <4>1. edits \in Nat /\ (built[t].ver # Nil => built[t].ver \in Nat /\ built[t].ver <= edits)
        BY <1>2 DEF TypeOK, Info, Versions
      <4>2. ASSUME built[t].ver # Nil PROVE built[t].ver # edits + 1
        BY <4>1, <4>2
      <4> QED
        BY <1>1, <1>5, <4>2 DEF Current
    <3> QED
      BY <1>1, <2>2, <3>1, <3>2 DEF Disk
  <2> QED
    BY <2>1, <2>2
<1>8. \A x \in Task : status'[x] # "upstream"
  BY <1>1, <1>2, ResetDoes DEF Quiet
<1> QED
  BY <1>1, <1>3, <1>6, <1>7, <1>8 DEF Quiet

(* The end of a task that was not compiled.                                *)
LEMMA QuietUnbuilt ==
  ASSUME IInv, Stage, Quiet, Watched, NEW b \in Builder, NEW t \in Task, FinishUnbuilt(b, t)
  PROVE  Quiet'
<1>1. /\ Ends(b, t)
      /\ at[b].does \in {"cancel", "clean", "replay", "uptodate", "upstream", "types"}
      /\ \A x \in Task : x # t => status'[x] = status[x] /\ pending'[x] = pending[x]
      /\ at[b].does \in {"uptodate", "types"} => status'[t] = "uptodate"
      /\ at[b].does \in {"clean", "replay"} => status'[t] = status[t]
      /\ at[b].does # "clean" => built' = built
      /\ at[b].does # "types" => UNCHANGED <<later, newdts, missed>>
      /\ at[b].does = "types" =>
           /\ later' = Outdated(later, t) /\ newdts' = Outdated(newdts, t)
           /\ missed' = IF built[t].ver # src[t].ver THEN missed \cup {t} ELSE missed
  BY UnbuiltEnds
<1>2. /\ t = Mine(b) /\ phase = "building" /\ at[b].step = "build" /\ at'[b].step = "report"
      /\ done' = done \cup {t} /\ UNCHANGED <<graph, events, overflow, src>>
      /\ \A c \in Builder : c # b => at'[c] = at[c]
  BY <1>1 DEF Ends
<1>3. Underway(b)
  BY <1>2 DEF Quiet
<1>4. at[b].does \in {"types", "uptodate", "replay"} /\ Held(t)
  BY <1>1, <1>2, <1>3 DEF Underway
<1>5. built' = built /\ missed \subseteq missed'
  BY <1>1, <1>4
<1>6. \A d : (Referred(graph, d))' = Referred(graph, d)
  BY <1>2 DEF Referred
<1>7. ASSUME NEW d, Held(d) PROVE (Held(d))'
  <2>1. Noted(d) => (Noted(d))'
    BY <1>2, <1>5 DEF Noted
  <2> QED
    BY <1>2, <1>5, <1>6, <1>7, <2>1, HeldKept
<1>8. ASSUME NEW d \in Task PROVE (Disk(d))'
  <2>1. Disk(d)
    BY DEF Quiet
  <2>2. CASE at[b].does # "types" \/ d # t
    <3>1. /\ <<d, d>> \in later => <<d, d>> \in later'
          /\ \A u : <<u, d>> \in newdts => <<u, d>> \in newdts'
      BY <1>1, <2>2 DEF Outdated
    <3> QED
      BY <1>2, <1>5, <1>6, <2>1, <3>1, DiskKept
  <2>3. CASE at[b].does = "types" /\ d = t
    <3>1. (Current(t))' \/ t \in missed'
      BY <1>1, <1>2, <1>5, <2>3 DEF Current
    <3>2. (Uses(t))' \/ t \in missed'
      BY <1>4, <1>5, <1>7 DEF Held
    <3> QED
      BY <2>3, <3>1, <3>2 DEF Disk, Uses
  <2> QED
    BY <2>2, <2>3
<1>9. ASSUME NEW d \in Range(graph.order), (Kept(d))' PROVE (Held(d))'
  <2>1. CASE d = t
    BY <1>4, <1>7, <2>1
  <2>2. CASE d # t
    <3>1. d \in Task
      BY Order DEF IInv, TypeOK
    <3>2. Kept(d)
      BY <1>1, <1>2, <1>9, <2>2, <3>1 DEF Kept
    <3> QED
      BY <1>7, <3>2 DEF Quiet
  <2> QED
    BY <2>1, <2>2
<1>10. ASSUME NEW c \in Builder, at'[c].step = "build" PROVE (Underway(c))'
  <2>1. c # b /\ at'[c] = at[c]
    BY <1>2, <1>10
  <2>2. Underway(c)
    BY <1>10, <2>1 DEF Quiet
  <2>3. (Mine(c))' = Mine(c) /\ (Up(Mine(c)))' = Up(Mine(c))
    BY <1>2, <2>1 DEF Mine, Up
  <2>4. Held(Mine(c)) => (Held(Mine(c)))'
    <3>1. PICK d : d = Mine(c) /\ d = (Mine(c))'
      BY <2>3
    <3>2. Held(d) => (Held(d))'
      BY <1>7
    <3> QED
      BY <3>1, <3>2 DEF Held, Current, Noted, Uses, Referred
  <2> QED
    BY <1>5, <2>1, <2>2, <2>3, <2>4 DEF Underway
<1>11. \A x \in Task : status'[x] # "upstream"
  BY <1>1, <1>4 DEF Quiet
<1>12. (Loose(graph))' \subseteq missed'
  BY <1>2, <1>5 DEF Loose, Referred, Quiet
<1> QED
  BY <1>2, <1>8, <1>9, <1>10, <1>11, <1>12 DEF Quiet

(* A compilation: the projects that refer to this one see it on the disk,  *)
(* and the ones of them that kept a status are marked.                     *)
LEMMA QuietCompile ==
  ASSUME IInv, Stage, Firsts, Quiet, Watched, NEW b \in Builder, NEW t \in Task, Compile(b, t)
  PROVE  Quiet'
<1> DEFINE r == at[b].read
           k == IF r.src.bad THEN "error" ELSE "uptodate"
           c == built[t].ver = Nil \/ r.src.dts # built[t].dts
           info == [ver |-> r.src.ver, bad |-> r.src.bad, dts |-> r.src.dts,
                    ups |-> [u \in Task |-> IF u \in Up(t) THEN r.ups[u] ELSE 0]]
<1>1. /\ Ends(b, t)
      /\ status' = [d \in Task |-> IF Marks(t, k) /\ d \in Down(t)
                                   THEN Marked(t, d, c) ELSE [status EXCEPT ![t] = k][d]]
      /\ status'[t] = k
      /\ \A x \in Task : x # t => pending'[x] = (pending[x] \/ (Marks(t, k) /\ x \in Down(t)))
      /\ built' = [built EXCEPT ![t] = info]
      /\ later' = Outdated(later, t) \cup {<<t, d>> : d \in Task \ {t}}
      /\ newdts' = Outdated(newdts, t) \cup (IF c THEN {<<t, d>> : d \in Task \ {t}} ELSE {})
      /\ missed' = IF r.src.ver # src[t].ver \/ t \in Loose(graph)
                   THEN missed \cup {t} ELSE missed \ {t}
  BY CompileEnds
<1>2. /\ t = Mine(b) /\ t \notin done /\ Up(t) \subseteq done /\ t \in Range(graph.order)
      /\ t \notin Up(t) /\ phase = "building"
      /\ at[b].step = "build" /\ at'[b].step = "report"
      /\ \A x \in Builder : x # b => at'[x] = at[x] /\ (at[x].step \in Busy => Mine(x) # t)
      /\ done' = done \cup {t} /\ UNCHANGED <<graph, events, overflow, src>>
      /\ \A x \in Task : x # t => built'[x] = built[x]
  BY <1>1 DEF Ends
<1>3. /\ TypeOK /\ Walk /\ ~graph.errors /\ Range(graph.order) \subseteq Task /\ Up(t) \subseteq Task
      /\ \A x \in Task : Referred(graph, x) \subseteq Task
  BY <1>2, Order, UpIsTask DEF IInv, TypeOK, Stage
<1>4. /\ Loose(graph) \subseteq missed /\ \A x \in Task : status[x] # "upstream"
      /\ Underway(b)
  BY <1>2 DEF Quiet
<1>5. k \in {"error", "uptodate"} /\ info.ver = r.src.ver /\ info.dts = r.src.dts
      /\ \A u \in Up(t) : info.ups[u] = r.ups[u]
  BY <1>3
<1>6. built'[t] = info
  BY <1>1, <1>3 DEF TypeOK
<1> HIDE DEF info, k
<1>7. \A u \in Task : u # t \/ ~c => built'[u].dts = built[u].dts
  BY <1>2, <1>5, <1>6
<1>8. \A d \in Task : d # t =>
        /\ d \in missed' <=> d \in missed
        /\ <<d, d>> \in later => <<d, d>> \in later'
        /\ \A u : <<u, d>> \in newdts => <<u, d>> \in newdts'
        /\ c => <<t, d>> \in newdts'
        /\ Noted(d) => (Noted(d))'
  BY <1>1, <1>2 DEF Outdated, Noted
<1> HIDE DEF c
<1>9. \A d : (Referred(graph, d))' = Referred(graph, d)
  BY <1>2 DEF Referred
<1>10. ASSUME NEW d \in Task, d # t, Held(d), d \in missed \/ t \notin Referred(graph, d) \/ ~c
       PROVE  (Held(d))'
  <2>1. \A u \in Referred(graph, d) : built'[u].dts = built[u].dts \/ d \in missed
    BY <1>3, <1>7, <1>10
  <2> QED
    BY <1>2, <1>8, <1>9, <1>10, <2>1, HeldKept
<1>11. (Held(t))' /\ (Disk(t))'
  <2>1. (Current(t))' \/ t \in missed'
    BY <1>1, <1>2, <1>5, <1>6 DEF Current
  <2>2. (Uses(t))' \/ t \in missed'
    <3>1. CASE t \in Loose(graph)
      BY <1>1, <3>1
    <3>2. CASE t \notin Loose(graph)
      <4>1. Referred(graph, t) \subseteq Up(t)
        BY <1>2, <1>3, <3>2 DEF Loose, Up
      <4>2. \A u \in Up(t) : info.ups[u] = built[u].dts
        BY <1>2, <1>4, <1>5 DEF Underway
      <4>3. \A u \in Up(t) : built'[t].ups[u] = built'[u].dts
        BY <1>2, <1>3, <1>6, <1>7, <4>2
      <4> QED
        BY <1>9, <4>1, <4>3 DEF Uses
    <3> QED
      BY <3>1, <3>2
  <2> QED
    BY <2>1, <2>2 DEF Held, Disk, Noted, Uses
<1>12. ASSUME NEW d \in Task PROVE (Disk(d))'
  <2>1. CASE d # t
    <3>1. Disk(d)
      BY DEF Quiet
    <3>2. \A u \in Referred(graph, d) : built'[u].dts = built[u].dts \/ <<u, d>> \in newdts'
      BY <1>3, <1>7, <1>8, <2>1
    <3> QED
      BY <1>2, <1>8, <1>9, <2>1, <3>1, <3>2, DiskKept
  <2> QED
    BY <1>11, <2>1
<1>13. \A d \in Task : d # t =>
         /\ status'[d] # "upstream"
         /\ status'[d] \in {"types", "uptodate"} => status[d] \in {"types", "uptodate"}
         /\ ~Marks(t, k) => status'[d] = status[d]
         /\ Marks(t, k) /\ d \in Down(t) /\ c => status'[d] \notin {"types", "uptodate"}
  <2>1. ASSUME NEW d \in Task, d # t
        PROVE  status'[d] = IF Marks(t, k) /\ d \in Down(t) THEN Marked(t, d, c) ELSE status[d]
    BY <1>1, <1>3, <2>1 DEF TypeOK
  <2>2. \A d \in Task : /\ Marked(t, d, c) # "upstream"
                        /\ Marked(t, d, c) \in {"types", "uptodate"}
                             => status[d] \in {"types", "uptodate"} /\ ~c
    BY <1>4 DEF Marked
  <2> QED
    BY <1>4, <2>1, <2>2
<1>14. ASSUME NEW d \in Range(graph.order), (Kept(d))', d # t PROVE (Held(d))'
  <2>1. d \in Task
    BY <1>3
  <2>2. pending'[d] = FALSE => pending[d] = FALSE /\ ~(Marks(t, k) /\ d \in Down(t))
    BY <1>1, <1>3, <1>14, <2>1 DEF TypeOK
  <2>3. Kept(d)
    BY <1>2, <1>13, <1>14, <2>1, <2>2 DEF Kept
  <2>4. Held(d)
    BY <2>3 DEF Quiet
  <2>5. ASSUME d \notin missed, t \in Referred(graph, d), c PROVE FALSE
    <3>1. t \in Up(d) /\ d \in Down(t)
      BY <1>3, <1>4, <2>5, NotLoose DEF Down
    <3>2. d \notin done /\ d \notin done'
      BY <1>2, <1>3, <1>14, <3>1 DEF Walk, Counted
    <3>3. CASE Marks(t, k)
      BY <1>13, <1>14, <2>1, <2>2, <2>5, <3>1, <3>2, <3>3 DEF Kept
    <3>4. CASE ~Marks(t, k)
      <4>1. initial[t] = TRUE
        BY <1>3, <3>4 DEF Marks, Watched, TypeOK
      <4>2. status[d] = "none" /\ pending[d] = TRUE
        BY <1>2, <3>2, <4>1 DEF Firsts, Working
      <4> QED
        BY <1>13, <1>14, <2>1, <2>2, <3>2, <3>4, <4>2 DEF Kept
    <3> QED
      BY <3>3, <3>4
  <2> QED
    BY <1>10, <1>14, <2>1, <2>4, <2>5
<1>15. ASSUME NEW x \in Builder, at'[x].step = "build" PROVE (Underway(x))'
  <2>1. x # b /\ at'[x] = at[x] /\ at[x].step = "build" /\ Mine(x) # t
    BY <1>2, <1>15 DEF Busy
  <2>2. /\ Underway(x) /\ Mine(x) \in Task /\ Mine(x) \in Range(graph.order)
        /\ Up(Mine(x)) \subseteq done /\ done \subseteq Task
    BY <1>3, <2>1, InBuild DEF Quiet, Walk, Stepped, Busy, TypeOK, Range, Mine
  <2>3. (Mine(x))' = Mine(x) /\ (Up(Mine(x)))' = Up(Mine(x))
    BY <1>2, <2>1 DEF Mine, Up
  <2>4. \A u \in Up(Mine(x)) : built'[u].dts = built[u].dts
    BY <1>2, <1>7, <2>2
  <2>5. Held(Mine(x)) => (Held(Mine(x)))'
    <3>1. PICK d \in Task : d = Mine(x) /\ d = (Mine(x))'
      BY <2>2, <2>3
    <3>2. d \in missed \/ t \notin Referred(graph, d)
      BY <1>2, <1>3, <1>4, <2>2, <3>1, NotLoose
    <3>3. Held(d) => (Held(d))'
      BY <1>10, <2>1, <3>1, <3>2
    <3> QED
      BY <3>1, <3>3 DEF Held, Current, Noted, Uses, Referred
  <2> QED
    BY <2>1, <2>2, <2>3, <2>4, <2>5 DEF Underway
<1>16. status'[t] # "upstream"
  BY <1>1, <1>5
<1>17. (Loose(graph))' \subseteq missed'
  <2>1. (Loose(graph))' = Loose(graph)
    BY <1>2 DEF Loose, Referred
  <2> QED
    BY <1>1, <1>4, <2>1
<1> QED
  BY <1>2, <1>11, <1>12, <1>13, <1>14, <1>15, <1>16, <1>17 DEF Quiet

(* Quiet is kept by every step.                                            *)
LEMMA QuietStep ==
  ASSUME IInv, Stage, Versions, Firsts, Quiet, [Next]_vars
  PROVE  Quiet'
<1> SUFFICES ASSUME Watched' PROVE Quiet'
  BY DEF Quiet
<1>0. opts' = opts /\ opts.watch /\ ~opts.stop /\ ~failed'
  BY SameScenario DEF Watched
<1>1. TypeOK /\ Range(graph.order) \subseteq Task
  BY Order DEF IInv, TypeOK
<1>2. \A b \in Builder : at[b].step = "build" => Mine(b) \in Task
  BY InBuild DEF Busy
<1>3. ASSUME Start PROVE Quiet'
  <2>1. /\ phase = "start" /\ Begin(graph)
        /\ UNCHANGED <<graph, src, built, later, newdts, missed, status, pending, events, overflow>>
    BY <1>3 DEF Start, task, disk
  <2>2. Watched
    BY <1>0, <2>1 DEF Watched, Stage
  <2>3. done = {} /\ done' = {}
    BY <2>1, BeginDoes DEF Firsts
  <2>4. \A b \in Builder : at'[b].step # "build"
    BY <2>1, BeginDoes
  <2>5. \A d \in Task : Noted(d) => (Noted(d))'
    BY <2>1 DEF Noted
  <2> QED
    BY <1>1, <2>1, <2>2, <2>3, <2>4, <2>5, QuietFrame
<1>4. CASE /\ UNCHANGED <<graph, at, done, status, pending, failed>>
           /\ UNCHANGED <<src, built, later, newdts, missed>>
           /\ overflow' = TRUE \/ UNCHANGED <<events, overflow>>
  <2>1. Watched
    BY <1>0, <1>4 DEF Watched
  <2>2. \A d \in Task : Noted(d) => (Noted(d))'
    BY <1>4 DEF Noted
  <2> QED
    BY <1>1, <1>2, <1>4, <2>1, <2>2, QuietFrame
<1>5. ASSUME End \/ Cancel \/ Overflow \/ UNCHANGED vars PROVE Quiet'
  BY <1>4, <1>5 DEF End, Cancel, Overflow, vars, task, disk, watch
<1>6. ASSUME DoCycle PROVE Quiet'
  <2>1. Watched
    BY <1>0, <1>6 DEF Watched, Stage, DoCycle
  <2> QED
    BY <1>6, <2>1, QuietCycle
<1>7. ASSUME NEW t \in Task, NEW g \in Graphs, Reconfigure(t, g) PROVE Quiet'
  <2>1. Watched
    BY <1>0, <1>7 DEF Watched, Stage, Reconfigure
  <2> QED
    BY <1>7, <2>1, QuietReconfigure
<1>8. ASSUME NEW t \in Task, Edit(t) PROVE Quiet'
  <2>1. Watched
    BY <1>0, <1>8 DEF Watched, Edit
  <2> QED
    BY <1>8, <2>1, QuietEdit
<1>9. ASSUME NEW b \in Builder, Fetch(b) \/ Report(b) PROVE Quiet'
  <2>1. /\ at'[b].step # "build" /\ \A c \in Builder : c # b => at'[c] = at[c]
        /\ UNCHANGED <<graph, done, src, built, later, newdts, missed, status, pending>>
        /\ UNCHANGED <<events, overflow>> /\ (failed' = failed \/ failed' = TRUE)
    BY <1>9, TurnDoes DEF task, disk, watch
  <2>2. Watched
    BY <1>0, <2>1 DEF Watched
  <2>3. \A d \in Task : Noted(d) => (Noted(d))'
    BY <2>1 DEF Noted
  <2>4. \A c \in Builder : at'[c].step = "build" => at'[c] = at[c] /\ Mine(c) \in Task
    BY <1>2, <2>1
  <2> QED
    BY <1>1, <2>1, <2>2, <2>3, <2>4, QuietFrame
<1>10. ASSUME NEW b \in Builder, Enter(b) PROVE Quiet'
  <2>1. Enters(b)
    BY <1>10, EnterDoes
  <2>2. /\ \A c \in Builder : c # b => at'[c] = at[c]
        /\ UNCHANGED <<graph, done, src, built, later, newdts, missed, status, pending>>
        /\ UNCHANGED <<events, overflow, failed>>
    BY <2>1 DEF Enters, task, disk, watch
  <2>3. Watched
    BY <1>0, <2>2 DEF Watched
  <2>4. (Underway(b))'
    BY <2>1, <2>3, UnderwayThen
  <2>5. \A d \in Task : Noted(d) => (Noted(d))'
    BY <2>2 DEF Noted
  <2>6. \A c \in Builder : at'[c].step = "build" =>
          (Underway(c))' \/ (at'[c] = at[c] /\ Mine(c) \in Task)
    BY <1>2, <2>2, <2>4
  <2> QED
    BY <1>1, <2>2, <2>3, <2>5, <2>6, QuietFrame
<1>11. ASSUME NEW b \in Builder, NEW t \in Task, FinishUnbuilt(b, t) PROVE Quiet'
  <2>1. UNCHANGED failed
    BY <1>11, UnbuiltEnds
  <2>2. Watched
    BY <1>0, <2>1 DEF Watched
  <2> QED
    BY <1>11, <2>2, QuietUnbuilt
<1>12. ASSUME NEW b \in Builder, NEW t \in Task, Compile(b, t) PROVE Quiet'
  <2>1. UNCHANGED failed
    BY <1>12, CompileEnds
  <2>2. Watched
    BY <1>0, <2>1 DEF Watched
  <2> QED
    BY <1>12, <2>2, QuietCompile
<1>13. ASSUME NEW b \in Builder, NEW t \in Task PROVE ~Fail(b, t)
  BY <1>0 DEF Fail
<1>14. ASSUME NEW b \in Builder, Build(b) PROVE Quiet'
  BY <1>9, <1>10, <1>11, <1>12, <1>13, <1>14 DEF Build
<1> QED
  BY <1>3, <1>5, <1>6, <1>7, <1>8, <1>14 DEF Next

(* The first state of a watch.                                             *)
LEMMA QuietInit == Init => Versions /\ Firsts /\ Quiet
<1> SUFFICES ASSUME Init PROVE Versions /\ Firsts /\ Quiet
  OBVIOUS
<1>1. /\ edits = 0 /\ phase = "start" /\ done = {} /\ missed = Loose(graph) /\ graph \in Graphs
      /\ \A t \in Task : status[t] = "none" /\ pending[t] = TRUE /\ src[t].ver = 0
      /\ \A b \in Builder : at[b].step = "gone"
  BY ScenariosStart DEF Init, Away
<1>2. \A t \in Task : built[t].dts = 0 /\ built[t].ver \in {Nil, 0}
                      /\ \A u \in Task : built[t].ups[u] = 0
  BY DEF Init, Unbuilt, First
<1>3. Range(graph.order) \subseteq Task /\ \A t \in Task : Referred(graph, t) \subseteq Task
  BY <1>1, Order
<1>4. Versions
  BY <1>1, <1>2 DEF Versions
<1>5. Firsts
  BY <1>1, <1>3 DEF Firsts
<1>6. \A d \in Task : Uses(d) /\ (built[d].ver = Nil \/ Current(d))
  BY <1>1, <1>2, <1>3 DEF Uses, Current
<1>7. \A d \in Task : Disk(d) /\ ~Kept(d)
  BY <1>1, <1>6 DEF Disk, Kept, Uses
<1> QED
  BY <1>1, <1>3, <1>4, <1>5, <1>7 DEF Quiet

(* A watched build that is quiet has built every project from its present  *)
(* sources and the present declarations of the projects it refers to, as   *)
(* far as the watch could notice; for every graph, any number of builders, *)
(* edits, reconfigurations and overflows.                                  *)
THEOREM SettlesDown == Spec => []Settled
<1>1. IInv /\ Stage /\ Versions /\ Firsts /\ Quiet /\ [Next]_vars => Versions' /\ Firsts' /\ Quiet'
  BY VersionsStep, FirstsStep, QuietStep
<1>2. Stage /\ Quiet => Settled
  <2> SUFFICES ASSUME Stage, Quiet, phase = "idle", events = {}, ~overflow, ~graph.errors,
                      ~opts.stop, NEW t \in Range(graph.order), t \notin missed
               PROVE  UsesPresent(t)
    BY DEF Settled
  <2>1. Watched /\ t \in done
    BY DEF Stage, Watched
  <2>2. Held(t)
    BY <2>1 DEF Quiet, Kept
  <2> QED
    BY <2>2 DEF Held, Noted, Current, Uses, UsesPresent
<1> QED
  BY <1>1, <1>2, QuietInit, Invariance, StageHolds, PTL DEF Spec
=============================================================================
