-------------------------------- MODULE MCBuild --------------------------------
(***************************************************************************)
(* The build orchestrator on three projects.  The walk of BuildGraph       *)
(* generates the graphs from every choice of references out of Candidates: *)
(* chains, forks, diamonds, and cycles of two and of three projects.       *)
(***************************************************************************)
EXTENDS BuildOrchestrator, BuildGraph, TLC

CONSTANTS t1, t2, t3

Ref(to, circular) == [to |-> to, circular |-> circular]

(* The references each project may have.                                   *)
MayRefer ==
  [t \in {t1, t2, t3} |->
     CASE t = t1 -> {<<>>, <<Ref(t3, FALSE)>>, <<Ref(t3, TRUE)>>}
       [] t = t2 -> {<<>>, <<Ref(t1, FALSE)>>}
       [] t = t3 -> {<<>>, <<Ref(t1, FALSE)>>, <<Ref(t2, FALSE)>>,
                     <<Ref(t1, FALSE), Ref(t2, FALSE)>>}]

References == {r \in [{t1, t2, t3} -> UNION {MayRefer[t] : t \in {t1, t2, t3}}] :
                 \A t \in {t1, t2, t3} : r[t] \in MayRefer[t]}

AllGraphs == {Generated(r, <<t2, t3, t1>>) : r \in References}

Diamond == Generated((t1 :> <<>>) @@ (t2 :> <<Ref(t1, FALSE)>>) @@
                     (t3 :> <<Ref(t1, FALSE), Ref(t2, FALSE)>>), <<t2, t3, t1>>)

(* Two projects of a cycle, one of whose references is no edge, and a      *)
(* third that refers to the cycle.                                         *)
Loop == Generated((t1 :> <<Ref(t3, TRUE)>>) @@ (t2 :> <<Ref(t1, FALSE)>>) @@
                  (t3 :> <<Ref(t1, FALSE)>>), <<t2, t3, t1>>)

Options(w, c, s) == [watch |-> w, clean |-> c, stop |-> s]

(* One build with one edit before or in it, of a diamond, or of every      *)
(* graph when it stops at errors.                                          *)
Once(graphs, s) == [opts : {Options(FALSE, FALSE, s)}, graph : graphs,
                    edits : {1}, faults : {0}, cancel : {FALSE}]
(* One build, or a clean, of a diamond, where tasks and reports fail and   *)
(* the build is canceled.                                                  *)
Faulty == [opts : {Options(FALSE, FALSE, TRUE), Options(FALSE, TRUE, FALSE)},
           graph : {Diamond}, edits : {0}, faults : {2}, cancel : {TRUE}]
(* A watch that starts with graph g: edits of sources or references, and   *)
(* faults.                                                                 *)
Watched(g, e, f, s) ==
  [opts : {Options(TRUE, FALSE, s)}, graph : {g}, edits : {e},
   faults : {f}, cancel : {FALSE}]

AllScenarios ==
  Once(AllGraphs, TRUE) \cup Once({Diamond}, FALSE) \cup Faulty
  \cup Watched(Diamond, 2, 0, FALSE) \cup Watched(Diamond, 1, 1, FALSE)
  \cup Watched(Diamond, 1, 0, TRUE) \cup Watched(Loop, 1, 0, FALSE)

(* The walk of setup_task against the definition of a cycle: it reports an *)
(* error only for references that do form a cycle without a circular one,  *)
(* and where no reference is circular it misses none of them.              *)
CyclesExcused ==
  phase = "start" =>
    /\ graph.errors => Cycles(graph, {FALSE}) # {}
    /\ (Cycles(graph, BOOLEAN) # {} /\ \A t \in Task : \A r \in Range(graph.refs[t]) : ~r.circular)
         => graph.errors
===============================================================================
