------------------------------ MODULE BuildGraph ------------------------------
(***************************************************************************)
(* The graph of a build, Orchestrator::setup_task of crates/tsr_build:     *)
(* a depth-first walk over the references of the projects, from the roots  *)
(* of the command line.  A project enters the order after every project it *)
(* refers to.  A reference to a project that is still being analyzed closes *)
(* a cycle: it is an error, unless it, or a reference on the walk from the *)
(* root to it, is marked circular; then it is not an edge of the graph.    *)
(*                                                                         *)
(* refs[t] is the sequence of the references of t: [to, circular].         *)
(***************************************************************************)
EXTENDS Sequences, SequencesExt, FiniteSets

(* What a walk builds: the edges found so far, the order, the set of       *)
(* completed and of analyzed projects, and whether it met an error.        *)
Nothing(tasks) == [order |-> <<>>, upstream |-> [t \in tasks |-> <<>>],
                   completed |-> {}, analyzing |-> {}, errors |-> FALSE]

(* Mutant: only the reference itself counts.                               *)
InheritedNot(circular, ref) == ref.circular

(* circular || ref_circular: once on a circular reference, all below is.   *)
Inherited(circular, ref) == circular \/ ref.circular

RECURSIVE SetupTask(_, _, _, _), SetupRefs(_, _, _, _, _)

(* One call: found is Some(index), and the walk afterwards.                *)
SetupTask(refs, t, circular, w) ==
  IF t \in w.completed THEN [found |-> TRUE, walk |-> w]
  ELSE IF t \in w.analyzing
       THEN [found |-> FALSE, walk |-> [w EXCEPT !.errors = @ \/ ~circular]]
  ELSE LET below == SetupRefs(refs, t, 1, circular,
                              [w EXCEPT !.analyzing = @ \cup {t}])
       IN [found |-> TRUE,
           walk  |-> [below EXCEPT !.completed = @ \cup {t},
                                   !.order = Append(@, t)]]

(* The references of t from the i-th on.                                   *)
SetupRefs(refs, t, i, circular, w) ==
  IF i > Len(refs[t]) THEN w
  ELSE LET ref == refs[t][i]
           sub == SetupTask(refs, ref.to, Inherited(circular, ref), w)
           w2  == IF sub.found
                  THEN [sub.walk EXCEPT !.upstream[t] = Append(@, ref.to)]
                  ELSE sub.walk
       IN SetupRefs(refs, t, i + 1, circular, w2)

(* generate_graph: every root in turn, over one walk.                      *)
Generated(refs, roots) ==
  LET walk == FoldLeft(LAMBDA w, t : SetupTask(refs, t, FALSE, w).walk,
                       Nothing(DOMAIN refs), roots)
  IN [refs |-> refs, order |-> walk.order, upstream |-> walk.upstream,
      errors |-> walk.errors]

(* The cycles of the references of g: each a sequence of distinct projects. *)
Refers(g, t, u, marks) ==
  \E i \in DOMAIN g.refs[t] : g.refs[t][i].to = u /\ g.refs[t][i].circular \in marks
Cycles(g, marks) ==
  {s \in UNION {[1..n -> DOMAIN g.refs] : n \in 1..Cardinality(DOMAIN g.refs)} :
     /\ \A i, j \in DOMAIN s : s[i] = s[j] => i = j
     /\ \A i \in DOMAIN s : Refers(g, s[i], s[IF i = Len(s) THEN 1 ELSE i + 1], marks)}
===============================================================================
