------------------------ MODULE RefCountCacheProofs ------------------------
(***************************************************************************)
(* The cache's safety, for any number of threads, keys and calls and any   *)
(* nesting of producers.                                                   *)
(***************************************************************************)
EXTENDS RefCountRefinement, FiniteSetTheorems, TLAPS

USE DEF store, frame, Vacant, FirstReference, Joined, WasLast

(* Where an acquisition has not yet returned to its caller. *)
Inside == {"lookup", "produce", "nested", "commit", "notify", "abandon",
           "markRemoved", "failNotify", "inspect", "asleep"}

(* Where a call uses the entry it looked up or holds. *)
Using == {"produce", "nested", "commit", "notify", "abandon", "markRemoved",
          "failNotify", "inspect", "asleep", "held", "relLookup", "relDrop",
          "relNotify"}

(* Where a creator's entry is in the index, initialising. *)
Provisional == {"produce", "nested", "commit", "abandon"}

(* A call that created no entry yet is unknown as an entry. *)
Fresh ==
    \A c \in Call : pc[c] \in {"new", "lookup", "inspect", "asleep"} => status[c] = "none"

(* A call that runs has a key and a thread; the entry it uses exists and was
   created for the same key. *)
Located ==
    \A c \in Call :
        /\ pc[c] # "new" => key[c] \in Key
        /\ pc[c] \notin AtRest => runner[c] \in Thread
        /\ pc[c] \in Using => /\ ent[c] \in Call
                              /\ status[ent[c]] # "none"
                              /\ key[ent[c]] = key[c]

(* The index holds live entries under their own key, every Ready one. *)
Indexed ==
    /\ \A k \in Key :
          index[k] # Nil => /\ key[index[k]] = k
                            /\ status[index[k]] \in {"initializing", "ready"}
    /\ \A e \in Call : status[e] = "ready" => key[e] \in Key /\ index[key[e]] = e

(* The creator of a provisional entry is the only one to complete it. *)
Creators ==
    \A c \in Call :
        /\ pc[c] \in Provisional =>
              ent[c] = c /\ status[c] = "initializing" /\ index[key[c]] = c
        /\ pc[c] = "markRemoved" =>
              ent[c] = c /\ status[c] = "initializing" /\ index[key[c]] # c
        /\ pc[c] \in {"notify", "failNotify"} => ent[c] = c
        /\ status[c] = "initializing" => pc[c] \in Provisional \cup {"markRemoved"}

(* A claimed entry is Ready; a Ready entry keeps a reference unless entries
   are retained. *)
Claimed == \A c \in Call : pc[c] \in Claiming => status[ent[c]] = "ready"
Kept == \A e \in Call : status[e] = "ready" => DisableDeletion \/ refs[e] > 0

(* A producer is suspended exactly under the one acquisition it nested. *)
Nesting ==
    /\ \A c \in Call :
          pc[c] \in Inside /\ outer[c] # Nil => pc[outer[c]] = "nested"
    /\ \A c, d \in Call :
          pc[c] \in Inside /\ pc[d] \in Inside /\ outer[c] # Nil /\ outer[c] = outer[d]
            => c = d

Shape == /\ TypeOK /\ Fresh /\ Located /\ Indexed /\ Creators
         /\ Claimed /\ Kept /\ Nesting /\ NoLostWakeup

IInv == Shape /\ ReferencesAreLeases

----------------------------------------------------------------------------
(* The invariant holds of the empty cache. *)
LEMMA InitIInv == Init => IInv
<1> SUFFICES ASSUME Init PROVE IInv
    OBVIOUS
<1>1. Shape
    BY NilAssumption DEF Init, Shape, TypeOK, Fresh, Located, Indexed, Creators,
       Claimed, Kept, Nesting, NoLostWakeup, Status, PC, AtRest, Inside, Using,
       Provisional, Claiming
<1>2. ReferencesAreLeases
    BY DEF Init, ReferencesAreLeases
<1> QED
    BY <1>1, <1>2 DEF IInv

(* The leases on an entry are finitely many. *)
LEMMA ClaimsFinite ==
    ASSUME NEW e \in Call
    PROVE  IsFiniteSet(Claims(e)) /\ Cardinality(Claims(e)) \in Nat
<1>1. Claims(e) \subseteq Call
    BY DEF Claims
<1> QED
    BY <1>1, CallAssumption, FS_Subset, FS_CardinalityType

(* A release finds at least its own reference on its entry: the count that
   ReleaseDrop decrements is positive, and one exactly for the last lease. *)
LEMMA ReleaseCounted ==
    ASSUME IInv, NEW c \in Call, pc[c] = "relDrop"
    PROVE  /\ ent[c] \in Call /\ status[ent[c]] = "ready"
           /\ refs[ent[c]] \in Nat \ {0}
<1>1. ent[c] \in Call /\ status[ent[c]] = "ready"
    BY DEF IInv, Shape, Located, Claimed, Using, Claiming
<1>2. c \in Claims(ent[c])
    BY DEF Claims, Claiming
<1>3. Cardinality(Claims(ent[c])) # 0
    BY <1>1, <1>2, ClaimsFinite, FS_EmptySet
<1> QED
    BY <1>1, <1>3, ClaimsFinite DEF IInv, Shape, ReferencesAreLeases

(* When one reference is left, one call claims the entry. *)
LEMMA SoleClaim ==
    ASSUME IInv, NEW c \in Call, pc[c] = "relDrop", refs[ent[c]] = 1,
           NEW d \in Call, pc[d] \in Claiming, ent[d] = ent[c]
    PROVE  d = c
<1>1. ent[c] \in Call /\ status[ent[c]] = "ready"
    BY ReleaseCounted
<1>2. Cardinality(Claims(ent[c])) = 1
    BY <1>1 DEF IInv, ReferencesAreLeases
<1>3. PICK x : Claims(ent[c]) = {x}
    BY <1>1, <1>2, ClaimsFinite, FS_Singleton
<1>4. c \in Claims(ent[c]) /\ d \in Claims(ent[c])
    BY DEF Claims, Claiming
<1> QED
    BY <1>3, <1>4

(* Every step preserves the part of the invariant that does not count. *)
LEMMA ShapeStep == IInv /\ [Next]_vars => Shape'
<1> SUFFICES ASSUME IInv, [Next]_vars PROVE Shape'
    OBVIOUS
<1> USE NilAssumption DEF IInv, Shape, TypeOK, Fresh, Located, Indexed, Creators,
        Claimed, Kept, Nesting, NoLostWakeup, Status, PC, AtRest, Inside, Using,
        Provisional, Claiming
<1>1. ASSUME NEW c \in Call, LookupOccupied(c)
      PROVE  Shape'
    BY <1>1 DEF LookupOccupied
<1>2. ASSUME NEW c \in Call, LookupVacant(c)
      PROVE  Shape'
    BY <1>2 DEF LookupVacant
<1>3. ASSUME NEW c \in Call, ProduceOk(c)
      PROVE  Shape'
    BY <1>3 DEF ProduceOk
<1>4. ASSUME NEW c \in Call, Commit(c)
      PROVE  Shape'
    BY <1>4 DEF Commit
<1>5. ASSUME NEW c \in Call, NotifyReady(c)
      PROVE  Shape'
    BY <1>5 DEF NotifyReady, Resume, WakeAll
<1>6. ASSUME NEW c \in Call, InspectReady(c)
      PROVE  Shape'
    BY <1>6 DEF InspectReady, Resume
<1>7. ASSUME NEW c \in Call, InspectWait(c)
      PROVE  Shape'
    BY <1>7 DEF InspectWait
<1>8. ASSUME NEW c \in Call, InspectReentry(c)
      PROVE  Shape'
    BY <1>8 DEF InspectReentry
<1>9. ASSUME NEW c \in Call, InspectRemoved(c)
      PROVE  Shape'
    BY <1>9 DEF InspectRemoved
<1>10. ASSUME NEW c \in Call, SpuriousWake(c)
      PROVE  Shape'
    BY <1>10 DEF SpuriousWake
<1>11. ASSUME NEW c \in Call, Abandon(c)
      PROVE  Shape'
    BY <1>11 DEF Abandon, remove_entry
<1>12. ASSUME NEW c \in Call, MarkRemoved(c)
      PROVE  Shape'
    BY <1>12 DEF MarkRemoved
<1>13. ASSUME NEW c \in Call, FailNotify(c)
      PROVE  Shape'
    BY <1>13 DEF FailNotify, WakeAll
<1>14. ASSUME NEW c \in Call, ReleaseLookup(c)
      PROVE  Shape'
    BY <1>14 DEF ReleaseLookup
<1>15. ASSUME NEW c \in Call, ReleaseNotify(c)
      PROVE  Shape'
    BY <1>15 DEF ReleaseNotify, WakeAll
<1>16. ASSUME NEW c \in Call, NEW panics \in BOOLEAN, ProduceFail(c, panics)
      PROVE  Shape'
    BY <1>16 DEF ProduceFail
<1>17. ASSUME NEW c \in Call, NEW k \in Key, NEW t \in Thread, StartAcquire(c, k, t)
      PROVE  Shape'
    BY <1>17 DEF StartAcquire, Enter
<1>18. ASSUME NEW p \in Call, NEW c \in Call, NEW k \in Key, NestedAcquire(p, c, k)
      PROVE  Shape'
  <2>1. /\ p # c /\ pc[p] = "produce" /\ pc[c] = "new"
        /\ key' = [key EXCEPT ![c] = k]
        /\ runner' = [runner EXCEPT ![c] = runner[p]]
        /\ outer' = [outer EXCEPT ![c] = p]
        /\ pc' = [pc EXCEPT ![p] = "nested", ![c] = "lookup"]
        /\ UNCHANGED <<index, status, refs, ent, unwinding>>
    BY <1>18 DEF NestedAcquire, Enter
  <2>2. TypeOK'
    BY <2>1
  <2>3. Fresh' /\ Located'
    BY <2>1
  <2>4. Indexed' /\ Creators'
    BY <2>1
  <2>5. Claimed' /\ Kept' /\ NoLostWakeup'
    BY <2>1
  <2>6. Nesting'
    BY <2>1
  <2> QED
    BY <2>2, <2>3, <2>4, <2>5, <2>6
<1>19. ASSUME NEW c \in Call, NEW t \in Thread, StartRelease(c, t)
      PROVE  Shape'
    BY <1>19 DEF StartRelease
<1>20. ASSUME NEW c \in Call, ReleaseDrop(c)
      PROVE  Shape'
  <2>1. ent[c] \in Call /\ status[ent[c]] = "ready" /\ refs[ent[c]] \in Nat \ {0}
    BY <1>20, ReleaseCounted DEF ReleaseDrop
  <2>2. refs' = [refs EXCEPT ![ent[c]] = @ - 1] /\ refs' \in [Call -> Nat]
    <3> HIDE DEF IInv, Shape
    <3>1. refs' = [refs EXCEPT ![ent[c]] = @ - 1]
      BY <1>20, <2>1 DEF ReleaseDrop
    <3>2. refs \in [Call -> Nat]
      BY DEF IInv, Shape, TypeOK
    <3>3. refs[ent[c]] - 1 \in Nat
      BY <2>1
    <3> QED
      BY <2>1, <3>1, <3>2, <3>3
  <2>3. CASE refs[ent[c]] = 1 /\ ~DisableDeletion
    <3>1. /\ index' = remove_entry(key[c], ent[c])
          /\ status' = [status EXCEPT ![ent[c]] = "removed"]
          /\ pc' = [pc EXCEPT ![c] = "relNotify"]
      BY <1>20, <2>1, <2>3 DEF ReleaseDrop
    <3>2. \A d \in Call : pc[d] \in Claiming /\ ent[d] = ent[c] => d = c
      BY <2>1, <2>3, SoleClaim, <1>20 DEF ReleaseDrop
    <3> QED
      BY <1>20, <2>1, <2>2, <3>1, <3>2 DEF ReleaseDrop, remove_entry
  <2>4. CASE ~(refs[ent[c]] = 1 /\ ~DisableDeletion)
    <3>1. ~(refs[ent[c]] - 1 <= 0 /\ ~DisableDeletion)
      <4> HIDE DEF IInv, Shape
      <4> QED
        BY <2>1, <2>4
    <3>2. /\ index' = index /\ pc' = [pc EXCEPT ![c] = "done"]
          /\ status' = [status EXCEPT ![ent[c]] = @]
      BY <1>20, <2>1, <3>1 DEF ReleaseDrop
    <3>3. status' = status
      BY <2>1, <3>2
    <3> QED
      BY <1>20, <2>1, <2>2, <2>4, <3>2, <3>3 DEF ReleaseDrop
  <2> QED
    BY <2>3, <2>4
<1>21. CASE UNCHANGED vars
    BY <1>21 DEF vars
<1> HIDE DEF IInv, Shape
<1> QED
    BY <1>1, <1>2, <1>3, <1>4, <1>5, <1>6, <1>7, <1>8, <1>9, <1>10, <1>11, <1>12, <1>13, <1>14, <1>15, <1>16, <1>17, <1>18, <1>19, <1>20, <1>21
       DEF Next, Internal, Produce, Finished

(* How the counts follow the leases: steps that neither add nor drop a lease
   leave the counts alone, the others change one count by one. *)
LEMMA CountsKept ==
    ASSUME ReferencesAreLeases, refs' = refs,
           \A e \in Call : status'[e] = "ready" => status[e] = "ready",
           \A e \in Call : Claims(e)' = Claims(e)
    PROVE  ReferencesAreLeases'
    BY DEF ReferencesAreLeases

LEMMA CountAdded ==
    ASSUME ReferencesAreLeases, refs \in [Call -> Nat],
           NEW f \in Call, NEW c, c \notin Claims(f),
           Claims(f)' = Claims(f) \cup {c},
           \A e \in Call \ {f} : Claims(e)' = Claims(e),
           refs' = [refs EXCEPT ![f] = @ + 1],
           status[f] = "ready", status' = status
    PROVE  ReferencesAreLeases'
<1>1. Cardinality(Claims(f) \cup {c}) = Cardinality(Claims(f)) + 1
    BY ClaimsFinite, FS_AddElement
<1>2. refs'[f] = Cardinality(Claims(f)')
    BY <1>1 DEF ReferencesAreLeases
<1>3. \A e \in Call \ {f} : status'[e] = "ready" => refs'[e] = Cardinality(Claims(e)')
    BY DEF ReferencesAreLeases
<1> QED
    BY <1>2, <1>3 DEF ReferencesAreLeases

LEMMA CountDropped ==
    ASSUME ReferencesAreLeases, refs \in [Call -> Nat],
           NEW f \in Call, NEW c, c \in Claims(f),
           Claims(f)' = Claims(f) \ {c},
           \A e \in Call \ {f} : Claims(e)' = Claims(e),
           refs' = [refs EXCEPT ![f] = @ - 1],
           status[f] = "ready",
           \A e \in Call : status'[e] = "ready" => status[e] = "ready"
    PROVE  ReferencesAreLeases'
<1>1. Cardinality(Claims(f) \ {c}) = Cardinality(Claims(f)) - 1
    BY ClaimsFinite, FS_RemoveElement
<1>2. refs'[f] = Cardinality(Claims(f)')
    BY <1>1 DEF ReferencesAreLeases
<1>3. \A e \in Call \ {f} : status'[e] = "ready" => refs'[e] = Cardinality(Claims(e)')
    BY DEF ReferencesAreLeases
<1> QED
    BY <1>2, <1>3 DEF ReferencesAreLeases

LEMMA CountStarted ==
    ASSUME ReferencesAreLeases, refs \in [Call -> Nat], status \in [Call -> Status],
           NEW f \in Call,
           Claims(f)' = {f},
           \A e \in Call \ {f} : Claims(e)' = Claims(e),
           refs' = [refs EXCEPT ![f] = 1],
           status' = [status EXCEPT ![f] = "ready"]
    PROVE  ReferencesAreLeases'
<1>1. Cardinality({f}) = 1
    BY FS_Singleton
<1>2. refs'[f] = Cardinality(Claims(f)')
    BY <1>1
<1>3. \A e \in Call \ {f} : status'[e] = "ready" => refs'[e] = Cardinality(Claims(e)')
    BY DEF ReferencesAreLeases
<1> QED
    BY <1>2, <1>3 DEF ReferencesAreLeases

(* Every step keeps the count of a Ready entry equal to the leases on it. *)
LEMMA CountStep == IInv /\ [Next]_vars => ReferencesAreLeases'
<1> SUFFICES ASSUME IInv, [Next]_vars PROVE ReferencesAreLeases'
    OBVIOUS
<1> DEFINE Quiet == /\ refs' = refs
                    /\ \A e \in Call : status'[e] = "ready" => status[e] = "ready"
                    /\ \A e \in Call : Claims(e)' = Claims(e)
<1>0. Quiet => ReferencesAreLeases'
    BY CountsKept DEF IInv
<1> USE NilAssumption DEF IInv, Shape, TypeOK, Fresh, Located, Indexed, Creators,
        Claimed, Nesting, AtRest, Inside, Using, Provisional, Claiming
<1>1. ASSUME NEW c \in Call, LookupOccupied(c)
      PROVE  Quiet
    BY <1>1 DEF Claims, LookupOccupied
<1>2. ASSUME NEW c \in Call, LookupVacant(c)
      PROVE  Quiet
    BY <1>2 DEF Claims, LookupVacant
<1>3. ASSUME NEW c \in Call, ProduceOk(c)
      PROVE  Quiet
    BY <1>3 DEF Claims, ProduceOk
<1>4. ASSUME NEW c \in Call, NotifyReady(c)
      PROVE  Quiet
    BY <1>4 DEF Claims, NotifyReady, Resume, WakeAll
<1>5. ASSUME NEW c \in Call, InspectWait(c)
      PROVE  Quiet
    BY <1>5 DEF Claims, InspectWait
<1>6. ASSUME NEW c \in Call, InspectReentry(c)
      PROVE  Quiet
    BY <1>6 DEF Claims, InspectReentry
<1>7. ASSUME NEW c \in Call, InspectRemoved(c)
      PROVE  Quiet
    BY <1>7 DEF Claims, InspectRemoved
<1>8. ASSUME NEW c \in Call, SpuriousWake(c)
      PROVE  Quiet
    BY <1>8 DEF Claims, SpuriousWake
<1>9. ASSUME NEW c \in Call, Abandon(c)
      PROVE  Quiet
    BY <1>9 DEF Claims, Abandon, remove_entry
<1>10. ASSUME NEW c \in Call, MarkRemoved(c)
      PROVE  Quiet
    BY <1>10 DEF Claims, MarkRemoved
<1>11. ASSUME NEW c \in Call, FailNotify(c)
      PROVE  Quiet
    BY <1>11 DEF Claims, FailNotify, WakeAll
<1>12. ASSUME NEW c \in Call, ReleaseLookup(c)
      PROVE  Quiet
    BY <1>12 DEF Claims, ReleaseLookup
<1>13. ASSUME NEW c \in Call, ReleaseNotify(c)
      PROVE  Quiet
    BY <1>13 DEF Claims, ReleaseNotify, WakeAll
<1>14. ASSUME NEW c \in Call, NEW panics \in BOOLEAN, ProduceFail(c, panics)
      PROVE  Quiet
    BY <1>14 DEF Claims, ProduceFail
<1>15. ASSUME NEW c \in Call, NEW k \in Key, NEW t \in Thread, StartAcquire(c, k, t)
      PROVE  Quiet
    BY <1>15 DEF Claims, StartAcquire, Enter
<1>16. ASSUME NEW p \in Call, NEW c \in Call, NEW k \in Key, NestedAcquire(p, c, k)
      PROVE  Quiet
    BY <1>16 DEF Claims, NestedAcquire, Enter
<1>17. ASSUME NEW c \in Call, NEW t \in Thread, StartRelease(c, t)
      PROVE  Quiet
    BY <1>17 DEF Claims, StartRelease
<1>18. ASSUME UNCHANGED vars
      PROVE  Quiet
    BY <1>18 DEF Claims, vars
<1>19. ASSUME NEW c \in Call, Commit(c)
       PROVE  ReferencesAreLeases'
  <2>1. Claims(c)' = {c} /\ \A e \in Call \ {c} : Claims(e)' = Claims(e)
    BY <1>19 DEF Commit, Claims
  <2>2. /\ refs' = [refs EXCEPT ![c] = 1]
        /\ status' = [status EXCEPT ![c] = "ready"]
    BY <1>19 DEF Commit
  <2> QED
    BY <2>1, <2>2, CountStarted
<1>20. ASSUME NEW c \in Call, InspectReady(c)
       PROVE  ReferencesAreLeases'
  <2>1. PICK f \in Call : f = ent[c] /\ status[f] = "ready"
    BY <1>20 DEF InspectReady
  <2>2. /\ c \notin Claims(f) /\ Claims(f)' = Claims(f) \cup {c}
        /\ \A e \in Call \ {f} : Claims(e)' = Claims(e)
    BY <1>20, <2>1 DEF InspectReady, Resume, Claims
  <2>3. refs' = [refs EXCEPT ![f] = @ + 1] /\ status' = status
    BY <1>20, <2>1 DEF InspectReady
  <2> QED
    BY <2>1, <2>2, <2>3, CountAdded
<1>21. ASSUME NEW c \in Call, ReleaseDrop(c)
       PROVE  ReferencesAreLeases'
  <2>1. PICK f \in Call : f = ent[c] /\ status[f] = "ready" /\ refs[f] \in Nat \ {0}
    BY <1>21, ReleaseCounted DEF ReleaseDrop
  <2>2. /\ c \in Claims(f) /\ Claims(f)' = Claims(f) \ {c}
        /\ \A e \in Call \ {f} : Claims(e)' = Claims(e)
    BY <1>21, <2>1 DEF ReleaseDrop, Claims
  <2>3. /\ refs' = [refs EXCEPT ![f] = @ - 1]
        /\ \A e \in Call : status'[e] = "ready" => status[e] = "ready"
    BY <1>21, <2>1 DEF ReleaseDrop
  <2> QED
    BY <2>1, <2>2, <2>3, CountDropped
<1> QED
    BY <1>0, <1>1, <1>2, <1>3, <1>4, <1>5, <1>6, <1>7, <1>8, <1>9, <1>10, <1>11, <1>12, <1>13, <1>14, <1>15, <1>16, <1>17, <1>18, <1>19, <1>20, <1>21
       DEF Next, Internal, Produce, Finished

(* The inductive invariant holds throughout. *)
THEOREM Invariance == Spec => []IInv
<1>1. IInv /\ [Next]_vars => IInv'
    BY ShapeStep, CountStep DEF IInv
<1> QED
    BY InitIInv, <1>1, PTL DEF Spec

(* Types, and with them a reference count that never goes negative. *)
THEOREM TypeCorrect == Spec => []TypeOK
<1>1. IInv => TypeOK
    BY DEF IInv, Shape
<1> QED
    BY Invariance, <1>1, PTL

(* While a lease is out, the index names its entry under its key and the entry
   is Ready: release() by key is sound. *)
THEOREM LeasesAreSound == Spec => []LeaseNamesItsEntry
<1>1. IInv => LeaseNamesItsEntry
    BY DEF IInv, Shape, Located, Indexed, Claimed, LeaseNamesItsEntry, Using, Claiming
<1> QED
    BY Invariance, <1>1, PTL

(* The reference count of a Ready entry is the number of leases on it. *)
THEOREM CountsAreExact == Spec => []ReferencesAreLeases
<1>1. IInv => ReferencesAreLeases
    BY DEF IInv
<1> QED
    BY Invariance, <1>1, PTL

(* One producer at a time runs for a key. *)
THEOREM ProducersExclude == Spec => []OneProducerPerKey
<1>1. IInv => OneProducerPerKey
    BY DEF IInv, Shape, Creators, OneProducerPerKey, Provisional
<1> QED
    BY Invariance, <1>1, PTL

(* No waiter of an entry misses the notification that its state changed. *)
THEOREM WakeupsArrive == Spec => []NoLostWakeup
<1>1. IInv => NoLostWakeup
    BY DEF IInv, Shape
<1> QED
    BY Invariance, <1>1, PTL

(* With no call running and no lease out, only retained entries remain. *)
THEOREM NoLeak == Spec => []NothingLeaks
<1>1. ASSUME IInv, \A c \in Call : pc[c] \in {"new", "done"},
             NEW k \in Key, index[k] # Nil
      PROVE  DisableDeletion /\ status[index[k]] = "ready" /\ refs[index[k]] = 0
  <2>1. index[k] \in Call /\ status[index[k]] = "ready"
    BY <1>1 DEF IInv, Shape, TypeOK, Indexed, Creators, Provisional
  <2>2. Claims(index[k]) = {}
    BY <1>1 DEF Claims, Claiming
  <2>3. refs[index[k]] = 0
    BY <2>1, <2>2, <1>1, FS_EmptySet DEF IInv, ReferencesAreLeases
  <2> QED
    BY <1>1, <2>1, <2>3 DEF IInv, Shape, Kept
<1>2. IInv => NothingLeaks
    BY <1>1 DEF NothingLeaks
<1> QED
    BY Invariance, <1>2, PTL

(* All of it together: every lease counts, for the entry it was taken from,
   which was made once and goes with its last lease. *)
THEOREM LeasesAlwaysHold == Spec => []LeasesHold
<1>1. LeaseNamesItsEntry /\ ReferencesAreLeases /\ OneProducerPerKey /\ NothingLeaks
        => LeasesHold
    BY DEF LeasesHold
<1> QED
    BY <1>1, LeasesAreSound, CountsAreExact, ProducersExclude, NoLeak, PTL
----------------------------------------------------------------------------
(* The refinement of the lease table. *)

(* The mapped variables are functions on the keys and the calls. *)
LEMMA MapDomains ==
    /\ AValue = [k \in Key |-> AValue[k]]
    /\ AHolders = [k \in Key |-> AHolders[k]]
    /\ ALease = [c \in Call |-> ALease[c]]
    BY DEF AValue, AHolders, ALease

(* Every step of the cache publishes, joins or leaves, or changes nothing that
   a user of the table can see. *)
LEMMA TableStep == IInv /\ [Next]_vars => [Table!Next]_(Table!vars)
<1> SUFFICES ASSUME IInv, [Next]_vars PROVE [Table!Next]_(Table!vars)
    OBVIOUS
<1> DEFINE Same == AValue' = AValue /\ AHolders' = AHolders /\ ALease' = ALease
<1>0. Same => UNCHANGED Table!vars
    BY DEF Table!vars
<1> USE NilAssumption DEF IInv, Shape, TypeOK, Fresh, Located, Indexed, Creators,
        Claimed, Nesting, AtRest, Inside, Using, Provisional, Claiming
<1>1. ASSUME NEW c \in Call, LookupOccupied(c)
      PROVE  Same
    BY <1>1 DEF AValue, AHolders, ALease, LookupOccupied
<1>2. ASSUME NEW c \in Call, LookupVacant(c)
      PROVE  Same
    BY <1>2 DEF AValue, AHolders, ALease, LookupVacant
<1>3. ASSUME NEW c \in Call, ProduceOk(c)
      PROVE  Same
    BY <1>3 DEF AValue, AHolders, ALease, ProduceOk
<1>4. ASSUME NEW c \in Call, NotifyReady(c)
      PROVE  Same
    BY <1>4 DEF AValue, AHolders, ALease, NotifyReady, Resume, WakeAll
<1>5. ASSUME NEW c \in Call, InspectWait(c)
      PROVE  Same
    BY <1>5 DEF AValue, AHolders, ALease, InspectWait
<1>6. ASSUME NEW c \in Call, InspectReentry(c)
      PROVE  Same
    BY <1>6 DEF AValue, AHolders, ALease, InspectReentry
<1>7. ASSUME NEW c \in Call, InspectRemoved(c)
      PROVE  Same
    BY <1>7 DEF AValue, AHolders, ALease, InspectRemoved
<1>8. ASSUME NEW c \in Call, SpuriousWake(c)
      PROVE  Same
    BY <1>8 DEF AValue, AHolders, ALease, SpuriousWake
<1>9. ASSUME NEW c \in Call, Abandon(c)
      PROVE  Same
    BY <1>9 DEF AValue, AHolders, ALease, Abandon, remove_entry
<1>10. ASSUME NEW c \in Call, MarkRemoved(c)
      PROVE  Same
    BY <1>10 DEF AValue, AHolders, ALease, MarkRemoved
<1>11. ASSUME NEW c \in Call, FailNotify(c)
      PROVE  Same
    BY <1>11 DEF AValue, AHolders, ALease, FailNotify, WakeAll
<1>12. ASSUME NEW c \in Call, ReleaseLookup(c)
      PROVE  Same
    BY <1>12 DEF AValue, AHolders, ALease, ReleaseLookup
<1>13. ASSUME NEW c \in Call, ReleaseNotify(c)
      PROVE  Same
    BY <1>13 DEF AValue, AHolders, ALease, ReleaseNotify, WakeAll
<1>14. ASSUME NEW c \in Call, NEW panics \in BOOLEAN, ProduceFail(c, panics)
      PROVE  Same
    BY <1>14 DEF AValue, AHolders, ALease, ProduceFail
<1>15. ASSUME NEW c \in Call, NEW k \in Key, NEW t \in Thread, StartAcquire(c, k, t)
      PROVE  Same
    BY <1>15 DEF AValue, AHolders, ALease, StartAcquire, Enter
<1>16. ASSUME NEW p \in Call, NEW c \in Call, NEW k \in Key, NestedAcquire(p, c, k)
      PROVE  Same
    BY <1>16 DEF AValue, AHolders, ALease, NestedAcquire, Enter
<1>17. ASSUME NEW c \in Call, NEW t \in Thread, StartRelease(c, t)
      PROVE  Same
    BY <1>17 DEF AValue, AHolders, ALease, StartRelease
<1>18. ASSUME UNCHANGED vars
      PROVE  Same
    BY <1>18 DEF AValue, AHolders, ALease, vars
<1>19. ASSUME NEW c \in Call, Commit(c)
      PROVE  key[c] \in Key /\ Table!Publish(c, key[c])
  <2>1. key[c] \in Key /\ AValue[key[c]] = Nil /\ AHolders[key[c]] = {} /\ ALease[c] = Nil
    BY <1>19 DEF Commit, AValue, AHolders, ALease
  <2>2. AValue' = [k \in Key |-> IF k = key[c] THEN c ELSE AValue[k]]
    BY <1>19 DEF Commit, AValue
  <2>3. AHolders' = [k \in Key |-> IF k = key[c] THEN {c} ELSE AHolders[k]]
    BY <1>19, <2>1 DEF Commit, AHolders
  <2>4. ALease' = [x \in Call |-> IF x = c THEN c ELSE ALease[x]]
    BY <1>19 DEF Commit, ALease
  <2>5. AValue' = [AValue EXCEPT ![key[c]] = c]
    BY <2>2, MapDomains
  <2>6. AHolders' = [AHolders EXCEPT ![key[c]] = {c}]
    BY <2>3, MapDomains
  <2>7. ALease' = [ALease EXCEPT ![c] = c]
    BY <2>4, MapDomains
  <2> QED
    BY <2>1, <2>5, <2>6, <2>7 DEF Table!Publish
<1>20. ASSUME NEW c \in Call, InspectReady(c)
      PROVE  key[c] \in Key /\ Table!Join(c, key[c])
  <2>1. key[c] \in Key /\ AValue[key[c]] = ent[c] /\ ent[c] # Nil /\ ALease[c] = Nil
    BY <1>20 DEF InspectReady, AValue, ALease
  <2>2. AValue' = AValue
    BY <1>20 DEF InspectReady, AValue
  <2>3. AHolders' = [k \in Key |-> IF k = key[c] THEN AHolders[key[c]] \cup {c}
                                 ELSE AHolders[k]]
    BY <1>20 DEF InspectReady, Resume, AHolders
  <2>4. ALease' = [x \in Call |-> IF x = c THEN ent[c] ELSE ALease[x]]
    BY <1>20 DEF InspectReady, Resume, ALease
  <2>5. AHolders' = [AHolders EXCEPT ![key[c]] = @ \cup {c}]
    BY <2>3, MapDomains
  <2>6. ALease' = [ALease EXCEPT ![c] = ent[c]]
    BY <2>4, MapDomains
  <2> QED
    BY <2>1, <2>2, <2>5, <2>6 DEF Table!Join
<1>21. ASSUME NEW c \in Call, ReleaseDrop(c)
      PROVE  key[c] \in Key /\ Table!Leave(c, key[c])
  <2>1. /\ ent[c] \in Call /\ status[ent[c]] = "ready" /\ refs[ent[c]] \in Nat \ {0}
        /\ key[c] \in Key /\ AValue[key[c]] = ent[c] /\ c \in AHolders[key[c]]
    BY <1>21, ReleaseCounted DEF ReleaseDrop, AValue, AHolders
  <2>2. AHolders' = [k \in Key |-> IF k = key[c] THEN AHolders[key[c]] \ {c}
                                 ELSE AHolders[k]]
    BY <1>21, <2>1 DEF ReleaseDrop, AHolders
  <2>3. ALease' = [x \in Call |-> IF x = c THEN Nil ELSE ALease[x]]
    BY <1>21, <2>1 DEF ReleaseDrop, ALease
  <2>4. AHolders[key[c]] = Claims(ent[c])
    BY <2>1 DEF AHolders, Claims, AValue
  <2>5. AHolders[key[c]] = {c} <=> refs[ent[c]] = 1
    <3>1. refs[ent[c]] = Cardinality(Claims(ent[c]))
      BY <2>1 DEF ReferencesAreLeases
    <3>2. ASSUME refs[ent[c]] = 1 PROVE \A d \in Claims(ent[c]) : d = c
      BY <1>21, <3>2, SoleClaim DEF Claims, ReleaseDrop
    <3>3. Cardinality({c}) = 1
      BY FS_Singleton
    <3>4. ASSUME refs[ent[c]] = 1 PROVE Claims(ent[c]) = {c}
      BY <2>1, <2>4, <3>2, <3>4
    <3>5. ASSUME Claims(ent[c]) = {c} PROVE refs[ent[c]] = 1
      BY <3>1, <3>3, <3>5
    <3> QED
      BY <2>4, <3>4, <3>5
  <2>6. AValue' = [k \in Key |->
                    IF k = key[c] /\ refs[ent[c]] = 1 /\ ~DisableDeletion
                      THEN Nil ELSE AValue[k]]
    <3>1. CASE refs[ent[c]] = 1 /\ ~DisableDeletion
      <4>1. /\ index' = remove_entry(key[c], ent[c])
            /\ status' = [status EXCEPT ![ent[c]] = "removed"]
        BY <1>21, <2>1, <3>1 DEF ReleaseDrop
      <4> QED
        BY <2>1, <3>1, <4>1 DEF AValue, remove_entry
    <3>2. CASE ~(refs[ent[c]] = 1 /\ ~DisableDeletion)
      <4>1. ~(refs[ent[c]] - 1 <= 0 /\ ~DisableDeletion)
        <5> HIDE DEF IInv, Shape
        <5> QED
          BY <2>1, <3>2
      <4>2. index' = index /\ status' = [status EXCEPT ![ent[c]] = @]
        BY <1>21, <2>1, <4>1 DEF ReleaseDrop
      <4> QED
        BY <2>1, <3>2, <4>2 DEF AValue
    <3> QED
      BY <3>1, <3>2
  <2>7. AHolders' = [AHolders EXCEPT ![key[c]] = @ \ {c}]
    BY <2>2, MapDomains
  <2>8. ALease' = [ALease EXCEPT ![c] = Nil]
    BY <2>3, MapDomains
  <2>9. AValue' = [AValue EXCEPT ![key[c]] =
                      IF AHolders[key[c]] = {c} /\ ~DisableDeletion THEN Nil ELSE @]
    BY <2>1, <2>5, <2>6, MapDomains
  <2> QED
    BY <2>1, <2>7, <2>8, <2>9 DEF Table!Leave
<1> QED
    BY <1>0, <1>1, <1>2, <1>3, <1>4, <1>5, <1>6, <1>7, <1>8, <1>9, <1>10, <1>11, <1>12, <1>13, <1>14, <1>15, <1>16, <1>17, <1>18, <1>19, <1>20, <1>21
       DEF Next, Internal, Produce, Finished, Table!Next

(* The cache implements the table of shared leases. *)
THEOREM Refinement == Spec => ImplementsLeaseTable
<1>1. Init => Table!Init
    BY NilAssumption DEF Init, Table!Init, AValue, AHolders, ALease, Claiming
<1>2. IInv /\ [Next]_vars => [Table!Next]_(Table!vars)
    BY TableStep
<1> QED
    BY <1>1, <1>2, Invariance, PTL DEF Spec, ImplementsLeaseTable, Table!Spec
=============================================================================
