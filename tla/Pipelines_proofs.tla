--------------------------- MODULE Pipelines_proofs ---------------------------
(***************************************************************************)
(* Proofs about the model store and the pipelines that use it, for every   *)
(* policy, every set of keys, every number of handles and of groups.       *)
(*                                                                         *)
(* The safety properties of ModelStore follow from one inductive           *)
(* invariant, StoreInv: the two maps and the heap agree (MapsAgree), every *)
(* held address is a live object, every refcount counts its holders, and   *)
(* under STRICT a resident module is in use and alone.                     *)
(*                                                                         *)
(* Why no pipeline aborts in the store: a program is nested, that is,      *)
(* between a pin and its unpin nothing but the pinned module is required,  *)
(* wherever a failure leads. Nesting is a property of the text of a        *)
(* program and is proved from its parts, by concatenation; the invariant   *)
(* is then that the handles hold what the text says is pinned where the    *)
(* job is. What they hold is read off the loans of ModelCache, which the   *)
(* store implements.                                                       *)
(***************************************************************************)
EXTENDS Pipelines, FiniteSetTheorems, SequenceTheorems, TLAPS

\* How many handles hold address a when f says what each of them holds.
Holding(f, a) == {h \in Handle : f[h] = a}
Count(f, a) == Cardinality(Holding(f, a))

\* Under STRICT nothing idle is ever resident, so a second module can only be
\* met while it is in use: then the store aborts instead of loading.
StrictInv ==
    Policy = "STRICT" =>
        /\ \A m \in Resident : gpu[m].refcount > 0
        /\ \A m, n \in Resident : m = n

StoreInv ==
    /\ heap = AddrOf(Resident)
    /\ \A m \in Resident : handle_to_key[gpu[m].ptr] = m
    /\ \A a \in Addr \ heap : handle_to_key[a] = NULL
    /\ \A m \in Module \ Resident : gpu[m] = Absent
    /\ \A h \in Held : handle[h] \in heap
    /\ \A m \in Resident : gpu[m].refcount = Count(handle, gpu[m].ptr)
    /\ StrictInv

USE DEF Entry

IInv == TypeOK /\ (Running => StoreInv) /\ AbortMeansOverlap

-----------------------------------------------------------------------------
(***************************************************************************)
(* Counting holders                                                        *)
(***************************************************************************)
\* A set of handles is finite, and counts zero exactly when it is empty.
LEMMA HandlesCount ==
    ASSUME NEW S \in SUBSET Handle
    PROVE  /\ IsFiniteSet(S)
           /\ Cardinality(S) \in Nat
           /\ Cardinality(S) = 0 <=> S = {}
BY StoreAssumption, FS_Subset, FS_CardinalityType, FS_EmptySet

\* The count of an address is a number, zero when no handle holds it.
LEMMA CountType ==
    ASSUME NEW f, NEW a
    PROVE  /\ Count(f, a) \in Nat
           /\ Count(f, a) = 0 <=> \A h \in Handle : f[h] # a
<1>1. Holding(f, a) \in SUBSET Handle
  BY DEF Holding
<1>2. Holding(f, a) = {} <=> \A h \in Handle : f[h] # a
  BY DEF Holding
<1>3. QED BY <1>1, <1>2, HandlesCount DEF Count

\* A handle that takes up an address adds one to its count alone.
LEMMA CountTaken ==
    ASSUME NEW f \in [Handle -> Addr \cup {NULL}], NEW h \in Handle, f[h] = NULL,
           NEW a \in Addr
    PROVE  LET g == [f EXCEPT ![h] = a]
           IN  /\ Count(g, a) = Count(f, a) + 1
               /\ \A b \in Addr \ {a} : Count(g, b) = Count(f, b)
<1> DEFINE g == [f EXCEPT ![h] = a]
<1>1. Holding(g, a) = Holding(f, a) \cup {h} /\ h \notin Holding(f, a)
  BY StoreAssumption DEF Holding
<1>2. IsFiniteSet(Holding(f, a))
  <2>1. Holding(f, a) \in SUBSET Handle BY DEF Holding
  <2>2. QED BY <2>1, HandlesCount
<1>3. Count(g, a) = Count(f, a) + 1
  BY <1>1, <1>2, FS_AddElement DEF Count
<1>4. ASSUME NEW b \in Addr \ {a} PROVE Count(g, b) = Count(f, b)
  <2>1. Holding(g, b) = Holding(f, b)
    BY StoreAssumption DEF Holding
  <2>2. QED BY <2>1 DEF Count
<1>5. QED BY <1>3, <1>4

\* A handle that gives its address up takes one off its count alone.
LEMMA CountDropped ==
    ASSUME NEW f \in [Handle -> Addr \cup {NULL}], NEW h \in Handle, f[h] \in Addr
    PROVE  LET g == [f EXCEPT ![h] = NULL]
           IN  /\ Count(g, f[h]) = Count(f, f[h]) - 1
               /\ \A b \in Addr \ {f[h]} : Count(g, b) = Count(f, b)
<1> DEFINE g == [f EXCEPT ![h] = NULL]
           a == f[h]
<1>1. Holding(g, a) = Holding(f, a) \ {h} /\ h \in Holding(f, a)
  BY StoreAssumption DEF Holding
<1>2. IsFiniteSet(Holding(f, a))
  <2>1. Holding(f, a) \in SUBSET Handle BY DEF Holding
  <2>2. QED BY <2>1, HandlesCount
<1>3. Count(g, a) = Count(f, a) - 1
  BY <1>1, <1>2, FS_RemoveElement DEF Count
<1>4. ASSUME NEW b \in Addr \ {a} PROVE Count(g, b) = Count(f, b)
  <2>1. Holding(g, b) = Holding(f, b)
    BY StoreAssumption DEF Holding
  <2>2. QED BY <2>1 DEF Count
<1>5. QED BY <1>3, <1>4

\* Passing an address from one handle to another leaves every count alone.
LEMMA CountMoved ==
    ASSUME NEW f \in [Handle -> Addr \cup {NULL}], NEW h \in Handle, NEW g \in Handle,
           f[h] \in Addr, f[g] = NULL
    PROVE  \A b \in Addr : Count([f EXCEPT ![g] = f[h], ![h] = NULL], b) = Count(f, b)
<1> DEFINE dropped == [f EXCEPT ![h] = NULL]
           moved == [dropped EXCEPT ![g] = f[h]]
<1>1. h # g /\ moved = [f EXCEPT ![g] = f[h], ![h] = NULL]
  BY StoreAssumption
<1>2. dropped \in [Handle -> Addr \cup {NULL}] /\ dropped[g] = NULL
  BY <1>1
<1> HIDE DEF dropped
<1>3. /\ Count(moved, f[h]) = Count(dropped, f[h]) + 1
      /\ \A b \in Addr \ {f[h]} : Count(moved, b) = Count(dropped, b)
  BY <1>2, CountTaken
<1>4. /\ Count(dropped, f[h]) = Count(f, f[h]) - 1
      /\ \A b \in Addr \ {f[h]} : Count(dropped, b) = Count(f, b)
  BY CountDropped DEF dropped
<1>5. Count(f, f[h]) \in Nat
  BY CountType
<1> HIDE DEF moved
<1>6. \A b \in Addr : Count(moved, b) = Count(f, b)
  BY <1>3, <1>4, <1>5
<1>7. QED BY <1>1, <1>6

-----------------------------------------------------------------------------
LEMMA IdentIsModule == \A k \in ModelKey : Ident(k) \in Module
BY DEF Module

\* A held handle names a resident module.
LEMMA HeldNamesResident ==
    ASSUME TypeOK, StoreInv, NEW h \in Held
    PROVE  /\ handle[h] \in Addr
           /\ handle_to_key[handle[h]] \in Resident
           /\ gpu[handle_to_key[handle[h]]].ptr = handle[h]
<1>1. PICK m \in Resident : gpu[m].ptr = handle[h]
  BY DEF StoreInv, AddrOf
<1>2. handle_to_key[handle[h]] = m
  BY <1>1 DEF StoreInv
<1>3. handle[h] \in Addr
  BY DEF TypeOK, Held
<1>4. QED BY <1>1, <1>2, <1>3

\* Under STRICT, a miss that does not abort finds the store empty.
LEMMA StrictMissIsEmpty ==
    ASSUME TypeOK, StoreInv, NEW m \in Module \ Resident, ~ (EvictsOnMiss /\ Conflict(m))
    PROVE  Policy = "STRICT" => Resident = {}
BY DEF StoreInv, StrictInv, EvictsOnMiss, Conflict, Resident

\* A miss that does not abort keeps whatever was resident: eviction proper
\* never has anything to evict.
LEMMA MissKeepsAll ==
    ASSUME TypeOK, StoreInv, NEW m \in Module \ Resident, ~ (EvictsOnMiss /\ Conflict(m))
    PROVE  /\ Kept(m) = Resident
           /\ GpuOf(Kept(m)) = gpu
           /\ AddrOf(Resident \ Kept(m)) = {}
           /\ Unmapped(AddrOf(Resident \ Kept(m))) = handle_to_key
<1>1. Kept(m) = Resident
  BY StrictMissIsEmpty DEF Kept, EvictsOnMiss
<1>2. GpuOf(Resident) = gpu
  BY DEF GpuOf, TypeOK, StoreInv, Absent, Resident
<1>3. AddrOf(Resident \ Resident) = {}
  BY DEF AddrOf
<1>4. Unmapped({}) = handle_to_key
  BY DEF Unmapped, TypeOK
<1>5. QED BY <1>1, <1>2, <1>3, <1>4

-----------------------------------------------------------------------------
LEMMA InitInv == Init => IInv
<1> SUFFICES ASSUME Init PROVE IInv
  OBVIOUS
<1>1. Resident = {} /\ Held = {}
  BY DEF Init, Resident, Held, Absent
<1>2. TypeOK
  BY StoreAssumption DEF Init, TypeOK, Absent
<1>3. StoreInv
  BY <1>1 DEF Init, StoreInv, StrictInv, AddrOf
<1>4. AbortMeansOverlap
  BY DEF Init, AbortMeansOverlap
<1>5. QED BY <1>2, <1>3, <1>4 DEF IInv

\* A hit shares the module: its count grows by the handle that now holds it.
LEMMA HitInv ==
    ASSUME IInv, NEW h \in Handle, NEW k \in ModelKey, RequireHit(h, k)
    PROVE  IInv'
<1> DEFINE m == Ident(k)
           a == gpu[m].ptr
<1>1. m \in Resident /\ m \in Module /\ handle[h] = NULL /\ proc = "running" /\ proc' = proc
  BY DEF RequireHit, Resident
<1>2. TypeOK /\ StoreInv
  BY <1>1 DEF IInv, Running
<1>3. /\ gpu' = [gpu EXCEPT ![m] = Entry(a, gpu[m].refcount + 1)]
      /\ handle' = [handle EXCEPT ![h] = a]
      /\ handle_to_key' = handle_to_key /\ heap' = heap /\ cpu' = cpu
  BY <1>1, <1>2 DEF RequireHit, TypeOK
<1>4. a \in Addr /\ a # NULL /\ gpu[m].refcount \in Nat
  BY <1>1, <1>2 DEF TypeOK, Resident
<1> HIDE DEF m
<1>5. /\ \A n \in Module : gpu'[n].ptr = gpu[n].ptr
      /\ \A n \in Module \ {m} : gpu'[n] = gpu[n]
      /\ gpu'[m].refcount = gpu[m].refcount + 1
  BY <1>1, <1>2, <1>3 DEF TypeOK
<1>6. TypeOK'
  BY <1>1, <1>2, <1>3, <1>4 DEF TypeOK
<1>7. Resident' = Resident /\ AddrOf(Resident)' = AddrOf(Resident)
  BY <1>5 DEF Resident, AddrOf
<1>8. /\ Count(handle', a) = Count(handle, a) + 1
      /\ \A b \in Addr \ {a} : Count(handle', b) = Count(handle, b)
  <2> DEFINE g == [handle EXCEPT ![h] = a]
  <2>1. /\ Count(g, a) = Count(handle, a) + 1
        /\ \A b \in Addr \ {a} : Count(g, b) = Count(handle, b)
    BY <1>1, <1>2, <1>4, CountTaken DEF TypeOK
  <2>2. handle' = g
    BY <1>3
  <2> HIDE DEF g
  <2>3. QED BY <2>1, <2>2
<1>9. \A n \in Resident : gpu'[n].refcount = Count(handle', gpu'[n].ptr)
  BY <1>1, <1>2, <1>5, <1>8 DEF StoreInv, Resident, TypeOK
<1>10. StrictInv'
  BY <1>1, <1>2, <1>4, <1>5, <1>7 DEF StoreInv, StrictInv, Resident
<1>11. \A g \in Held' : handle'[g] \in heap'
  BY <1>1, <1>2, <1>3, <1>4 DEF Held, StoreInv, AddrOf, TypeOK
<1>12. StoreInv'
  BY <1>1, <1>2, <1>3, <1>5, <1>7, <1>9, <1>10, <1>11 DEF StoreInv, Resident, Absent
<1>13. QED BY <1>1, <1>6, <1>12 DEF IInv, AbortMeansOverlap

\* A load installs the module at an address nobody holds, with one holder.
LEMMA LoadInv ==
    ASSUME IInv, NEW h \in Handle, NEW k \in ModelKey, RequireLoad(h, k)
    PROVE  IInv'
<1> DEFINE m == Ident(k)
<1>1. /\ m \in Module \ Resident /\ handle[h] = NULL /\ proc = "running" /\ proc' = proc
      /\ ~ (EvictsOnMiss /\ Conflict(m))
  BY IdentIsModule DEF RequireLoad, MissReached
<1>2. TypeOK /\ StoreInv
  BY <1>1 DEF IInv, Running
<1>3. PICK a \in Addr \ heap :
         /\ gpu' = [gpu EXCEPT ![m] = Entry(a, 1)]
         /\ heap' = heap \cup {a}
         /\ handle_to_key' = [handle_to_key EXCEPT ![a] = m]
         /\ handle' = [handle EXCEPT ![h] = a]
         /\ cpu' = cpu
  BY <1>1, <1>2, MissKeepsAll DEF RequireLoad
<1> HIDE DEF m
<1>4. a # NULL
  BY StoreAssumption
<1>5. TypeOK'
  BY <1>1, <1>2, <1>3 DEF TypeOK
<1>6. /\ gpu'[m] = Entry(a, 1)
      /\ \A n \in Module \ {m} : gpu'[n] = gpu[n]
  BY <1>1, <1>2, <1>3 DEF TypeOK
<1>7. Resident' = Resident \cup {m}
  BY <1>1, <1>4, <1>6 DEF Resident
<1>8. heap' = AddrOf(Resident)'
  BY <1>1, <1>2, <1>3, <1>6, <1>7 DEF AddrOf, StoreInv, Resident
<1>9. \A n \in Resident : gpu[n].ptr \in heap /\ gpu[n].ptr # a
  BY <1>2 DEF StoreInv, AddrOf
<1>10. /\ \A n \in Resident' : handle_to_key'[gpu'[n].ptr] = n
       /\ \A b \in Addr \ heap' : handle_to_key'[b] = NULL
  BY <1>1, <1>2, <1>3, <1>6, <1>7, <1>9 DEF StoreInv, TypeOK, Resident
<1>11. \A n \in Module \ Resident' : gpu'[n] = Absent
  BY <1>2, <1>6, <1>7 DEF StoreInv, Absent
<1>12. \A g \in Held' : handle'[g] \in heap'
  BY <1>1, <1>2, <1>3 DEF Held, StoreInv, TypeOK
<1>13. /\ Count(handle', a) = Count(handle, a) + 1
       /\ \A b \in Addr \ {a} : Count(handle', b) = Count(handle, b)
  <2> DEFINE g == [handle EXCEPT ![h] = a]
  <2>1. /\ Count(g, a) = Count(handle, a) + 1
        /\ \A b \in Addr \ {a} : Count(g, b) = Count(handle, b)
    BY <1>1, <1>2, CountTaken DEF TypeOK
  <2>2. handle' = g
    BY <1>3
  <2> HIDE DEF g
  <2>3. QED BY <2>1, <2>2
<1>14. Count(handle, a) = 0
  <2>1. \A g \in Handle : handle[g] # a
    BY <1>2, <1>3, <1>4 DEF StoreInv, Held
  <2>2. QED BY <2>1, CountType
<1>15. \A n \in Resident' : gpu'[n].refcount = Count(handle', gpu'[n].ptr)
  <2>1. gpu'[m].refcount = Count(handle', gpu'[m].ptr)
    BY <1>6, <1>13, <1>14
  <2>2. ASSUME NEW n \in Resident, n # m
        PROVE gpu'[n].refcount = Count(handle', gpu'[n].ptr)
    BY <2>2, <1>2, <1>6, <1>9, <1>13 DEF StoreInv, TypeOK, Resident
  <2>3. QED BY <2>1, <2>2, <1>7
<1>16. StrictInv'
  BY <1>1, <1>2, <1>6, <1>7, StrictMissIsEmpty DEF StrictInv
<1>17. StoreInv'
  BY <1>8, <1>10, <1>11, <1>12, <1>15, <1>16 DEF StoreInv
<1>18. QED BY <1>1, <1>5, <1>17 DEF IInv, AbortMeansOverlap

\* A step that leaves the maps, the heap and the handles alone.
LEMMA KeptInv ==
    ASSUME TypeOK, Running => StoreInv,
           UNCHANGED <<gpu, handle_to_key, heap, handle>>,
           Running' => Running
    PROVE  (Running => StoreInv)'
BY DEF StoreInv, StrictInv, AddrOf, Resident, Held

\* A load that fails has evicted nothing: a miss never does.
LEMMA LoadFailsInv ==
    ASSUME IInv, NEW h \in Handle, NEW k \in ModelKey, RequireLoadFails(h, k)
    PROVE  IInv'
<1>1. /\ Ident(k) \in Module \ Resident /\ proc = "running" /\ proc' = proc
      /\ ~ (EvictsOnMiss /\ Conflict(Ident(k)))
  BY IdentIsModule DEF RequireLoadFails, MissReached
<1>2. TypeOK /\ StoreInv
  BY <1>1 DEF IInv, Running
<1>3. UNCHANGED vars
  <2>1. /\ GpuOf(Kept(Ident(k))) = gpu
        /\ AddrOf(Resident \ Kept(Ident(k))) = {}
        /\ Unmapped(AddrOf(Resident \ Kept(Ident(k)))) = handle_to_key
    BY <1>1, <1>2, MissKeepsAll
  <2>2. QED BY <2>1 DEF RequireLoadFails, vars
<1>4. TypeOK'
  BY <1>2, <1>3 DEF TypeOK, vars
<1>5. QED BY <1>1, <1>2, <1>3, <1>4, KeptInv DEF IInv, AbortMeansOverlap, vars, Running

\* Whoever is counted holds: the store aborts only under a live handle.
LEMMA AbortsInv ==
    ASSUME IInv, NEW h \in Handle, NEW k \in ModelKey, RequireAborts(h, k)
    PROVE  IInv'
<1>1. proc = "running" /\ proc' = "aborted" /\ Policy = "STRICT" /\ Conflict(Ident(k))
  BY DEF RequireAborts, MissReached, EvictsOnMiss
<1>2. TypeOK /\ StoreInv
  BY <1>1 DEF IInv, Running
<1>3. PICK n \in Module : gpu[n].refcount > 0
  BY <1>1 DEF Conflict
<1>4. n \in Resident /\ gpu[n].ptr # NULL
  BY <1>2, <1>3 DEF StoreInv, Absent, Resident
<1>5. Count(handle, gpu[n].ptr) # 0
  BY <1>2, <1>3, <1>4, CountType DEF StoreInv
<1>6. PICK g \in Handle : handle[g] = gpu[n].ptr
  BY <1>5, CountType
<1>7. Held # {}
  BY <1>4, <1>6 DEF Held
<1>8. TypeOK'
  BY <1>1, <1>2 DEF RequireAborts, TypeOK
<1>9. QED BY <1>1, <1>7, <1>8 DEF IInv, AbortMeansOverlap, Running, Held, RequireAborts

\* The last release under STRICT: the module and its object go together.
LEMMA UnloadInv ==
    ASSUME IInv, NEW h \in Handle, Release(h),
           NEW m \in Resident, handle_to_key[handle[h]] = m,
           gpu[m].refcount = 1, UnloadsAtZero
    PROVE  IInv'
<1> DEFINE a == handle[h]
<1>1. h \in Held /\ proc = "running" /\ proc' = proc /\ cpu' = cpu /\ m \in Module
  BY DEF Release, Held, Resident
<1>2. TypeOK /\ StoreInv
  BY <1>1 DEF IInv, Running
<1>3. a \in Addr /\ gpu[m].ptr = a
  BY <1>1, <1>2, HeldNamesResident
<1>4. /\ gpu' = [gpu EXCEPT ![m] = Absent]
      /\ handle_to_key' = [handle_to_key EXCEPT ![a] = NULL]
      /\ heap' = heap \ {a}
      /\ handle' = [handle EXCEPT ![h] = NULL]
  BY <1>1 DEF Release, ReleaseEntry
<1>5. TypeOK'
  BY <1>1, <1>2, <1>3, <1>4, StoreAssumption DEF TypeOK, Absent
<1>6. gpu'[m] = Absent /\ \A n \in Module \ {m} : gpu'[n] = gpu[n]
  BY <1>1, <1>2, <1>4 DEF TypeOK
<1>7. Resident' = Resident \ {m}
  BY <1>6 DEF Resident, Absent
<1>8. \A n \in Resident \ {m} : gpu[n].ptr # a
  BY <1>2, <1>3 DEF StoreInv
<1>9. heap' = AddrOf(Resident)'
  BY <1>2, <1>3, <1>4, <1>6, <1>7, <1>8 DEF AddrOf, StoreInv, Resident
<1>10. \A n \in Resident' : handle_to_key'[gpu'[n].ptr] = n
  BY <1>2, <1>4, <1>6, <1>7, <1>8 DEF StoreInv, TypeOK, Resident
<1>11. \A b \in Addr \ heap' : handle_to_key'[b] = NULL
  BY <1>2, <1>4 DEF StoreInv, TypeOK
<1>12. \A n \in Module \ Resident' : gpu'[n] = Absent
  BY <1>2, <1>6, <1>7 DEF StoreInv
<1>13. /\ Count(handle', a) = Count(handle, a) - 1
       /\ \A b \in Addr \ {a} : Count(handle', b) = Count(handle, b)
  <2> DEFINE g == [handle EXCEPT ![h] = NULL]
  <2>1. /\ Count(g, a) = Count(handle, a) - 1
        /\ \A b \in Addr \ {a} : Count(g, b) = Count(handle, b)
    BY <1>2, <1>3, CountDropped DEF TypeOK
  <2>2. handle' = g
    BY <1>4
  <2> HIDE DEF g
  <2>3. QED BY <2>1, <2>2
<1>14. \A g \in Handle : handle'[g] # a
  <2>1. Count(handle', a) = 0
    BY <1>2, <1>3, <1>13 DEF StoreInv
  <2>2. QED BY <2>1, CountType
<1>15. \A g \in Held' : handle'[g] \in heap'
  BY <1>2, <1>4, <1>14 DEF Held, StoreInv, TypeOK
<1>16. \A n \in Resident' : gpu'[n].refcount = Count(handle', gpu'[n].ptr)
  BY <1>2, <1>6, <1>7, <1>8, <1>13 DEF StoreInv, TypeOK, Resident
<1>17. StrictInv'
  BY <1>2, <1>6, <1>7 DEF StoreInv, StrictInv
<1>18. StoreInv'
  BY <1>9, <1>10, <1>11, <1>12, <1>15, <1>16, <1>17 DEF StoreInv
<1>19. QED BY <1>1, <1>5, <1>18 DEF IInv, AbortMeansOverlap

\* Any other release: one holder less, the module stays.
LEMMA DecrementInv ==
    ASSUME IInv, NEW h \in Handle, Release(h),
           NEW m \in Resident, handle_to_key[handle[h]] = m,
           ~ (gpu[m].refcount = 1 /\ UnloadsAtZero)
    PROVE  IInv'
<1> DEFINE a == handle[h]
<1>1. h \in Held /\ proc = "running" /\ proc' = proc /\ cpu' = cpu /\ m \in Module
  BY DEF Release, Held, Resident
<1>2. TypeOK /\ StoreInv
  BY <1>1 DEF IInv, Running
<1>3. a \in Addr /\ a # NULL /\ gpu[m].ptr = a
  BY <1>1, <1>2, HeldNamesResident DEF Held
<1>4. /\ gpu' = [gpu EXCEPT ![m] = Entry(gpu[m].ptr, gpu[m].refcount - 1)]
      /\ handle_to_key' = handle_to_key /\ heap' = heap
      /\ handle' = [handle EXCEPT ![h] = NULL]
  BY <1>1, <1>2 DEF Release, ReleaseEntry, TypeOK
<1>5. gpu[m].refcount \in Nat \ {0}
  <2>1. Count(handle, a) # 0
    BY CountType
  <2>2. QED BY <1>2, <1>3, <2>1, CountType DEF StoreInv
<1>6. TypeOK'
  <2>1. gpu[m].refcount - 1 \in Nat
    BY <1>5
  <2>2. Entry(gpu[m].ptr, gpu[m].refcount - 1) \in [ptr : Addr \cup {NULL}, refcount : Nat]
    BY <1>3, <2>1
  <2>3. gpu' \in [Module -> [ptr : Addr \cup {NULL}, refcount : Nat]]
    BY <1>1, <1>2, <1>4, <2>2 DEF TypeOK
  <2>4. QED BY <1>1, <1>2, <1>4, <2>3 DEF TypeOK
<1>7. /\ \A n \in Module : gpu'[n].ptr = gpu[n].ptr
      /\ \A n \in Module \ {m} : gpu'[n] = gpu[n]
      /\ gpu'[m].refcount = gpu[m].refcount - 1
  BY <1>1, <1>2, <1>4 DEF TypeOK
<1>8. Resident' = Resident /\ AddrOf(Resident)' = AddrOf(Resident)
  BY <1>7 DEF Resident, AddrOf
<1>9. \A n \in Resident \ {m} : gpu[n].ptr # a
  BY <1>2, <1>3 DEF StoreInv
<1>10. /\ Count(handle', a) = Count(handle, a) - 1
       /\ \A b \in Addr \ {a} : Count(handle', b) = Count(handle, b)
  <2> DEFINE g == [handle EXCEPT ![h] = NULL]
  <2>1. /\ Count(g, a) = Count(handle, a) - 1
        /\ \A b \in Addr \ {a} : Count(g, b) = Count(handle, b)
    BY <1>2, <1>3, CountDropped DEF TypeOK
  <2>2. handle' = g
    BY <1>4
  <2> HIDE DEF g
  <2>3. QED BY <2>1, <2>2
<1>11. \A n \in Resident : gpu'[n].refcount = Count(handle', gpu'[n].ptr)
  BY <1>2, <1>3, <1>7, <1>9, <1>10 DEF StoreInv, Resident, TypeOK
<1>12. \A g \in Held' : handle'[g] \in heap'
  BY <1>2, <1>4 DEF Held, StoreInv, TypeOK
<1>13. StrictInv'
  BY <1>1, <1>2, <1>5, <1>7, <1>8 DEF StoreInv, StrictInv, UnloadsAtZero, Resident
<1>14. StoreInv'
  BY <1>2, <1>4, <1>7, <1>8, <1>11, <1>12, <1>13 DEF StoreInv, Resident
<1>15. QED BY <1>1, <1>6, <1>14 DEF IInv, AbortMeansOverlap

\* A held handle names a resident module, so a release is one of the two.
LEMMA ReleaseInv ==
    ASSUME IInv, NEW h \in Handle, Release(h)
    PROVE  IInv'
<1>1. h \in Held /\ TypeOK /\ StoreInv
  BY DEF Release, Held, IInv, Running
<1>2. handle_to_key[handle[h]] \in Resident
  BY <1>1, HeldNamesResident
<1>3. QED BY <1>2, UnloadInv, DecrementInv

\* Moving a ModelHandle moves its count with it.
LEMMA MoveInv ==
    ASSUME IInv, NEW h \in Handle, NEW g \in Handle, MoveHandle(h, g)
    PROVE  IInv'
<1>1. h \in Held /\ handle[g] = NULL /\ proc = "running"
  BY DEF MoveHandle, Held
<1>2. UNCHANGED <<gpu, handle_to_key, heap, cpu, proc>>
  BY DEF MoveHandle
<1>3. TypeOK /\ StoreInv
  BY <1>1 DEF IInv, Running
<1>4. handle[h] \in Addr
  BY <1>1, <1>3, HeldNamesResident
<1>5. TypeOK' /\ \A i \in Held' : handle'[i] \in heap
  BY <1>1, <1>2, <1>3, <1>4 DEF TypeOK, MoveHandle, Held, StoreInv
<1>6. \A b \in Addr : Count(handle', b) = Count(handle, b)
  <2> DEFINE f == [handle EXCEPT ![g] = handle[h], ![h] = NULL]
  <2>1. \A b \in Addr : Count(f, b) = Count(handle, b)
    BY <1>1, <1>3, <1>4, CountMoved DEF TypeOK
  <2>2. handle' = f
    BY DEF MoveHandle
  <2> HIDE DEF f
  <2>3. QED BY <2>1, <2>2
<1>7. Resident' = Resident /\ AddrOf(Resident)' = AddrOf(Resident)
  BY <1>2 DEF Resident, AddrOf
<1>8. \A n \in Resident : gpu'[n].refcount = Count(handle', gpu'[n].ptr)
  BY <1>2, <1>3, <1>6 DEF StoreInv, Resident, TypeOK
<1>9. StoreInv'
  BY <1>2, <1>3, <1>5, <1>7, <1>8 DEF StoreInv, StrictInv
<1>10. QED BY <1>1, <1>2, <1>5, <1>9 DEF IInv, AbortMeansOverlap

\* Every step of the store keeps the invariant.
LEMMA NextInv == IInv /\ [Next]_vars => IInv'
<1> SUFFICES ASSUME IInv, [Next]_vars PROVE IInv'
  OBVIOUS
<1>1. ASSUME NEW h \in Handle, NEW k \in ModelKey, Require(h, k) PROVE IInv'
  <2>1. CASE RequireHit(h, k)        BY <2>1, HitInv
  <2>2. CASE RequireLoad(h, k)       BY <2>2, LoadInv
  <2>3. CASE RequireLoadFails(h, k)  BY <2>3, LoadFailsInv
  <2>4. CASE RequireExits(h, k)
    BY <2>4 DEF RequireExits, IInv, TypeOK, Running, AbortMeansOverlap
  <2>5. CASE RequireAborts(h, k)     BY <2>5, AbortsInv
  <2>6. QED BY <1>1, <2>1, <2>2, <2>3, <2>4, <2>5 DEF Require
<1>2. ASSUME NEW h \in Handle, Release(h) PROVE IInv'
  BY <1>2, ReleaseInv
<1>3. ASSUME NEW h \in Handle, NEW g \in Handle, MoveHandle(h, g) PROVE IInv'
  BY <1>3, MoveInv
<1>4. ASSUME NEW t \in CpuTable, NEW p \in CpuPath, CpuLoad(t, p) PROVE IInv'
  <2>1. TypeOK' /\ UNCHANGED <<gpu, handle_to_key, heap, handle, proc>>
    BY <1>4 DEF CpuLoad, IInv, TypeOK
  <2>2. QED BY <2>1, KeptInv DEF IInv, AbortMeansOverlap, Running, Held
<1>5. ASSUME NEW p \in CpuPath, FsmLoad(p) PROVE IInv'
  <2>1. TypeOK' /\ UNCHANGED <<gpu, handle_to_key, heap, handle, proc>>
    BY <1>5 DEF FsmLoad, IInv, TypeOK, CpuTable
  <2>2. QED BY <2>1, KeptInv DEF IInv, AbortMeansOverlap, Running, Held
<1>6. CASE StoreFree
  <2>1. TypeOK'
    BY <1>6 DEF StoreFree, IInv, TypeOK, GpuOf, Unmapped, Absent
  <2>2. QED BY <1>6, <2>1 DEF StoreFree, IInv, Running, AbortMeansOverlap
<1>7. CASE UNCHANGED vars
  <2>1. TypeOK' /\ UNCHANGED <<gpu, handle_to_key, heap, handle, proc>>
    BY <1>7 DEF vars, IInv, TypeOK
  <2>2. QED BY <2>1, KeptInv DEF IInv, AbortMeansOverlap, Running, Held
<1>8. QED BY <1>1, <1>2, <1>3, <1>4, <1>5, <1>6, <1>7 DEF Next

-----------------------------------------------------------------------------
LEMMA Invariance == Spec => []IInv
<1>1. QED BY InitInv, NextInv, PTL DEF Spec

\* Every variable keeps its type for every set of keys, handles and addresses.
THEOREM TypeCorrect == Spec => []TypeOK
<1>1. IInv => TypeOK
  BY DEF IInv
<1>2. QED BY <1>1, Invariance, PTL

\* A pipeline never holds a module that was freed.
THEOREM HandlesStayLive == Spec => []HeldHandlesLive
<1>1. IInv => HeldHandlesLive
  <2> SUFFICES ASSUME IInv, Running, NEW h \in Held
               PROVE  /\ handle[h] \in heap
                      /\ handle_to_key[handle[h]] \in Resident
                      /\ gpu[handle_to_key[handle[h]]].ptr = handle[h]
    BY DEF HeldHandlesLive
  <2>1. QED BY HeldNamesResident DEF IInv, StoreInv
<1>2. QED BY <1>1, Invariance, PTL

\* The key map, the address map and the heap never disagree.
THEOREM StoreMapsAgree == Spec => []MapsAgree
<1>1. IInv => MapsAgree
  BY DEF IInv, StoreInv, MapsAgree
<1>2. QED BY <1>1, Invariance, PTL

\* A refcount is the number of the handles held on the module.
THEOREM RefcountIsExact == Spec => []RefcountCountsHolders
<1>1. IInv => RefcountCountsHolders
  BY DEF IInv, StoreInv, RefcountCountsHolders, Count, Holding, Holders
<1>2. QED BY <1>1, Invariance, PTL

\* Under STRICT at most one GPU module is resident, whoever asks for what.
THEOREM StrictKeepsOne == Spec => []StrictOneResident
<1>1. IInv => StrictOneResident
  BY DEF IInv, StoreInv, StrictInv, StrictOneResident
<1>2. QED BY <1>1, Invariance, PTL

LEMMA IdleIsEmpty == IInv => StrictIdleIsEmpty
<1> SUFFICES ASSUME IInv, Running, Policy = "STRICT", Held = {}
             PROVE  Resident = {} /\ heap = {}
  BY DEF StrictIdleIsEmpty
<1>1. ASSUME NEW m \in Resident PROVE FALSE
  <2>1. Count(handle, gpu[m].ptr) # 0
    BY CountType DEF IInv, StoreInv, StrictInv
  <2>2. PICK h \in Handle : handle[h] = gpu[m].ptr
    BY <2>1, CountType
  <2>3. QED BY <2>2 DEF Held, Resident
<1>2. QED BY <1>1 DEF IInv, StoreInv, AddrOf

\* Under STRICT the store is empty as soon as no handle is held.
THEOREM StrictReturnsMemory == Spec => []StrictIdleIsEmpty
BY IdleIsEmpty, Invariance, PTL

\* The store aborts only where two users overlap under STRICT.
THEOREM AbortsOnlyOnOverlap == Spec => []AbortMeansOverlap
<1>1. IInv => AbortMeansOverlap
  BY DEF IInv
<1>2. QED BY <1>1, Invariance, PTL

\* --keep-loaded unloads nothing before store_free.
THEOREM KeepLoadedKeeps == Spec => KeepLoadedNeverUnloads
<1>1. ASSUME IInv, [Next]_vars, Policy = "NEVER", proc' # "freed", NEW m \in Resident
      PROVE  gpu'[m].ptr = gpu[m].ptr
  <2>1. m \in Module /\ (proc = "running" => TypeOK /\ StoreInv)
    BY <1>1 DEF Resident, IInv, Running
  <2>2. ASSUME NEW h \in Handle, NEW k \in ModelKey, Require(h, k)
        PROVE  gpu'[m].ptr = gpu[m].ptr
    <3>1. CASE RequireHit(h, k)
      BY <1>1, <3>1, <2>1 DEF RequireHit, TypeOK
    <3>2. CASE RequireLoad(h, k)
      <4>1. Ident(k) \in Module \ Resident /\ GpuOf(Kept(Ident(k))) = gpu /\ TypeOK
        BY <1>1, <2>1, <3>2, IdentIsModule, MissKeepsAll DEF RequireLoad, MissReached
      <4>2. QED BY <4>1, <3>2, <1>1 DEF RequireLoad, TypeOK
    <3>3. CASE RequireLoadFails(h, k)
      <4>1. Ident(k) \in Module \ Resident /\ GpuOf(Kept(Ident(k))) = gpu
        BY <1>1, <2>1, <3>3, IdentIsModule, MissKeepsAll DEF RequireLoadFails, MissReached
      <4>2. QED BY <4>1, <3>3 DEF RequireLoadFails
    <3>4. CASE RequireExits(h, k)   BY <3>4 DEF RequireExits
    <3>5. CASE RequireAborts(h, k)  BY <3>5 DEF RequireAborts
    <3>6. QED BY <2>2, <3>1, <3>2, <3>3, <3>4, <3>5 DEF Require
  <2>3. ASSUME NEW h \in Handle, Release(h) PROVE gpu'[m].ptr = gpu[m].ptr
    BY <1>1, <2>1, <2>3 DEF Release, ReleaseEntry, UnloadsAtZero, TypeOK
  <2>4. ASSUME NEW h \in Handle, NEW g \in Handle, MoveHandle(h, g)
        PROVE  gpu'[m].ptr = gpu[m].ptr
    BY <2>4 DEF MoveHandle
  <2>5. ASSUME NEW t \in CpuTable, NEW p \in CpuPath, CpuLoad(t, p)
        PROVE  gpu'[m].ptr = gpu[m].ptr
    BY <2>5 DEF CpuLoad
  <2>6. ASSUME NEW p \in CpuPath, FsmLoad(p) PROVE gpu'[m].ptr = gpu[m].ptr
    BY <2>6 DEF FsmLoad
  <2>7. CASE StoreFree
    BY <1>1, <2>7 DEF StoreFree
  <2>8. CASE UNCHANGED vars
    BY <2>8 DEF vars
  <2>9. QED BY <1>1, <2>2, <2>3, <2>4, <2>5, <2>6, <2>7, <2>8 DEF Next
<1>2. IInv /\ [Next]_vars =>
        [Policy = "NEVER" /\ proc' # "freed" => \A m \in Resident : gpu'[m].ptr = gpu[m].ptr]_vars
  BY <1>1
<1>3. QED BY <1>2, Invariance, PTL DEF Spec, KeepLoadedNeverUnloads

-----------------------------------------------------------------------------
(***************************************************************************)
(* The store implements ModelCache: each step is a step of the cache, or   *)
(* leaves what the cache shows alone.                                      *)
(***************************************************************************)
InstanceOf == [Module -> Addr \cup {NULL}]

\* What the mapping shows of a running store.
View ==
    /\ StoreInstance \in InstanceOf
    /\ StoreLoan \in [Handle -> Module \cup {NULL}]
    /\ \A m \in Module : StoreInstance[m] = gpu[m].ptr
    /\ \A h \in Handle \ Held : StoreLoan[h] = NULL
    /\ \A h \in Held : /\ StoreLoan[h] = handle_to_key[handle[h]]
                      /\ StoreLoan[h] \in Resident
                      /\ StoreLoan[h] # NULL
                      /\ gpu[StoreLoan[h]].ptr = handle[h]

LEMMA ViewRunning == IInv /\ Running => View
<1> SUFFICES ASSUME IInv, Running PROVE View
  OBVIOUS
<1>1. TypeOK /\ StoreInv
  BY DEF IInv
<1>2. \A m \in Module : StoreInstance[m] = gpu[m].ptr /\ gpu[m].ptr \in Addr \cup {NULL}
  BY <1>1 DEF StoreInstance, TypeOK
<1>3. StoreInstance \in InstanceOf
  BY <1>2 DEF StoreInstance, InstanceOf
<1>4. \A h \in Handle \ Held : StoreLoan[h] = NULL
  BY DEF StoreLoan, Held
<1>5. ASSUME NEW h \in Held
      PROVE  /\ StoreLoan[h] = handle_to_key[handle[h]]
             /\ StoreLoan[h] \in Resident
             /\ StoreLoan[h] # NULL
             /\ gpu[StoreLoan[h]].ptr = handle[h]
  <2>1. StoreLoan[h] = handle_to_key[handle[h]]
    BY DEF StoreLoan, Held
  <2>2. QED BY <1>1, <2>1, HeldNamesResident, NullIsNoModule DEF Resident
<1>6. StoreLoan \in [Handle -> Module \cup {NULL}]
  <2>1. \A h \in Handle : StoreLoan[h] \in Module \cup {NULL}
    BY <1>4, <1>5 DEF Resident
  <2>2. QED BY <2>1 DEF StoreLoan
<1>7. QED BY <1>2, <1>3, <1>4, <1>5, <1>6 DEF View

LEMMA ViewStep == IInv /\ IInv' /\ Running /\ Running' => View /\ View'
BY ViewRunning, PTL

\* A loan is what its handle holds.
LEMMA LoanOfHeld ==
    ASSUME IInv, Running
    PROVE  /\ StoreLoan \in [Handle -> Module \cup {NULL}]
           /\ \A h \in Handle : handle[h] = NULL <=> StoreLoan[h] = NULL
BY ViewRunning DEF View, Held

\* What the store would abort for is on loan to somebody.
LEMMA ConflictIsLent ==
    ASSUME IInv, Running, NEW m, Conflict(m)
    PROVE  \E h \in Handle : StoreLoan[h] # NULL /\ StoreLoan[h] # m
<1>1. PICK n \in Module \ {m} : gpu[n].refcount > 0
  BY DEF Conflict
<1>2. TypeOK /\ StoreInv /\ View
  BY ViewRunning DEF IInv
<1>3. n \in Resident
  BY <1>1, <1>2 DEF StoreInv, Absent
<1>4. Count(handle, gpu[n].ptr) # 0
  BY <1>1, <1>2, <1>3, CountType DEF StoreInv
<1>5. PICK h \in Handle : handle[h] = gpu[n].ptr
  BY <1>4, CountType
<1>6. h \in Held
  BY <1>3, <1>5 DEF Held, Resident
<1>7. StoreLoan[h] = n /\ StoreLoan[h] # NULL
  BY <1>2, <1>3, <1>5, <1>6 DEF View, StoreInv
<1>8. QED BY <1>1, <1>7

LEMMA InitMaps == Init => Cache!CacheInit
<1> SUFFICES ASSUME Init PROVE Cache!CacheInit
  OBVIOUS
<1>1. Running /\ \A m \in Module : gpu[m].ptr = NULL
  BY DEF Init, Running, Absent
<1>2. StoreInstance = [m \in Module |-> NULL]
  BY <1>1 DEF StoreInstance
<1>3. StoreLoan = [h \in Handle |-> NULL]
  BY DEF Init, StoreLoan
<1>4. QED BY <1>1, <1>2, <1>3 DEF Cache!CacheInit

\* Taking up a module that is resident after the step, at an address that
\* maps to it, while every other holder and module stays as it was.
LEMMA TakingBorrows ==
    ASSUME IInv, IInv', Running, Running', NEW h \in Handle, NEW m \in Module,
           handle[h] = NULL,
           handle' = [handle EXCEPT ![h] = gpu'[m].ptr],
           m \in Resident',
           \A n \in Resident : gpu'[n].ptr = gpu[n].ptr
    PROVE  Cache!Borrow(h, m)
<1>1. TypeOK /\ StoreInv /\ TypeOK' /\ StoreInv' /\ View /\ View'
  BY ViewStep DEF IInv, Running
<1>2. StoreInstance' \in InstanceOf /\ \A n \in Module : StoreInstance'[n] = gpu'[n].ptr
  BY <1>1 DEF View
<1>3. h \notin Held /\ StoreLoan[h] = NULL
  BY <1>1 DEF View, Held
<1>4. h \in Held' /\ handle'[h] = gpu'[m].ptr
  BY <1>1 DEF Held, Resident, TypeOK
<1>5. StoreLoan'[h] = m
  <2>1. StoreLoan'[h] = handle_to_key'[handle'[h]]
    BY <1>1, <1>4 DEF View
  <2>2. QED BY <1>1, <1>4, <2>1 DEF StoreInv
<1>6. ASSUME NEW g \in Handle \ {h} PROVE StoreLoan'[g] = StoreLoan[g]
  <2>1. handle'[g] = handle[g]
    BY <1>1 DEF TypeOK
  <2>2. CASE g \in Held
    <3>1. /\ StoreLoan[g] \in Resident
          /\ gpu[StoreLoan[g]].ptr = handle[g]
      BY <1>1, <2>2 DEF View
    <3>2. StoreLoan[g] \in Resident' /\ gpu'[StoreLoan[g]].ptr = handle[g]
      BY <3>1 DEF Resident
    <3>3. StoreLoan'[g] = handle_to_key'[handle'[g]]
      BY <1>1, <2>1, <2>2 DEF View, Held
    <3>4. QED BY <1>1, <2>1, <3>2, <3>3 DEF StoreInv
  <2>3. CASE g \notin Held
    <3>1. g \in (Handle \ Held)' /\ g \in Handle \ Held
      BY <2>1, <2>3 DEF Held
    <3>2. QED BY <1>1, <3>1 DEF View
  <2>4. QED BY <2>2, <2>3
<1>7. StoreLoan' = [StoreLoan EXCEPT ![h] = m]
  BY <1>1, <1>5, <1>6 DEF View
<1>8. StoreInstance'[m] # NULL
  BY <1>2 DEF Resident
<1>9. Cache!Pinned(Cache!Borrowed(StoreLoan))
  <2>1. ASSUME NEW g \in Handle, StoreLoan[g] # NULL
        PROVE  StoreInstance'[StoreLoan[g]] = StoreInstance[StoreLoan[g]]
    <3>1. g \in Held
      BY <1>1, <2>1 DEF View
    <3>2. StoreLoan[g] \in Resident
      BY <1>1, <3>1 DEF View
    <3>3. QED BY <1>1, <1>2, <3>2 DEF View, Resident
  <2>2. QED BY <2>1 DEF Cache!Pinned, Cache!Borrowed
<1>10. QED
  BY <1>2, <1>3, <1>7, <1>8, <1>9 DEF Cache!Borrow, InstanceOf

\* A handle that is not touched shows the same loan, if its module stays.
LEMMA LoanKept ==
    ASSUME IInv, IInv', Running, Running', NEW g \in Handle,
           handle'[g] = handle[g],
           g \in Held => gpu'[StoreLoan[g]].ptr = gpu[StoreLoan[g]].ptr
    PROVE  StoreLoan'[g] = StoreLoan[g]
<1>1. StoreInv' /\ View /\ View'
  BY ViewStep DEF IInv, Running
<1>2. CASE g \in Held
  <2>1. StoreLoan[g] \in Resident /\ gpu[StoreLoan[g]].ptr = handle[g]
    BY <1>1, <1>2 DEF View
  <2>2. StoreLoan[g] \in Resident' /\ gpu'[StoreLoan[g]].ptr = handle[g]
    BY <1>2, <2>1 DEF Resident
  <2>3. StoreLoan'[g] = handle_to_key'[handle'[g]]
    BY <1>1, <1>2 DEF View, Held
  <2>4. QED BY <1>1, <2>2, <2>3 DEF StoreInv
<1>3. CASE g \notin Held
  <2>1. g \in (Handle \ Held)' /\ g \in Handle \ Held
    BY <1>3 DEF Held
  <2>2. QED BY <1>1, <2>1 DEF View
<1>4. QED BY <1>2, <1>3

\* Giving a module up returns it: what others hold stays where it is.
LEMMA GivingUpReturns ==
    ASSUME IInv, IInv', Running, Running', NEW h \in Held,
           handle' = [handle EXCEPT ![h] = NULL],
           \A g \in Held \ {h} : gpu'[StoreLoan[g]].ptr = gpu[StoreLoan[g]].ptr
    PROVE  Cache!Return(h)
<1>1. TypeOK /\ StoreInv /\ View /\ View' /\ h \in Handle
  BY ViewStep DEF IInv, Running, Held
<1>2. StoreInstance' \in InstanceOf /\ \A n \in Module : StoreInstance'[n] = gpu'[n].ptr
  BY <1>1 DEF View
<1>3. StoreLoan[h] # NULL
  BY <1>1 DEF View
<1>4. StoreLoan'[h] = NULL
  <2>1. h \in (Handle \ Held)'
    BY <1>1 DEF Held, TypeOK
  <2>2. QED BY <1>1, <2>1 DEF View
<1>5. ASSUME NEW g \in Handle \ {h} PROVE StoreLoan'[g] = StoreLoan[g]
  <2>1. handle'[g] = handle[g]
    BY <1>1 DEF TypeOK
  <2>2. QED BY <2>1, LoanKept
<1>6. StoreLoan' = [StoreLoan EXCEPT ![h] = NULL]
  BY <1>1, <1>4, <1>5 DEF View
<1>7. Cache!Pinned(Cache!Borrowed(StoreLoan'))
  <2>1. ASSUME NEW g \in Handle, StoreLoan'[g] # NULL
        PROVE  StoreInstance'[StoreLoan'[g]] = StoreInstance[StoreLoan'[g]]
    <3>1. g # h /\ StoreLoan'[g] = StoreLoan[g]
      BY <1>4, <1>5, <2>1
    <3>2. g \in Held /\ StoreLoan[g] \in Module
      BY <1>1, <2>1, <3>1 DEF View, Resident
    <3>3. QED BY <1>1, <1>2, <3>1, <3>2 DEF View
  <2>2. QED BY <2>1 DEF Cache!Pinned, Cache!Borrowed
<1>8. QED
  BY <1>2, <1>3, <1>6, <1>7 DEF Cache!Return, InstanceOf

\* The store ends, one way or another: the cache closes.
LEMMA EndingCloses ==
    ASSUME Running, ~ Running' PROVE Cache!Close
<1>1. /\ StoreInstance' = [m \in Module |-> NULL]
      /\ StoreLoan' = [h \in Handle |-> NULL]
  BY DEF StoreInstance, StoreLoan
<1>2. QED BY <1>1 DEF Cache!Close

\* What the cache shows depends on these variables alone.
LEMMA SameView ==
    ASSUME UNCHANGED <<gpu, handle_to_key, handle, proc>>
    PROVE  UNCHANGED <<StoreInstance, StoreLoan, Running>>
BY DEF StoreInstance, StoreLoan, Running

\* Asking for a module borrows it, or is refused with all as it was, or ends the
\* process.
RequireShows(h, m) ==
    \/ Running /\ Running' /\ Cache!Borrow(h, m)
    \/ Running /\ UNCHANGED <<handle, StoreInstance, StoreLoan, Running>>
    \/ Running /\ ~ Running' /\ Cache!Close

LEMMA RequireMaps ==
    ASSUME IInv, IInv', NEW h \in Handle, NEW k \in ModelKey, Require(h, k)
    PROVE  RequireShows(h, Ident(k))
<1> DEFINE m == Ident(k)
<1>1. CASE RequireHit(h, k)
  <2>1. Running /\ Running' /\ m \in Module /\ TypeOK
    BY <1>1, IdentIsModule DEF RequireHit, Running, IInv
  <2>2. /\ gpu'[m].ptr = gpu[m].ptr /\ m \in Resident'
        /\ \A n \in Resident : gpu'[n].ptr = gpu[n].ptr
    BY <1>1, <2>1 DEF RequireHit, TypeOK, Resident
  <2>3. handle[h] = NULL /\ handle' = [handle EXCEPT ![h] = gpu'[m].ptr]
    BY <1>1, <2>2 DEF RequireHit
  <2>4. Cache!Borrow(h, m)
    BY <2>1, <2>2, <2>3, TakingBorrows
  <2>5. QED BY <2>1, <2>4 DEF RequireShows
<1>2. CASE RequireLoad(h, k)
  <2>1. /\ Running /\ Running' /\ m \in Module \ Resident /\ TypeOK /\ handle[h] = NULL
        /\ ~ (EvictsOnMiss /\ Conflict(m))
    BY <1>2, IdentIsModule DEF RequireLoad, MissReached, Running, IInv
  <2>2. GpuOf(Kept(m)) = gpu
    BY <2>1, MissKeepsAll DEF IInv
  <2>3. PICK a \in Addr : /\ gpu' = [gpu EXCEPT ![m] = Entry(a, 1)]
                          /\ handle' = [handle EXCEPT ![h] = a]
    BY <1>2, <2>2 DEF RequireLoad
  <2>4. /\ gpu'[m].ptr = a /\ m \in Resident'
        /\ \A n \in Resident : gpu'[n].ptr = gpu[n].ptr
    BY <2>1, <2>3, StoreAssumption DEF TypeOK, Resident
  <2>5. handle' = [handle EXCEPT ![h] = gpu'[m].ptr]
    BY <2>3, <2>4
  <2>6. Cache!Borrow(h, m)
    BY <2>1, <2>4, <2>5, TakingBorrows
  <2>7. QED BY <2>1, <2>6 DEF RequireShows
<1>3. CASE RequireLoadFails(h, k)
  <2>1. /\ Ident(k) \in Module \ Resident /\ TypeOK /\ StoreInv
        /\ ~ (EvictsOnMiss /\ Conflict(Ident(k)))
    BY <1>3, IdentIsModule DEF RequireLoadFails, MissReached, Running, IInv
  <2>2. /\ GpuOf(Kept(Ident(k))) = gpu
        /\ Unmapped(AddrOf(Resident \ Kept(Ident(k)))) = handle_to_key
    BY <2>1, MissKeepsAll
  <2>3. Running /\ UNCHANGED <<gpu, handle_to_key, handle, proc>>
    BY <1>3, <2>2 DEF RequireLoadFails, MissReached, Running
  <2>4. QED BY <2>3, SameView DEF RequireShows
<1>4. CASE RequireExits(h, k) \/ RequireAborts(h, k)
  <2>1. Running /\ ~ Running'
    BY <1>4 DEF RequireExits, RequireAborts, MissReached, Running
  <2>2. QED BY <2>1, EndingCloses DEF RequireShows
<1>5. QED BY <1>1, <1>2, <1>3, <1>4 DEF Require

LEMMA ReleaseMaps ==
    ASSUME IInv, IInv', NEW h \in Handle, Release(h)
    PROVE  Running /\ Running' /\ Cache!Return(h)
<1>1. /\ Running /\ Running' /\ h \in Held /\ TypeOK /\ StoreInv /\ View
      /\ handle' = [handle EXCEPT ![h] = NULL]
  BY ViewRunning DEF Release, Running, IInv, Held
<1>2. StoreLoan[h] \in Resident /\ StoreLoan[h] = handle_to_key[handle[h]]
  BY <1>1 DEF View
<1>3. ReleaseEntry(handle[h], StoreLoan[h])
  BY <1>2 DEF Release
<1>4. ASSUME NEW g \in Held \ {h}
      PROVE  gpu'[StoreLoan[g]].ptr = gpu[StoreLoan[g]].ptr
  <2>1. StoreLoan[g] \in Resident /\ gpu[StoreLoan[g]].ptr = handle[g]
    BY <1>1 DEF View
  <2>2. CASE StoreLoan[g] # StoreLoan[h]
    BY <1>1, <1>2, <1>3, <2>1, <2>2 DEF ReleaseEntry, TypeOK, Resident
  <2>3. CASE StoreLoan[g] = StoreLoan[h] /\ ~ (gpu[StoreLoan[h]].refcount = 1 /\ UnloadsAtZero)
    BY <1>1, <1>2, <1>3, <2>1, <2>3 DEF ReleaseEntry, TypeOK, Resident
  <2>4. CASE StoreLoan[g] = StoreLoan[h] /\ gpu[StoreLoan[h]].refcount = 1
    \* Two holders, one count: excluded by the invariant.
    <3> DEFINE a == handle[h]
               f == [handle EXCEPT ![h] = NULL]
    <3>1. handle[g] = a /\ a \in Addr /\ g \in Handle /\ h \in Handle /\ f[g] = a
      BY <1>1, <2>1, <2>4 DEF View, Held, TypeOK
    <3>2. Count(handle, a) = 1
      BY <1>1, <1>2, <2>1, <2>4, <3>1 DEF StoreInv
    <3>3. Count(f, a) = Count(handle, a) - 1
      BY <1>1, <3>1, CountDropped DEF TypeOK
    <3>4. Count(f, a) # 0
      BY <3>1, CountType
    <3>5. QED BY <3>2, <3>3, <3>4
  <2>5. QED BY <2>2, <2>3, <2>4
<1>5. Cache!Return(h)
  BY <1>1, <1>4, GivingUpReturns
<1>6. QED BY <1>1, <1>5

LEMMA StepMaps ==
    ASSUME IInv, IInv', [Next]_vars
    PROVE  [Cache!CacheNext]_(Cache!cacheVars)
<1>1. ASSUME NEW h \in Handle, NEW k \in ModelKey, Require(h, k)
      PROVE  [Cache!CacheNext]_(Cache!cacheVars)
  BY <1>1, RequireMaps, IdentIsModule DEF RequireShows, Cache!CacheNext, Cache!cacheVars
<1>2. ASSUME NEW h \in Handle, Release(h)
      PROVE  [Cache!CacheNext]_(Cache!cacheVars)
  BY <1>2, ReleaseMaps DEF Cache!CacheNext
<1>3. ASSUME NEW h \in Handle, NEW g \in Handle, MoveHandle(h, g)
      PROVE  [Cache!CacheNext]_(Cache!cacheVars)
  <2>1. /\ Running /\ Running' /\ h \in Held /\ g \notin Held /\ h # g
        /\ UNCHANGED <<gpu, handle_to_key, proc>> /\ TypeOK /\ View /\ View'
    BY <1>3, ViewStep DEF MoveHandle, Running, IInv, Held
  <2>2. /\ handle'[g] = handle[h] /\ handle'[h] = NULL /\ handle[g] = NULL
        /\ \A i \in Handle \ {g, h} : handle'[i] = handle[i]
    BY <1>3, <2>1 DEF MoveHandle, TypeOK
  <2>3. StoreLoan[h] # NULL /\ StoreLoan[g] = NULL
    BY <2>1 DEF View, Held
  <2>4. StoreLoan'[g] = StoreLoan[h]
    <3>1. g \in Held' /\ handle[h] # NULL
      BY <2>1, <2>2 DEF Held
    <3>2. StoreLoan'[g] = handle_to_key'[handle'[g]] /\ StoreLoan[h] = handle_to_key[handle[h]]
      BY <2>1, <3>1 DEF View
    <3>3. QED BY <2>1, <2>2, <3>2
  <2>5. StoreLoan'[h] = NULL
    <3>1. h \in (Handle \ Held)'
      BY <2>1, <2>2 DEF Held
    <3>2. QED BY <2>1, <3>1 DEF View
  <2>6. \A i \in Handle \ {g, h} : StoreLoan'[i] = StoreLoan[i]
    BY <2>1, <2>2, LoanKept
  <2>7. StoreLoan' = [StoreLoan EXCEPT ![h] = NULL, ![g] = StoreLoan[h]]
    BY <2>1, <2>4, <2>5, <2>6 DEF View
  <2>8. UNCHANGED StoreInstance
    BY <2>1 DEF StoreInstance
  <2>9. Cache!HandOver(h, g)
    BY <2>1, <2>3, <2>7, <2>8 DEF Cache!HandOver
  <2>10. QED BY <2>9 DEF Cache!CacheNext
<1>4. CASE \/ \E t \in CpuTable : \E p \in CpuPath : CpuLoad(t, p)
           \/ \E p \in CpuPath : FsmLoad(p)
           \/ UNCHANGED vars
  <2>1. UNCHANGED <<gpu, handle_to_key, handle, proc>>
    BY <1>4 DEF CpuLoad, FsmLoad, vars
  <2>2. QED BY <2>1, SameView DEF Cache!cacheVars
<1>5. CASE StoreFree
  <2>1. Running /\ ~ Running'
    BY <1>5 DEF StoreFree, Running
  <2>2. QED BY <2>1, EndingCloses DEF Cache!CacheNext
<1>6. QED BY <1>1, <1>2, <1>3, <1>4, <1>5 DEF Next

\* The store is the cache its callers rely on: whoever borrowed a module finds
\* it at the address it was given, until the last of its borrowers returns it.
THEOREM StoreImplementsCache == Spec => ImplementsCache
<1>1. IInv /\ IInv' /\ [Next]_vars => [Cache!CacheNext]_(Cache!cacheVars)
  BY StepMaps
<1>2. QED BY <1>1, InitMaps, Invariance, PTL DEF Spec, ImplementsCache, Cache!CacheSpec

-----------------------------------------------------------------------------
(***************************************************************************)
(* Pipelines.                                                              *)
(***************************************************************************)

-----------------------------------------------------------------------------
(***************************************************************************)
(* Nested programs                                                         *)
(***************************************************************************)
StepKind == ModuleKind \cup CpuTable \cup {"none"}
Steps ==
    [do : {"scope", "pin", "unpin", "table", "check", "refuse"}, kind : StepKind,
     null : {"next", "skip", "stop"}, fail : {"next", "skip", "stop", "never"}]

Pinnable == ModuleKind \cup {"none"}

\* What is pinned before and after step s.
Nests(s, before, after) ==
    /\ s.do = "scope" => s.kind \in ModuleKind /\ before \in {"none", s.kind} /\ after = before
    /\ s.do = "pin" => s.kind \in ModuleKind /\ before = "none" /\ after = s.kind /\ s.null = "stop"
    /\ s.do = "unpin" => after = "none"
    /\ s.do \in {"table", "check", "refuse"} => after = before

Skips(s) == "skip" \in {s.null, s.fail}

\* pin[i] is what is pinned when step i of p is reached: x before, y after.
Nested(p, pin, x, y) ==
    /\ p \in Seq(Steps) /\ pin \in [1 .. (Len(p) + 1) -> Pinnable]
    /\ pin[1] = x /\ pin[Len(p) + 1] = y
    /\ \A i \in 1 .. Len(p) :
          /\ Nests(p[i], pin[i], pin[i + 1])
          /\ Skips(p[i]) => i < Len(p) /\ pin[i + 2] = pin[i]

Runs(p, x, y) == \E pin : Nested(p, pin, x, y)

LEMMA NoneIsNoModule == "none" \notin ModuleKind /\ "none" \in Pinnable
BY DEF ModuleKind, Pinnable

LEMMA ConcatRuns ==
    ASSUME NEW p, NEW q, NEW x, NEW y, NEW z, Runs(p, x, y), Runs(q, y, z)
    PROVE  Runs(p \o q, x, z)
<1>1. PICK u : Nested(p, u, x, y)
  BY DEF Runs
<1>2. PICK v : Nested(q, v, y, z)
  BY DEF Runs
<1> DEFINE m == Len(p)
           n == Len(q)
           r == p \o q
           w == [i \in 1 .. (m + n + 1) |-> IF i <= m THEN u[i] ELSE v[i - m]]
<1>3. p \in Seq(Steps) /\ q \in Seq(Steps) /\ m \in Nat /\ n \in Nat
  BY <1>1, <1>2 DEF Nested
<1>4. /\ r \in Seq(Steps) /\ Len(r) = m + n
      /\ \A i \in 1 .. (m + n) : r[i] = IF i <= m THEN p[i] ELSE q[i - m]
  BY <1>3, ConcatProperties
<1> HIDE DEF r, m, n
<1>5. \A i \in 1 .. (m + 1) : w[i] = u[i]
  <2>1. \A i \in 1 .. m : w[i] = u[i]
    BY <1>3
  <2>2. w[m + 1] = v[1]
    BY <1>3
  <2>3. u[m + 1] = v[1]
    BY <1>1, <1>2 DEF Nested, m
  <2>4. \A i \in 1 .. (m + 1) : i \in 1 .. m \/ i = m + 1
    BY <1>3
  <2>5. QED BY <2>1, <2>2, <2>3, <2>4
<1>6. \A i \in 1 .. (n + 1) : w[m + i] = v[i]
  BY <1>3
<1>7. w \in [1 .. (m + n + 1) -> Pinnable]
  <2>1. u \in [1 .. (m + 1) -> Pinnable] /\ v \in [1 .. (n + 1) -> Pinnable]
    BY <1>1, <1>2 DEF Nested, m, n
  <2>2. \A i \in 1 .. (m + n + 1) :
           /\ i <= m => i \in 1 .. (m + 1)
           /\ ~(i <= m) => i - m \in 1 .. (n + 1)
    BY <1>3
  <2>3. QED BY <2>1, <2>2
<1> HIDE DEF w
<1>8. w[1] = x /\ w[m + n + 1] = z
  <2>1. u[1] = x /\ v[n + 1] = z
    BY <1>1, <1>2 DEF Nested, n
  <2>2. 1 \in 1 .. (m + 1) /\ n + 1 \in 1 .. (n + 1) /\ m + (n + 1) = m + n + 1
    BY <1>3
  <2>3. QED BY <1>5, <1>6, <2>1, <2>2
<1>9. ASSUME NEW i \in 1 .. (m + n)
      PROVE  /\ Nests(r[i], w[i], w[i + 1])
             /\ Skips(r[i]) => i < m + n /\ w[i + 2] = w[i]
  <2>1. CASE i <= m
    <3>1. /\ r[i] = p[i] /\ i \in 1 .. m /\ i \in 1 .. (m + 1) /\ i + 1 \in 1 .. (m + 1)
          /\ i < m => i + 2 \in 1 .. (m + 1) /\ i < m + n
      BY <1>3, <1>4, <2>1
    <3>2. /\ Nests(p[i], u[i], u[i + 1])
          /\ Skips(p[i]) => i < m /\ u[i + 2] = u[i]
      BY <1>1, <3>1 DEF Nested, m
    <3>3. QED BY <1>5, <3>1, <3>2
  <2>2. CASE ~(i <= m)
    <3> DEFINE j == i - m
    <3>1. /\ r[i] = q[j] /\ j \in 1 .. n /\ j \in 1 .. (n + 1) /\ j + 1 \in 1 .. (n + 1)
          /\ m + j = i /\ m + (j + 1) = i + 1 /\ m + (j + 2) = i + 2
          /\ j < n => j + 2 \in 1 .. (n + 1) /\ i < m + n
      BY <1>3, <1>4, <2>2
    <3> HIDE DEF j
    <3>2. /\ Nests(q[j], v[j], v[j + 1])
          /\ Skips(q[j]) => j < n /\ v[j + 2] = v[j]
      BY <1>2, <3>1 DEF Nested, n
    <3>3. w[i] = v[j] /\ w[i + 1] = v[j + 1] /\ (j < n => w[i + 2] = v[j + 2])
      BY <1>6, <3>1
    <3>4. QED BY <3>1, <3>2, <3>3
  <2>3. QED BY <2>1, <2>2
<1>10. Nested(r, w, x, z)
  BY <1>4, <1>7, <1>8, <1>9 DEF Nested
<1>11. QED BY <1>10 DEF Runs, r

LEMMA OneStepRuns ==
    ASSUME NEW s \in Steps, NEW x \in Pinnable, NEW y \in Pinnable, Nests(s, x, y), ~ Skips(s)
    PROVE  Runs(<<s>>, x, y)
<1> DEFINE w == [i \in 1 .. 2 |-> IF i = 1 THEN x ELSE y]
<1>1. Nested(<<s>>, w, x, y)
  <2>1. <<s>> \in Seq(Steps) /\ Len(<<s>>) = 1 /\ \A i \in 1 .. 1 : <<s>>[i] = s /\ i = 1
    OBVIOUS
  <2>2. w \in [1 .. 2 -> Pinnable] /\ w[1] = x /\ w[2] = y
    OBVIOUS
  <2> HIDE DEF w
  <2>3. QED BY <2>1, <2>2 DEF Nested
<1>2. QED BY <1>1 DEF Runs

LEMMA NothingRuns ==
    ASSUME NEW x \in Pinnable
    PROVE  Runs(<<>>, x, x)
<1> DEFINE w == [i \in 1 .. 1 |-> x]
<1>1. Nested(<<>>, w, x, x)
  <2>1. <<>> \in Seq(Steps) /\ Len(<<>>) = 0 /\ 1 .. 0 = {}
    OBVIOUS
  <2>2. w \in [1 .. 1 -> Pinnable] /\ w[1] = x
    OBVIOUS
  <2> HIDE DEF w
  <2>3. QED BY <2>1, <2>2 DEF Nested
<1>2. QED BY <1>1 DEF Runs

LEMMA IfRuns ==
    ASSUME NEW c, NEW p, NEW x \in Pinnable, Runs(p, x, x)
    PROVE  Runs(If(c, p), x, x)
BY NothingRuns DEF If

\* A scope whose failure skips the one after it.
LEMMA FsqRuns == Runs(FsqRoundtrip, "none", "none")
<1> DEFINE s == Step("scope", "FSQ_TOK", "skip", "skip")
           t == Step("scope", "FSQ_DETOK", "next", "next")
           w == [i \in 1 .. 3 |-> "none"]
<1>1. /\ s \in Steps /\ t \in Steps /\ s.do = "scope" /\ t.do = "scope" /\ ~Skips(t)
      /\ s.kind \in ModuleKind /\ t.kind \in ModuleKind
  BY DEF Step, Steps, StepKind, ModuleKind, Skips
<1>2. FsqRoundtrip = <<s>> \o <<t>>
  BY DEF FsqRoundtrip, Scope
<1> HIDE DEF s, t
<1> DEFINE r == <<s>> \o <<t>>
<1>3. /\ <<s>> \in Seq(Steps) /\ <<t>> \in Seq(Steps)
      /\ Len(<<s>>) = 1 /\ Len(<<t>>) = 1 /\ <<s>>[1] = s /\ <<t>>[1] = t
  BY <1>1
<1>4. r \in Seq(Steps) /\ Len(r) = 2 /\ r[1] = s /\ r[2] = t
  <2>1. /\ r \in Seq(Steps) /\ Len(r) = 1 + 1
        /\ \A i \in 1 .. (1 + 1) : r[i] = IF i <= 1 THEN <<s>>[i] ELSE <<t>>[i - 1]
    BY <1>3, ConcatProperties
  <2>2. QED BY <1>3, <2>1
<1> HIDE DEF r
<1>5. /\ w \in [1 .. 3 -> Pinnable] /\ \A i \in 1 .. 3 : w[i] = "none"
  BY NoneIsNoModule
<1>6. Nests(s, "none", "none") /\ Nests(t, "none", "none")
  BY <1>1 DEF Nests
<1> HIDE DEF w
<1>7. Nested(r, w, "none", "none")
  BY <1>1, <1>4, <1>5, <1>6 DEF Nested
<1>8. QED BY <1>2, <1>7 DEF Runs, r

-----------------------------------------------------------------------------
(***************************************************************************)
(* The programs of Pipelines are nested                                    *)
(***************************************************************************)
LEMMA ScopeRuns ==
    ASSUME NEW k \in ModuleKind, NEW x \in {"none", k},
           NEW null \in {"next", "stop"}, NEW fail \in {"next", "stop", "never"}
    PROVE  Runs(Scope(k, null, fail), x, x)
<1> DEFINE s == Step("scope", k, null, fail)
<1>1. s \in Steps /\ ~ Skips(s) /\ Nests(s, x, x) /\ x \in Pinnable
  BY NoneIsNoModule DEF Step, Steps, StepKind, Skips, Nests, Pinnable
<1>2. Scope(k, null, fail) = <<s>>
  BY DEF Scope
<1> HIDE DEF s
<1>3. QED BY <1>1, <1>2, OneStepRuns

LEMMA PinRuns ==
    ASSUME NEW k \in ModuleKind
    PROVE  Runs(Pin(k), "none", k) /\ Runs(Unpin, k, "none") /\ k \in Pinnable
<1> DEFINE s == Step("pin", k, "stop", "never")
           t == Step("unpin", "none", "stop", "never")
<1>1. s \in Steps /\ ~ Skips(s) /\ Nests(s, "none", k) /\ k \in Pinnable /\ "none" \in Pinnable
  BY NoneIsNoModule DEF Step, Steps, StepKind, Skips, Nests, Pinnable
<1>2. t \in Steps /\ ~ Skips(t) /\ Nests(t, k, "none")
  BY DEF Step, Steps, StepKind, Skips, Nests
<1>3. Pin(k) = <<s>> /\ Unpin = <<t>>
  BY DEF Pin, Unpin
<1> HIDE DEF s, t
<1>4. QED BY <1>1, <1>2, <1>3, OneStepRuns

LEMMA TableRuns ==
    ASSUME NEW t \in CpuTable, NEW x \in Pinnable
    PROVE  Runs(Table(t), x, x)
<1> DEFINE s == Step("table", t, "stop", "never")
<1>1. s \in Steps /\ ~ Skips(s) /\ Nests(s, x, x)
  BY DEF Step, Steps, StepKind, Skips, Nests
<1>2. Table(t) = <<s>>
  BY DEF Table
<1> HIDE DEF s
<1>3. QED BY <1>1, <1>2, OneStepRuns

LEMMA CheckRuns ==
    ASSUME NEW x \in Pinnable
    PROVE  Runs(Check, x, x)
<1> DEFINE s == Step("check", "none", "stop", "stop")
<1>1. s \in Steps /\ ~ Skips(s) /\ Nests(s, x, x)
  BY DEF Step, Steps, StepKind, Skips, Nests
<1>2. Check = <<s>>
  BY DEF Check
<1> HIDE DEF s
<1>3. QED BY <1>1, <1>2, OneStepRuns

Refusal == <<Step("refuse", "none", "stop", "stop")>>

LEMMA RefusalRuns == Runs(Refusal, "none", "none")
<1> DEFINE s == Step("refuse", "none", "stop", "stop")
<1>1. s \in Steps /\ ~ Skips(s) /\ Nests(s, "none", "none") /\ "none" \in Pinnable
  BY NoneIsNoModule DEF Step, Steps, StepKind, Skips, Nests
<1>2. Refusal = <<s>>
  BY DEF Refusal
<1> HIDE DEF s
<1>3. QED BY <1>1, <1>2, OneStepRuns

\* A program as a job starts it: nothing pinned before it nor after it.
Balanced(p) == Runs(p, "none", "none")

LEMMA ConcatBalanced ==
    ASSUME NEW p, NEW q, Balanced(p), Balanced(q)
    PROVE  Balanced(p \o q)
BY ConcatRuns DEF Balanced

LEMMA IfBalanced ==
    ASSUME NEW c, NEW p, Balanced(p)
    PROVE  Balanced(If(c, p))
BY IfRuns, NoneIsNoModule DEF Balanced

LEMMA PartsBalanced ==
    /\ \A k \in ModuleKind : \A null \in {"next", "stop"}, fail \in {"next", "stop", "never"} :
          Balanced(Scope(k, null, fail))
    /\ \A t \in CpuTable : Balanced(Table(t))
    /\ Balanced(Check) /\ Balanced(Refusal) /\ Balanced(FsqRoundtrip) /\ Balanced(<<>>)
BY ScopeRuns, TableRuns, CheckRuns, RefusalRuns, FsqRuns, NothingRuns, NoneIsNoModule DEF Balanced

LEMMA EncodeTextOK == Balanced(EncodeText)
<1>1. Balanced(Table("bpe"))
  BY PartsBalanced DEF CpuTable
<1>2. Balanced(Scope("TEXT_ENC", "stop", "never")) /\ Balanced(Scope("COND_ENC", "stop", "never"))
  BY PartsBalanced DEF ModuleKind
<1>3. QED BY <1>1, <1>2, ConcatBalanced DEF EncodeText

\* The encoder is pinned for both sides or not at all.
LEMMA EncodeBothOK ==
    ASSUME NEW j
    PROVE  Balanced(EncodeSrcAndTimbre(j))
<1> DEFINE k == "VAE_ENC"
           src == If(SrcOf(j) = "audio", Scope("VAE_ENC", "stop", "stop"))
           ref == If(j.ref = "audio", Scope("VAE_ENC", "next", "next"))
<1>1. EncodeSrcAndTimbre(j) =
        If(NeedVaePin(j), Pin(k)) \o src \o ref \o If(NeedVaePin(j), Unpin)
  BY DEF EncodeSrcAndTimbre
<1>2. Runs(src, k, k) /\ Runs(ref, k, k)
  <2>1. k \in ModuleKind /\ k \in Pinnable
    BY DEF ModuleKind, Pinnable
  <2>2. Runs(Scope(k, "stop", "stop"), k, k) /\ Runs(Scope(k, "next", "next"), k, k)
    BY <2>1, ScopeRuns
  <2>3. QED BY <2>1, <2>2, IfRuns
<1>3. CASE NeedVaePin(j)
  <2>1. EncodeSrcAndTimbre(j) = Pin(k) \o src \o ref \o Unpin
    BY <1>1, <1>3 DEF If
  <2>2. Runs(Pin(k), "none", k) /\ Runs(Unpin, k, "none")
    BY PinRuns DEF ModuleKind
  <2> HIDE DEF src, ref, k
  <2>3. Runs(Pin(k) \o src, "none", k)
    BY <1>2, <2>2, ConcatRuns
  <2>4. Runs(Pin(k) \o src \o ref, "none", k)
    BY <1>2, <2>3, ConcatRuns
  <2>5. QED BY <2>1, <2>2, <2>4, ConcatRuns DEF Balanced
<1>4. CASE ~NeedVaePin(j)
  <2>1. SrcOf(j) # "audio" /\ j.ref # "audio"
    BY <1>4 DEF NeedVaePin
  <2>2. EncodeSrcAndTimbre(j) = <<>> \o <<>> \o <<>> \o <<>>
    BY <1>1, <1>4, <2>1 DEF If
  <2>3. QED BY <2>2, PartsBalanced, ConcatBalanced
<1>5. QED BY <1>3, <1>4

LEMMA RunTailOK ==
    ASSUME NEW j
    PROVE  Balanced(RunTail(j))
<1>1. Balanced(Scope("FSQ_DETOK", "stop", "stop")) /\ Balanced(Scope("DIT", "stop", "stop"))
  BY PartsBalanced DEF ModuleKind
<1>2. Balanced(If(DecodesCodes(j), Scope("FSQ_DETOK", "stop", "stop")))
  BY <1>1, IfBalanced
<1>3. Balanced(Check \o EncodeText)
  BY PartsBalanced, EncodeTextOK, ConcatBalanced
<1>4. Balanced((Check \o EncodeText) \o If(DecodesCodes(j), Scope("FSQ_DETOK", "stop", "stop")))
  BY <1>2, <1>3, ConcatBalanced
<1>5. QED BY <1>1, <1>4, ConcatBalanced DEF RunTail

LEMMA DitProgramOK ==
    ASSUME NEW j
    PROVE  Balanced(DitProgram(j))
<1> DEFINE a == If(Refuses(j), Refusal)
           b == EncodeSrcAndTimbre(j)
           c == If(j.task = "cover", FsqRoundtrip)
           d == If(j.task = "repaint", Check)
           e == RunTail(j)
<1>1. /\ Balanced(a) /\ Balanced(b) /\ Balanced(c) /\ Balanced(d) /\ Balanced(e)
  BY PartsBalanced, EncodeBothOK, RunTailOK, IfBalanced
<1>2. DitProgram(j) = a \o b \o c \o d \o e
  BY DEF DitProgram, Refusal
<1> HIDE DEF a, b, c, d, e
<1>3. Balanced(a \o b)
  BY <1>1, ConcatBalanced
<1>4. Balanced(a \o b \o c)
  BY <1>1, <1>3, ConcatBalanced
<1>5. Balanced(a \o b \o c \o d)
  BY <1>1, <1>4, ConcatBalanced
<1>6. QED BY <1>1, <1>2, <1>5, ConcatBalanced

LEMMA LmProgramOK == Balanced(LmProgram)
<1> DEFINE k == "LM"
           a == Table("bpe")
           b == Table("fsm")
<1>1. Runs(Pin(k), "none", k) /\ Runs(Unpin, k, "none") /\ k \in Pinnable
  BY PinRuns DEF ModuleKind
<1>2. Runs(a, k, k) /\ Runs(b, k, k) /\ Runs(Check, k, k)
  BY <1>1, TableRuns, CheckRuns DEF CpuTable
<1>3. LmProgram = Pin(k) \o a \o b \o Check \o Unpin
  BY DEF LmProgram
<1> HIDE DEF a, b, k
<1>4. Runs(Pin(k) \o a, "none", k)
  BY <1>1, <1>2, ConcatRuns
<1>5. Runs(Pin(k) \o a \o b, "none", k)
  BY <1>2, <1>4, ConcatRuns
<1>6. Runs(Pin(k) \o a \o b \o Check, "none", k)
  BY <1>2, <1>5, ConcatRuns
<1>7. QED BY <1>1, <1>3, <1>6, ConcatRuns DEF Balanced

LEMMA UnderstandProgramOK ==
    ASSUME NEW j
    PROVE  Balanced(UnderstandProgram(j))
<1> DEFINE a == If(j.src = "none", Refusal)
           b == If(j.src = "audio", Scope("VAE_ENC", "stop", "stop"))
           c == Table("silence")
           d == Scope("FSQ_TOK", "stop", "stop")
<1>1. Balanced(a) /\ Balanced(b) /\ Balanced(c) /\ Balanced(d) /\ Balanced(LmProgram)
  <2>1. Balanced(Scope("VAE_ENC", "stop", "stop")) /\ Balanced(d)
    BY PartsBalanced DEF ModuleKind
  <2>2. Balanced(c)
    BY PartsBalanced DEF CpuTable
  <2>3. QED BY <2>1, <2>2, PartsBalanced, IfBalanced, LmProgramOK
<1>2. UnderstandProgram(j) = a \o b \o c \o d \o LmProgram
  BY DEF UnderstandProgram, Refusal
<1> HIDE DEF a, b, c, d
<1>3. Balanced(a \o b)
  BY <1>1, ConcatBalanced
<1>4. Balanced(a \o b \o c)
  BY <1>1, <1>3, ConcatBalanced
<1>5. Balanced(a \o b \o c \o d)
  BY <1>1, <1>4, ConcatBalanced
<1>6. QED BY <1>1, <1>2, <1>5, ConcatBalanced

Synths ==
    [op : {"synth"}, src : Input, ref : Input, codes : BOOLEAN, groups : Groups,
     task : {"text2music", "cover", "cover-nofsq", "repaint"}]

LEMMA JobFacts ==
    ASSUME NEW j \in Jobs
    PROVE  /\ j.op \in {"synth", "lm", "encode", "decode", "understand"}
           /\ j.op = "synth" => j \in Synths /\ j.groups \in Groups /\ j.groups \in Nat \ {0}
BY PipelineAssumption DEF Jobs, Synths

\* Whatever the job and however far it is.
LEMMA ProgramsAreNested ==
    ASSUME job \in Jobs, phase \in {"load", "dit", "vae"}
    PROVE  Balanced(Program)
<1>1. job.op \in {"synth", "lm", "encode", "decode", "understand"}
  BY JobFacts
<1>2. CASE job.op = "synth" /\ phase = "load"
  <2>1. Program = Check \o Table("dit_meta")
    BY <1>2 DEF Program
  <2>2. QED BY <2>1, PartsBalanced, ConcatBalanced DEF CpuTable
<1>3. CASE job.op = "synth" /\ phase = "dit"
  <2>1. Program = DitProgram(job)
    BY <1>3 DEF Program
  <2>2. QED BY <2>1, DitProgramOK
<1>4. CASE job.op = "synth" /\ phase = "vae"
  <2>1. Program = Scope("VAE_DEC", "stop", "stop")
    BY <1>4 DEF Program, VaeProgram
  <2>2. QED BY <2>1, PartsBalanced DEF ModuleKind
<1>5. CASE job.op = "lm"
  <2>1. Program = Check \o LmProgram
    BY <1>5 DEF Program
  <2>2. QED BY <2>1, PartsBalanced, LmProgramOK, ConcatBalanced
<1>6. CASE job.op = "understand"
  <2>1. Program = Check \o UnderstandProgram(job)
    BY <1>6 DEF Program
  <2>2. QED BY <2>1, PartsBalanced, UnderstandProgramOK, ConcatBalanced
<1>7. CASE job.op = "encode"
  <2>1. Program = Check \o Scope("VAE_ENC", "stop", "stop")
    BY <1>7 DEF Program
  <2>2. Balanced(Scope("VAE_ENC", "stop", "stop"))
    BY PartsBalanced DEF ModuleKind
  <2>3. QED BY <2>1, <2>2, PartsBalanced, ConcatBalanced
<1>8. CASE job.op = "decode"
  <2>1. Program = Check \o Scope("VAE_DEC", "stop", "stop")
    BY <1>8 DEF Program
  <2>2. Balanced(Scope("VAE_DEC", "stop", "stop"))
    BY PartsBalanced DEF ModuleKind
  <2>3. QED BY <2>1, <2>2, PartsBalanced, ConcatBalanced
<1>9. QED BY <1>1, <1>2, <1>3, <1>4, <1>5, <1>6, <1>7, <1>8

\* A job that is refused is refused first.
LEMMA RefusedFirst ==
    ASSUME NEW j, Refuses(j)
    PROVE  Len(DitProgram(j)) >= 1 /\ DitProgram(j)[1].do = "refuse"
<1> DEFINE s == Step("refuse", "none", "stop", "stop")
           b == EncodeSrcAndTimbre(j)
           c == If(j.task = "cover", FsqRoundtrip)
           d == If(j.task = "repaint", Check)
           e == RunTail(j)
<1>1. s \in Steps /\ s.do = "refuse"
  BY DEF Step, Steps, StepKind
<1>2. DitProgram(j) = <<s>> \o b \o c \o d \o e
  BY DEF DitProgram, If
<1>3. b \in Seq(Steps) /\ c \in Seq(Steps) /\ d \in Seq(Steps) /\ e \in Seq(Steps)
  <2>1. Balanced(b) /\ Balanced(c) /\ Balanced(d) /\ Balanced(e)
    BY EncodeBothOK, PartsBalanced, RunTailOK, IfBalanced
  <2>2. QED BY <2>1 DEF Balanced, Runs, Nested
<1> HIDE DEF s, b, c, d, e
<1>4. <<s>> \in Seq(Steps) /\ Len(<<s>>) = 1 /\ <<s>>[1] = s
  BY <1>1
<1>5. \A p, q \in Seq(Steps) : Len(p) >= 1 /\ p[1] = s =>
         p \o q \in Seq(Steps) /\ Len(p \o q) >= 1 /\ (p \o q)[1] = s
  <2> SUFFICES ASSUME NEW p \in Seq(Steps), NEW q \in Seq(Steps), Len(p) >= 1, p[1] = s
               PROVE  p \o q \in Seq(Steps) /\ Len(p \o q) >= 1 /\ (p \o q)[1] = s
    OBVIOUS
  <2>1. /\ p \o q \in Seq(Steps) /\ Len(p \o q) = Len(p) + Len(q)
        /\ \A i \in 1 .. (Len(p) + Len(q)) : (p \o q)[i] = IF i <= Len(p) THEN p[i] ELSE q[i - Len(p)]
    BY ConcatProperties
  <2>2. QED BY <2>1
<1>6. <<s>> \o b \in Seq(Steps) /\ Len(<<s>> \o b) >= 1 /\ (<<s>> \o b)[1] = s
  BY <1>3, <1>4, <1>5
<1>7. <<s>> \o b \o c \in Seq(Steps) /\ Len(<<s>> \o b \o c) >= 1 /\ (<<s>> \o b \o c)[1] = s
  BY <1>3, <1>5, <1>6
<1>8. <<s>> \o b \o c \o d \in Seq(Steps) /\ Len(<<s>> \o b \o c \o d) >= 1
      /\ (<<s>> \o b \o c \o d)[1] = s
  BY <1>3, <1>5, <1>7
<1>9. Len(<<s>> \o b \o c \o d \o e) >= 1 /\ (<<s>> \o b \o c \o d \o e)[1] = s
  BY <1>3, <1>5, <1>8
<1>10. QED BY <1>1, <1>2, <1>9

-----------------------------------------------------------------------------
(***************************************************************************)
(* The inductive invariant                                                 *)
(***************************************************************************)
\* What is pinned where step i of a nested program is reached.
PinnedAt(p, i) == (CHOOSE pin : Nested(p, pin, "none", "none"))[i]

\* The module a pin of that kind holds.
PinnedModule(kind) == IF kind = "none" THEN NULL ELSE Ident(KeyOf(kind))

PipeShape ==
    /\ job = NULL \/ job \in Jobs
    /\ phase \in {"load", "dit", "vae"}
    /\ at \in Nat /\ group \in Nat
    /\ job # NULL => at <= Len(Program) + 1
    /\ jobs \cup slots \subseteq UNION {1 .. n : n \in Groups}

\* What the runner owns: in phase 1 the jobs of the groups begun, none if
\* each is refused at its first step; in phase 2 those not decoded yet.
RunnerInv ==
    /\ job = NULL => jobs = {}
    /\ job # NULL /\ job.op # "synth" => phase = "load"
    /\ job # NULL /\ phase = "load" => jobs = {} /\ slots = {} /\ group = 1
    /\ job # NULL /\ job.op = "synth" => group \in 1 .. job.groups
    /\ job # NULL /\ phase = "dit" =>
          /\ jobs = (IF Refuses(job) THEN {} ELSE 1 .. group) /\ slots = {}
          /\ Refuses(job) => at \in {0, 1}
    /\ job # NULL /\ phase = "vae" =>
          ~ Refuses(job) /\ jobs = group .. job.groups /\ slots = 1 .. (group - 1)

\* The outer handle holds what the text says is pinned, the inner one holds
\* within a scope only; an unwinding has dropped the inner one already.
HoldInv ==
    Running =>
        /\ job = NULL => StoreLoan[outer] = NULL /\ StoreLoan[inner] = NULL
        /\ job # NULL /\ at = 0 => StoreLoan[inner] = NULL
        /\ job # NULL /\ at > 0 =>
              /\ StoreLoan[outer] = PinnedModule(PinnedAt(Program, at))
              /\ StoreLoan[inner] # NULL => at <= Len(Program) /\ Program[at].do = "scope"

PInv == IInv /\ NeverAborts /\ PipeShape /\ RunnerInv /\ HoldInv

-----------------------------------------------------------------------------
(***************************************************************************)
(* What the calls of the store do to the two handles                       *)
(***************************************************************************)
LoansShowHandles ==
    /\ StoreLoan \in [Handle -> Module \cup {NULL}]
    /\ \A h \in Handle : handle[h] = NULL <=> StoreLoan[h] = NULL

LEMMA LoansShown == IInv /\ Running => LoansShowHandles
BY LoanOfHeld DEF LoansShowHandles

LEMMA LoansShownAfter == IInv' /\ Running' => LoansShowHandles'
BY LoansShown, PTL

LEMMA KeyOfKind == \A kind \in ModuleKind : KeyOf(kind) \in ModelKey
BY PipelineAssumption DEF KeyOf

\* A require that finds no other module on loan does not abort.
LEMMA NoOverlapNoAbort ==
    ASSUME IInv, NEW h \in Handle, NEW k \in ModelKey, Require(h, k),
           StoreLoan[outer] \in {NULL, Ident(k)}, StoreLoan[inner] \in {NULL, Ident(k)}
    PROVE  proc' # "aborted"
<1>1. Running
  BY DEF Running, Require, RequireHit, RequireLoad, RequireLoadFails, RequireExits, RequireAborts,
         MissReached
<1>2. ~ Conflict(Ident(k))
  BY <1>1, ConflictIsLent, PipelineAssumption
<1>3. ~ RequireAborts(h, k)
  BY <1>2 DEF RequireAborts
<1>4. QED BY <1>1, <1>3 DEF Running, Require, RequireHit, RequireLoad, RequireLoadFails, RequireExits,
                           MissReached

\* What the process is left with when it goes on: the loan asked for or none.
LEMMA RequireLends ==
    ASSUME IInv, IInv', NEW h \in Handle, NEW k \in ModelKey, Require(h, k), Running'
    PROVE  \/ handle'[h] # NULL /\ StoreLoan' = [StoreLoan EXCEPT ![h] = Ident(k)]
           \/ handle'[h] = NULL /\ StoreLoan' = StoreLoan
<1>1. RequireShows(h, Ident(k))
  BY RequireMaps
<1>2. handle[h] = NULL
  BY DEF Require, RequireHit, RequireLoad, RequireLoadFails, RequireExits, RequireAborts, MissReached
<1>3. Ident(k) \in Module /\ Ident(k) # NULL
  BY IdentIsModule, NullIsNoModule
<1>4. CASE Cache!Borrow(h, Ident(k))
  <2>1. Running
    BY <1>4 DEF Cache!Borrow
  <2>2. StoreLoan' = [StoreLoan EXCEPT ![h] = Ident(k)] /\ StoreLoan \in [Handle -> Module \cup {NULL}]
    BY <1>4, <2>1, LoansShown DEF Cache!Borrow, LoansShowHandles
  <2>3. StoreLoan'[h] # NULL
    BY <1>3, <2>2
  <2>4. handle'[h] # NULL
    BY <2>3, LoansShownAfter DEF LoansShowHandles
  <2>5. QED BY <2>2, <2>4
<1>5. CASE UNCHANGED <<handle, StoreInstance, StoreLoan, Running>>
  BY <1>2, <1>5
<1>6. QED BY <1>1, <1>4, <1>5 DEF RequireShows

LEMMA ReleaseReturns ==
    ASSUME IInv, IInv', NEW h \in Handle, Release(h)
    PROVE  StoreLoan' = [StoreLoan EXCEPT ![h] = NULL] /\ Running /\ Running'
BY ReleaseMaps DEF Cache!Return

\* The CPU side is no concern of the handles.
LEMMA TablesLendNothing ==
    ASSUME UNCHANGED <<gpu, handle_to_key, heap, handle, proc>>
    PROVE  StoreLoan' = StoreLoan /\ Running' = Running
BY SameView

-----------------------------------------------------------------------------
(***************************************************************************)
(* A step of a program moves within it or unwinds                          *)
(***************************************************************************)
LEMMA SameProgram ==
    ASSUME UNCHANGED <<job, phase>>
    PROVE  Program' = Program
BY DEF Program

LEMMA AtStep ==
    ASSUME PipeShape, InProgram
    PROVE  /\ job # NULL /\ Len(Program) \in Nat /\ at \in 1 .. Len(Program)
           /\ Program[at] \in Steps
           /\ PinnedAt(Program, at) \in Pinnable
           /\ Nests(Program[at], PinnedAt(Program, at), PinnedAt(Program, at + 1))
           /\ Skips(Program[at]) =>
                 at < Len(Program) /\ PinnedAt(Program, at + 2) = PinnedAt(Program, at)
<1>1. job # NULL /\ at > 0 /\ at <= Len(Program)
  BY DEF InProgram, Busy
<1>2. Balanced(Program)
  BY <1>1, ProgramsAreNested DEF PipeShape
<1> DEFINE pin == CHOOSE pin : Nested(Program, pin, "none", "none")
<1>3. Nested(Program, pin, "none", "none")
  BY <1>2 DEF Balanced, Runs
<1>4. \A i : PinnedAt(Program, i) = pin[i]
  BY DEF PinnedAt
<1> HIDE DEF pin
<1>5. Program \in Seq(Steps) /\ Len(Program) \in Nat /\ at \in 1 .. Len(Program)
  BY <1>1, <1>3 DEF Nested, PipeShape
<1>6. Program[at] \in Steps
  BY <1>5
<1>7. pin[at] \in Pinnable
  BY <1>3, <1>5 DEF Nested
<1>8. /\ Nests(Program[at], pin[at], pin[at + 1])
      /\ Skips(Program[at]) => at < Len(Program) /\ pin[at + 2] = pin[at]
  BY <1>3, <1>5 DEF Nested
<1>9. QED BY <1>1, <1>4, <1>5, <1>6, <1>7, <1>8

\* Where a program starts, and past its end, nothing is pinned.
LEMMA AtEnds ==
    ASSUME job \in Jobs, phase \in {"load", "dit", "vae"}
    PROVE  /\ Program \in Seq(Steps) /\ Len(Program) \in Nat
           /\ PinnedAt(Program, 1) = "none" /\ PinnedAt(Program, Len(Program) + 1) = "none"
<1>1. Balanced(Program)
  BY ProgramsAreNested
<1>2. PICK pin : /\ pin = (CHOOSE u : Nested(Program, u, "none", "none"))
                 /\ Nested(Program, pin, "none", "none")
  BY <1>1 DEF Balanced, Runs
<1>3. QED BY <1>2 DEF Nested, PinnedAt

\* A refusal that is refused is at its first step.
LEMMA RefusedHere ==
    ASSUME PipeShape, RunnerInv, InProgram, phase = "dit", Refuses(job)
    PROVE  at = 1 /\ Program[at].do = "refuse"
<1>1. job # NULL /\ at \in 1 .. Len(Program) /\ at \in {0, 1}
  BY AtStep DEF RunnerInv
<1>2. job.op = "synth"
  BY <1>1 DEF RunnerInv
<1>3. Program = DitProgram(job)
  BY <1>2 DEF Program
<1>4. QED BY <1>1, <1>3, RefusedFirst

\* Where a step leads to.
Target(where) == CASE where = "next" -> at + 1
                   [] where = "skip" -> at + 2
                   [] where = "stop" -> 0

LEMMA GotoKeeps ==
    ASSUME PipeShape, RunnerInv, InProgram, NEW where \in {"next", "skip", "stop"}, Goto(where),
           where = "skip" => Skips(Program[at]),
           Program[at].do = "refuse" => where = "stop"
    PROVE  /\ PipeShape' /\ RunnerInv'
           /\ UNCHANGED <<job, phase, Program>> /\ job # NULL
           /\ at' = Target(where) /\ at' \in 0 .. (Len(Program) + 1)
<1>1. UNCHANGED <<job, group, phase, jobs, slots>> /\ at' = Target(where)
  BY DEF Goto, Target
<1>2. Program' = Program
  BY <1>1, SameProgram
<1>3. /\ job # NULL /\ Len(Program) \in Nat /\ at \in 1 .. Len(Program)
      /\ where = "skip" => at < Len(Program)
  BY AtStep
<1>4. at' \in 0 .. (Len(Program) + 1)
  BY <1>1, <1>3 DEF Target
<1>5. PipeShape'
  BY <1>1, <1>2, <1>3, <1>4 DEF PipeShape
<1>6. phase = "dit" /\ Refuses(job) => at' \in {0, 1}
  BY <1>1, RefusedHere DEF Target
<1>7. RunnerInv'
  BY <1>1, <1>6 DEF RunnerInv
<1>8. QED BY <1>1, <1>2, <1>3, <1>4, <1>5, <1>7

-----------------------------------------------------------------------------
(***************************************************************************)
(* Each step keeps the invariant                                           *)
(***************************************************************************)
\* A step that pins and unpins nothing, and leaves its scope if it had one.
LEMMA HoldAfter ==
    ASSUME PipeShape, HoldInv, Running, InProgram,
           Program[at].do \in {"scope", "table", "check", "refuse"},
           NEW where \in {"next", "skip", "stop"}, where = "skip" => Skips(Program[at]),
           UNCHANGED <<job, phase, Program>>, at' = Target(where),
           StoreLoan'[inner] = NULL, StoreLoan'[outer] = StoreLoan[outer]
    PROVE  HoldInv'
<1>1. /\ job # NULL /\ at \in 1 .. Len(Program) /\ Len(Program) \in Nat
      /\ Nests(Program[at], PinnedAt(Program, at), PinnedAt(Program, at + 1))
      /\ Skips(Program[at]) => PinnedAt(Program, at + 2) = PinnedAt(Program, at)
  BY AtStep
<1>2. PinnedAt(Program, at + 1) = PinnedAt(Program, at)
  BY <1>1 DEF Nests
<1>3. StoreLoan[outer] = PinnedModule(PinnedAt(Program, at))
  BY <1>1 DEF HoldInv
<1>4. at' > 0 => PinnedAt(Program, at') = PinnedAt(Program, at)
  BY <1>1, <1>2 DEF Target
<1>5. at' > 0 => StoreLoan'[outer] = PinnedModule(PinnedAt(Program', at'))
  BY <1>3, <1>4
<1>6. QED BY <1>1, <1>5 DEF HoldInv

\* What holds of the handles wherever a program is.
LEMMA HoldHere ==
    ASSUME PipeShape, HoldInv, Running, InProgram
    PROVE  /\ StoreLoan[outer] = PinnedModule(PinnedAt(Program, at))
           /\ StoreLoan[inner] # NULL => Program[at].do = "scope"
<1>1. job # NULL /\ at > 0
  BY DEF InProgram, Busy
<1>2. QED BY <1>1 DEF HoldInv

LEMMA HandlesApart ==
    /\ outer \in Handle /\ inner \in Handle /\ outer # inner
    /\ \A f \in [Handle -> Module \cup {NULL}] : \A v :
          /\ [f EXCEPT ![outer] = v][outer] = v /\ [f EXCEPT ![outer] = v][inner] = f[inner]
          /\ [f EXCEPT ![inner] = v][inner] = v /\ [f EXCEPT ![inner] = v][outer] = f[outer]
BY PipelineAssumption

LEMMA AcquireKeeps ==
    ASSUME PInv, IInv', Acquire
    PROVE  PInv'
<1> DEFINE step == Program[at]
           h == HandleOf(step)
           k == KeyOf(step.kind)
<1>1. IInv /\ PipeShape /\ RunnerInv /\ HoldInv
  BY DEF PInv
<1>2. /\ InProgram /\ Running
      /\ step.do = "pin" \/ (step.do = "scope" /\ handle[inner] = NULL)
  BY DEF Acquire, Doing, InProgram, Busy, Running
<1>3. /\ Require(h, k)
      /\ IF proc' # "running" THEN UNCHANGED pipe
         ELSE IF handle'[h] = NULL THEN Goto(step.null)
         ELSE IF step.do = "pin" THEN Goto("next")
         ELSE UNCHANGED pipe
  BY DEF Acquire
<1>4. /\ job # NULL /\ at \in 1 .. Len(Program) /\ step \in Steps /\ Len(Program) \in Nat
      /\ PinnedAt(Program, at) \in Pinnable
      /\ Nests(step, PinnedAt(Program, at), PinnedAt(Program, at + 1))
  BY <1>1, <1>2, AtStep
<1>5. /\ StoreLoan[outer] = PinnedModule(PinnedAt(Program, at))
      /\ StoreLoan[inner] # NULL => step.do = "scope"
  BY <1>1, <1>2, HoldHere
<1>6. LoansShowHandles
  BY <1>1, <1>2, LoansShown
<1>7. StoreLoan[inner] = NULL
  BY <1>2, <1>5, <1>6, HandlesApart DEF LoansShowHandles
<1>8. step.kind \in ModuleKind /\ k \in ModelKey /\ h \in Handle
  BY <1>2, <1>4, KeyOfKind, HandlesApart DEF Nests, HandleOf
<1>9. /\ step.do = "pin" => h = outer /\ PinnedAt(Program, at) = "none"
      /\ step.do = "pin" => PinnedAt(Program, at + 1) = step.kind /\ step.null = "stop"
      /\ step.do = "scope" => h = inner /\ PinnedAt(Program, at) \in {"none", step.kind}
  BY <1>4 DEF Nests, HandleOf
<1>10. PinnedModule("none") = NULL /\ PinnedModule(step.kind) = Ident(k)
  BY <1>8, NoneIsNoModule DEF PinnedModule
<1>11. StoreLoan[outer] \in {NULL, Ident(k)}
  BY <1>2, <1>5, <1>9, <1>10
<1> HIDE DEF h, k, step
<1>12. NeverAborts'
  BY <1>1, <1>3, <1>7, <1>8, <1>11, NoOverlapNoAbort DEF NeverAborts
<1>13. CASE UNCHANGED pipe
  <2>1. UNCHANGED <<job, group, phase, at, jobs, slots>>
    BY <1>13 DEF pipe
  <2>2. Program' = Program
    BY <2>1, SameProgram
  <2>3. PipeShape' /\ RunnerInv'
    BY <1>1, <2>1, <2>2 DEF PipeShape, RunnerInv
  <2>4. HoldInv'
    <3>1. SUFFICES ASSUME Running' PROVE HoldInv'
      BY DEF HoldInv
    <3>2. step.do = "scope" /\ handle'[h] # NULL
      <4>1. proc' = "running"
        BY <3>1 DEF Running
      <4>2. ASSUME Goto(step.null) \/ Goto("next")
            PROVE  FALSE
        <5>1. PICK where \in {"next", "skip", "stop"} : Goto(where)
          BY <1>4, <4>2 DEF Steps
        <5>2. at' = Target(where)
          BY <5>1 DEF Goto, Target
        <5>3. QED BY <1>4, <2>1, <5>2 DEF Target
      <4>3. QED BY <1>2, <1>3, <4>1, <4>2
    <3>3. StoreLoan' = [StoreLoan EXCEPT ![inner] = Ident(k)]
      BY <1>1, <1>3, <1>8, <1>9, <3>1, <3>2, RequireLends
    <3>4. StoreLoan'[outer] = StoreLoan[outer]
      BY <1>6, <3>3, HandlesApart DEF LoansShowHandles
    <3>5. at' = at /\ Program' = Program /\ job' = job
      BY <2>1, <2>2
    <3>6. StoreLoan'[outer] = PinnedModule(PinnedAt(Program', at'))
      BY <1>5, <3>4, <3>5
    <3>7. at' > 0 /\ at' <= Len(Program') /\ Program'[at'].do = "scope"
      BY <1>4, <3>2, <3>5 DEF step
    <3>8. QED BY <1>4, <3>5, <3>6, <3>7 DEF HoldInv
  <2>5. QED BY <1>12, <2>3, <2>4 DEF PInv
<1>14. CASE proc' = "running" /\ handle'[h] = NULL /\ Goto(step.null)
  <2>1. step.null \in {"next", "skip", "stop"} /\ (step.null = "skip" => Skips(step))
    BY <1>4 DEF Steps, Skips
  <2>2. step.do # "refuse"
    BY <1>2
  <2>3. /\ PipeShape' /\ RunnerInv'
        /\ UNCHANGED <<job, phase, Program>> /\ at' = Target(step.null)
    BY <1>1, <1>2, <1>14, <2>1, <2>2, GotoKeeps DEF step
  <2>4. StoreLoan' = StoreLoan
    BY <1>1, <1>3, <1>8, <1>14, RequireLends DEF Running
  <2>5. CASE step.do = "scope"
    <3>1. HoldInv'
      BY <1>1, <1>2, <1>7, <2>1, <2>3, <2>4, <2>5, HoldAfter DEF step
    <3>2. QED BY <1>12, <2>3, <3>1 DEF PInv
  <2>6. CASE step.do = "pin"
    <3>1. at' = 0 /\ job' = job
      BY <1>9, <2>3, <2>6 DEF Target
    <3>2. HoldInv'
      BY <1>4, <1>7, <2>4, <3>1 DEF HoldInv
    <3>3. QED BY <1>12, <2>3, <3>2 DEF PInv
  <2>7. QED BY <1>2, <2>5, <2>6
<1>15. CASE proc' = "running" /\ handle'[h] # NULL /\ step.do = "pin" /\ Goto("next")
  <2>1. /\ PipeShape' /\ RunnerInv'
        /\ UNCHANGED <<job, phase, Program>> /\ at' = Target("next")
    BY <1>1, <1>2, <1>15, GotoKeeps DEF step
  <2>2. StoreLoan' = [StoreLoan EXCEPT ![outer] = Ident(k)]
    BY <1>1, <1>3, <1>8, <1>9, <1>15, RequireLends DEF Running
  <2>3. StoreLoan'[outer] = Ident(k) /\ StoreLoan'[inner] = NULL
    BY <1>6, <1>7, <2>2, HandlesApart DEF LoansShowHandles
  <2>4. at' = at + 1 /\ at' > 0 /\ job' = job /\ Program' = Program
    BY <1>4, <2>1 DEF Target
  <2>5. StoreLoan'[outer] = PinnedModule(PinnedAt(Program', at'))
    BY <1>9, <1>10, <1>15, <2>3, <2>4
  <2>6. HoldInv'
    BY <1>4, <2>3, <2>4, <2>5 DEF HoldInv
  <2>7. QED BY <1>12, <2>1, <2>6 DEF PInv
<1>16. QED BY <1>3, <1>13, <1>14, <1>15

LEMMA FinishKeeps ==
    ASSUME PInv, IInv', Finish
    PROVE  PInv'
<1>1. IInv /\ PipeShape /\ RunnerInv /\ HoldInv
  BY DEF PInv
<1>2. /\ InProgram /\ Running /\ Program[at].do = "scope" /\ Release(inner)
      /\ \/ Goto("next")
         \/ Program[at].fail # "never" /\ Goto(Program[at].fail)
  BY DEF Finish, Doing, InProgram, Busy, Running
<1>3. /\ StoreLoan' = [StoreLoan EXCEPT ![inner] = NULL] /\ Running'
      /\ LoansShowHandles
  BY <1>1, <1>2, ReleaseReturns, HandlesApart, LoansShown
<1>4. StoreLoan'[inner] = NULL /\ StoreLoan'[outer] = StoreLoan[outer]
  BY <1>3, HandlesApart DEF LoansShowHandles
<1>5. PICK where \in {"next", "skip", "stop"} :
         Goto(where) /\ (where = "skip" => Skips(Program[at]))
  <2>1. Program[at] \in Steps
    BY <1>1, <1>2, AtStep
  <2>2. QED BY <1>2, <2>1 DEF Steps, Skips
<1>6. /\ PipeShape' /\ RunnerInv'
      /\ UNCHANGED <<job, phase, Program>> /\ at' = Target(where)
  BY <1>1, <1>2, <1>5, GotoKeeps
<1>7. HoldInv'
  BY <1>1, <1>2, <1>4, <1>5, <1>6, HoldAfter
<1>8. NeverAborts'
  BY <1>3 DEF Running, NeverAborts
<1>9. QED BY <1>6, <1>7, <1>8 DEF PInv

LEMMA UnholdKeeps ==
    ASSUME PInv, IInv', Unhold
    PROVE  PInv'
<1>1. IInv /\ PipeShape /\ RunnerInv /\ HoldInv
  BY DEF PInv
<1>2. InProgram /\ Running /\ Program[at].do = "unpin" /\ Release(outer) /\ Goto("next")
  BY DEF Unhold, Doing, InProgram, Busy, Running
<1>3. /\ StoreLoan' = [StoreLoan EXCEPT ![outer] = NULL] /\ Running'
      /\ LoansShowHandles /\ StoreLoan[inner] = NULL
  BY <1>1, <1>2, ReleaseReturns, HandlesApart, LoansShown, HoldHere
<1>4. StoreLoan'[outer] = NULL /\ StoreLoan'[inner] = NULL
  BY <1>3, HandlesApart DEF LoansShowHandles
<1>5. /\ PipeShape' /\ RunnerInv'
      /\ UNCHANGED <<job, phase, Program>> /\ at' = Target("next")
  BY <1>1, <1>2, GotoKeeps
<1>6. /\ job # NULL /\ at \in 1 .. Len(Program) /\ Len(Program) \in Nat
      /\ PinnedAt(Program, at + 1) = "none"
  BY <1>1, <1>2, AtStep DEF Nests
<1>7. at' = at + 1 /\ at' > 0 /\ job' = job /\ Program' = Program
  BY <1>5, <1>6 DEF Target
<1>8. StoreLoan'[outer] = PinnedModule(PinnedAt(Program', at'))
  BY <1>4, <1>6, <1>7 DEF PinnedModule
<1>9. HoldInv'
  BY <1>4, <1>6, <1>7, <1>8 DEF HoldInv
<1>10. NeverAborts'
  BY <1>3 DEF Running, NeverAborts
<1>11. QED BY <1>5, <1>9, <1>10 DEF PInv

\* A table read or a check: nothing the handles hold changes.
LEMMA HandlesAloneKeeps ==
    ASSUME PInv, IInv', InProgram, Program[at].do \in {"table", "check", "refuse"},
           UNCHANGED <<gpu, handle_to_key, heap, handle, proc>>,
           NEW where \in {"next", "stop"}, Goto(where),
           Program[at].do = "refuse" => where = "stop"
    PROVE  PInv'
<1>1. PipeShape /\ RunnerInv /\ HoldInv /\ NeverAborts
  BY DEF PInv
<1>2. Running
  BY DEF InProgram, Busy, Running
<1>3. StoreLoan' = StoreLoan
  BY TablesLendNothing
<1>4. StoreLoan[inner] = NULL
  BY <1>1, <1>2, HoldHere
<1>5. /\ PipeShape' /\ RunnerInv'
      /\ UNCHANGED <<job, phase, Program>> /\ at' = Target(where)
  BY <1>1, GotoKeeps
<1>6. HoldInv'
  BY <1>1, <1>2, <1>3, <1>4, <1>5, HoldAfter
<1>7. NeverAborts'
  BY <1>1 DEF NeverAborts
<1>8. QED BY <1>5, <1>6, <1>7 DEF PInv

LEMMA ReadTableKeeps ==
    ASSUME PInv, IInv', ReadTable
    PROVE  PInv'
<1>1. InProgram /\ Program[at].do = "table"
  BY DEF ReadTable, Doing
<1>2. PICK where \in {"next", "stop"} :
         Goto(where) /\ UNCHANGED <<gpu, handle_to_key, heap, handle, proc>>
  BY DEF ReadTable, CpuLoad, FsmLoad, vars
<1>3. QED BY <1>1, <1>2, HandlesAloneKeeps

LEMMA VerifyKeeps ==
    ASSUME PInv, IInv', Verify
    PROVE  PInv'
<1>1. InProgram /\ Program[at].do \in {"check", "refuse"}
  BY DEF Verify, Doing
<1>2. UNCHANGED <<gpu, handle_to_key, heap, handle, proc>>
  BY DEF Verify, vars
<1>3. CASE Program[at].do = "check" /\ Goto("next")
  BY <1>1, <1>2, <1>3, HandlesAloneKeeps
<1>4. CASE Goto("stop")
  BY <1>1, <1>2, <1>4, HandlesAloneKeeps
<1>5. QED BY <1>3, <1>4 DEF Verify, Doing

-----------------------------------------------------------------------------
(***************************************************************************)
(* The runner between two programs                                         *)
(***************************************************************************)
StartsFresh == Len(Program) \in Nat /\ PinnedAt(Program, 1) = "none"

LEMMA ProgramStarts == job \in Jobs /\ phase \in {"load", "dit", "vae"} => StartsFresh
BY AtEnds DEF StartsFresh

LEMMA ProgramStartsAfter ==
    job' \in Jobs /\ phase' \in {"load", "dit", "vae"} => StartsFresh'
<1>1. (job \in Jobs /\ phase \in {"load", "dit", "vae"} => StartsFresh)'
  BY ProgramStarts, PTL
<1>2. QED BY <1>1

\* A program starts with empty hands.
LEMMA StartHolds ==
    ASSUME job' \in Jobs, phase' \in {"load", "dit", "vae"}, at' = 1,
           Running' => StoreLoan'[outer] = NULL /\ StoreLoan'[inner] = NULL
    PROVE  HoldInv' /\ at' \in Nat /\ at' <= Len(Program') + 1
<1>1. Len(Program') \in Nat /\ PinnedAt(Program', 1) = "none"
  BY ProgramStartsAfter DEF StartsFresh
<1>2. PinnedModule(PinnedAt(Program', at')) = NULL
  BY <1>1 DEF PinnedModule
<1>3. HoldInv'
  BY <1>2 DEF HoldInv
<1>4. QED BY <1>1, <1>3

\* A program that is over has given everything back.
LEMMA EndHoldsNothing ==
    ASSUME PInv, AtEnd
    PROVE  /\ job # NULL /\ job \in Jobs /\ Len(Program) \in Nat /\ at = Len(Program) + 1
           /\ Running
           /\ StoreLoan[outer] = NULL /\ StoreLoan[inner] = NULL
<1>1. PipeShape /\ HoldInv
  BY DEF PInv
<1>2. job # NULL /\ at > 0 /\ at > Len(Program) /\ Running
  BY DEF AtEnd, Busy, Running
<1>3. job \in Jobs /\ at \in Nat /\ at <= Len(Program) + 1
  BY <1>1, <1>2 DEF PipeShape
<1>4. Len(Program) \in Nat /\ PinnedAt(Program, Len(Program) + 1) = "none"
  BY <1>1, <1>3, AtEnds DEF PipeShape
<1>5. at = Len(Program) + 1
  BY <1>2, <1>3, <1>4
<1>6. StoreLoan[outer] = NULL /\ StoreLoan[inner] = NULL
  BY <1>1, <1>2, <1>4, <1>5 DEF HoldInv, PinnedModule
<1>7. QED BY <1>2, <1>3, <1>4, <1>5, <1>6

LEMMA StoreAlone ==
    ASSUME UNCHANGED vars
    PROVE  StoreLoan' = StoreLoan /\ Running' = Running /\ (NeverAborts => NeverAborts')
<1>1. UNCHANGED <<gpu, handle_to_key, heap, handle, proc>>
  BY DEF vars
<1>2. QED BY <1>1, TablesLendNothing DEF NeverAborts

\* The groups of a synth job are numbered as the bound of the shape says.
LEMMA GroupsBounded ==
    ASSUME NEW j \in Jobs, j.op = "synth"
    PROVE  j.groups \in Nat \ {0} /\ 1 .. j.groups \subseteq UNION {1 .. n : n \in Groups}
BY JobFacts

LEMMA StartJobKeeps ==
    ASSUME PInv, IInv', StartJob
    PROVE  PInv'
<1>1. PipeShape /\ RunnerInv /\ HoldInv /\ NeverAborts
  BY DEF PInv
<1>2. /\ Running /\ job = NULL /\ job' \in Jobs
      /\ group' = 1 /\ phase' = "load" /\ at' = 1 /\ slots' = {} /\ jobs' = jobs
      /\ UNCHANGED vars
  BY DEF StartJob, Running
<1>3. StoreLoan' = StoreLoan /\ Running' = Running /\ NeverAborts'
  BY <1>1, <1>2, StoreAlone
<1>4. StoreLoan'[outer] = NULL /\ StoreLoan'[inner] = NULL
  BY <1>1, <1>2, <1>3 DEF HoldInv
<1>5. HoldInv' /\ at' \in Nat /\ at' <= Len(Program') + 1
  BY <1>2, <1>4, StartHolds
<1>6. jobs' = {} /\ slots' = {}
  BY <1>1, <1>2 DEF RunnerInv
<1>7. PipeShape'
  BY <1>2, <1>5, <1>6 DEF PipeShape
<1>8. job'.op = "synth" => job'.groups \in Nat \ {0}
  BY <1>2, JobFacts
<1>9. RunnerInv'
  BY <1>2, <1>6, <1>8 DEF RunnerInv
<1>10. QED BY <1>3, <1>5, <1>7, <1>9 DEF PInv


LEMMA LoadedKeeps ==
    ASSUME PInv, IInv', Loaded
    PROVE  PInv'
<1>1. PipeShape /\ RunnerInv /\ HoldInv /\ NeverAborts
  BY DEF PInv
<1>2. /\ AtEnd /\ job.op = "synth" /\ phase = "load" /\ UNCHANGED vars
      /\ job' = job /\ group' = group /\ slots' = slots
      /\ phase' = "dit" /\ at' = 1 /\ jobs' = IF Refuses(job) THEN jobs ELSE jobs \cup {1}
  BY DEF Loaded, BeginGroup
<1>3. job # NULL /\ job \in Jobs /\ StoreLoan[outer] = NULL /\ StoreLoan[inner] = NULL
  BY <1>2, EndHoldsNothing
<1>4. StoreLoan' = StoreLoan /\ Running' = Running /\ NeverAborts'
  BY <1>1, <1>2, StoreAlone
<1>5. HoldInv' /\ at' \in Nat /\ at' <= Len(Program') + 1
  BY <1>2, <1>3, <1>4, StartHolds
<1>6. jobs = {} /\ slots = {} /\ group = 1 /\ 1 .. 1 = {1}
  BY <1>1, <1>2, <1>3 DEF RunnerInv
<1>7. jobs' = (IF Refuses(job) THEN {} ELSE 1 .. group) /\ slots' = {}
  BY <1>2, <1>6
<1>8. job.groups \in Nat \ {0} /\ 1 .. job.groups \subseteq UNION {1 .. n : n \in Groups}
  BY <1>2, <1>3, GroupsBounded
<1>9. jobs' \cup slots' \subseteq 1 .. job.groups
  BY <1>6, <1>7, <1>8
<1>10. PipeShape'
  BY <1>1, <1>2, <1>3, <1>5, <1>8, <1>9 DEF PipeShape
<1>11. RunnerInv'
  BY <1>1, <1>2, <1>3, <1>7 DEF RunnerInv
<1>12. QED BY <1>4, <1>5, <1>10, <1>11 DEF PInv

LEMMA NextGroupKeeps ==
    ASSUME PInv, IInv', NextGroup
    PROVE  PInv'
<1>1. PipeShape /\ RunnerInv /\ HoldInv /\ NeverAborts
  BY DEF PInv
<1>2. /\ AtEnd /\ job.op = "synth" /\ phase = "dit" /\ group < job.groups /\ UNCHANGED vars
      /\ job' = job /\ phase' = phase /\ slots' = slots
      /\ group' = group + 1 /\ at' = 1
      /\ jobs' = IF Refuses(job) THEN jobs ELSE jobs \cup {group + 1}
  BY DEF NextGroup, BeginGroup
<1>3. job # NULL /\ job \in Jobs /\ StoreLoan[outer] = NULL /\ StoreLoan[inner] = NULL
  BY <1>2, EndHoldsNothing
<1>4. StoreLoan' = StoreLoan /\ Running' = Running /\ NeverAborts'
  BY <1>1, <1>2, StoreAlone
<1>5. HoldInv' /\ at' \in Nat /\ at' <= Len(Program') + 1
  BY <1>2, <1>3, <1>4, StartHolds DEF PipeShape
<1>6. job.groups \in Nat \ {0} /\ 1 .. job.groups \subseteq UNION {1 .. n : n \in Groups}
  BY <1>2, <1>3, GroupsBounded
<1>7. jobs = (IF Refuses(job) THEN {} ELSE 1 .. group) /\ slots = {} /\ group \in 1 .. job.groups
  BY <1>1, <1>2, <1>3 DEF RunnerInv
<1>8. /\ group + 1 \in 1 .. job.groups /\ group + 1 \in Nat
      /\ (1 .. group) \cup {group + 1} = 1 .. (group + 1)
  BY <1>2, <1>6, <1>7
<1>9. jobs' = (IF Refuses(job) THEN {} ELSE 1 .. (group + 1)) /\ slots' = {}
  BY <1>2, <1>7, <1>8
<1>10. jobs' \cup slots' \subseteq 1 .. job.groups
  BY <1>6, <1>8, <1>9
<1>11. PipeShape'
  BY <1>1, <1>2, <1>3, <1>5, <1>6, <1>8, <1>10 DEF PipeShape
<1>12. RunnerInv'
  BY <1>1, <1>2, <1>3, <1>8, <1>9 DEF RunnerInv
<1>13. QED BY <1>4, <1>5, <1>11, <1>12 DEF PInv

\* A job that got to the end of phase 1 was not refused, and has all its
\* groups' latents.
LEMMA ToPhase2Keeps ==
    ASSUME PInv, IInv', ToPhase2
    PROVE  PInv'
<1>1. PipeShape /\ RunnerInv /\ HoldInv /\ NeverAborts
  BY DEF PInv
<1>2. /\ AtEnd /\ job.op = "synth" /\ phase = "dit" /\ group = job.groups /\ UNCHANGED vars
      /\ job' = job /\ jobs' = jobs /\ slots' = slots
      /\ phase' = "vae" /\ group' = 1 /\ at' = 1
  BY DEF ToPhase2
<1>3. /\ job # NULL /\ job \in Jobs /\ StoreLoan[outer] = NULL /\ StoreLoan[inner] = NULL
      /\ at = Len(Program) + 1 /\ Len(Program) \in Nat
  BY <1>2, EndHoldsNothing
<1>4. StoreLoan' = StoreLoan /\ Running' = Running /\ NeverAborts'
  BY <1>1, <1>2, StoreAlone
<1>5. HoldInv' /\ at' \in Nat /\ at' <= Len(Program') + 1
  BY <1>2, <1>3, <1>4, StartHolds
<1>6. job.groups \in Nat \ {0} /\ 1 .. job.groups \subseteq UNION {1 .. n : n \in Groups}
  BY <1>2, <1>3, GroupsBounded
<1>7. ~ Refuses(job)
  <2>1. SUFFICES ASSUME Refuses(job) PROVE FALSE
    OBVIOUS
  <2>2. at \in {0, 1}
    BY <1>1, <1>2, <1>3, <2>1 DEF RunnerInv
  <2>3. Program = DitProgram(job)
    BY <1>2 DEF Program
  <2>4. Len(Program) >= 1
    BY <2>1, <2>3, RefusedFirst
  <2>5. QED BY <1>3, <2>2, <2>4
<1>8. jobs = 1 .. job.groups /\ slots = {} /\ 1 .. 0 = {}
  BY <1>1, <1>2, <1>3, <1>7 DEF RunnerInv
<1>9. jobs' = group' .. job'.groups /\ slots' = 1 .. (group' - 1)
  BY <1>2, <1>8
<1>10. PipeShape'
  BY <1>1, <1>2, <1>3, <1>5, <1>6, <1>8 DEF PipeShape
<1>11. group' \in 1 .. job'.groups
  BY <1>2, <1>6
<1>12. RunnerInv'
  BY <1>2, <1>3, <1>7, <1>9, <1>11 DEF RunnerInv
<1>13. QED BY <1>4, <1>5, <1>10, <1>12 DEF PInv

LEMMA NextDecodeKeeps ==
    ASSUME PInv, IInv', NextDecode
    PROVE  PInv'
<1>1. PipeShape /\ RunnerInv /\ HoldInv /\ NeverAborts
  BY DEF PInv
<1>2. /\ AtEnd /\ job.op = "synth" /\ phase = "vae" /\ group < job.groups /\ UNCHANGED vars
      /\ job' = job /\ phase' = phase /\ group' = group + 1 /\ at' = 1
      /\ jobs' = jobs \ {group} /\ slots' = slots \cup {group}
  BY DEF NextDecode
<1>3. job # NULL /\ job \in Jobs /\ StoreLoan[outer] = NULL /\ StoreLoan[inner] = NULL
  BY <1>2, EndHoldsNothing
<1>4. StoreLoan' = StoreLoan /\ Running' = Running /\ NeverAborts'
  BY <1>1, <1>2, StoreAlone
<1>5. HoldInv' /\ at' \in Nat /\ at' <= Len(Program') + 1
  BY <1>2, <1>3, <1>4, StartHolds DEF PipeShape
<1>6. job.groups \in Nat \ {0} /\ 1 .. job.groups \subseteq UNION {1 .. n : n \in Groups}
  BY <1>2, <1>3, GroupsBounded
<1>7. /\ ~ Refuses(job) /\ jobs = group .. job.groups /\ slots = 1 .. (group - 1)
      /\ group \in 1 .. job.groups
  BY <1>1, <1>2, <1>3 DEF RunnerInv
<1>8. /\ group + 1 \in 1 .. job.groups /\ group + 1 \in Nat /\ (group + 1) - 1 = group
      /\ (group .. job.groups) \ {group} = (group + 1) .. job.groups
      /\ (1 .. (group - 1)) \cup {group} = 1 .. group
  BY <1>2, <1>6, <1>7
<1>9. jobs' = group' .. job'.groups /\ slots' = 1 .. (group' - 1)
  BY <1>2, <1>7, <1>8
<1>10. jobs' \cup slots' \subseteq 1 .. job.groups
  BY <1>2, <1>6, <1>7
<1>11. PipeShape'
  BY <1>1, <1>2, <1>3, <1>5, <1>6, <1>8, <1>10 DEF PipeShape
<1>12. RunnerInv'
  BY <1>1, <1>2, <1>3, <1>7, <1>8, <1>9 DEF RunnerInv
<1>13. QED BY <1>4, <1>5, <1>11, <1>12 DEF PInv

LEMMA EndJobKeeps ==
    ASSUME PInv, IInv', EndJob
    PROVE  PInv'
<1>1. PipeShape /\ RunnerInv /\ HoldInv /\ NeverAborts
  BY DEF PInv
<1>2. /\ AtEnd /\ (job.op = "synth" => phase = "vae" /\ group = job.groups) /\ UNCHANGED vars
      /\ job' = NULL /\ at' = 0 /\ group' = group /\ phase' = phase
      /\ jobs' = jobs \ {group}
      /\ slots' = IF job.op = "synth" THEN slots \cup {group} ELSE slots
  BY DEF EndJob
<1>3. job # NULL /\ job \in Jobs /\ StoreLoan[outer] = NULL /\ StoreLoan[inner] = NULL
  BY <1>2, EndHoldsNothing
<1>4. StoreLoan' = StoreLoan /\ Running' = Running /\ NeverAborts'
  BY <1>1, <1>2, StoreAlone
<1>5. HoldInv'
  BY <1>2, <1>3, <1>4 DEF HoldInv
<1>6. CASE job.op = "synth"
  <2>1. job.groups \in Nat \ {0} /\ 1 .. job.groups \subseteq UNION {1 .. n : n \in Groups}
    BY <1>3, <1>6, GroupsBounded
  <2>2. jobs = group .. job.groups /\ group = job.groups
    BY <1>1, <1>2, <1>3, <1>6 DEF RunnerInv
  <2>3. jobs' = {} /\ group \in 1 .. job.groups
    BY <1>2, <2>1, <2>2
  <2>4. jobs' \cup slots' \subseteq UNION {1 .. n : n \in Groups}
    BY <1>1, <1>2, <1>6, <2>1, <2>3 DEF PipeShape
  <2>5. PipeShape' /\ RunnerInv'
    BY <1>1, <1>2, <2>3, <2>4 DEF PipeShape, RunnerInv
  <2>6. QED BY <1>4, <1>5, <2>5 DEF PInv
<1>7. CASE job.op # "synth"
  <2>1. jobs' = {} /\ slots' = {}
    BY <1>1, <1>2, <1>3, <1>7 DEF RunnerInv
  <2>2. PipeShape' /\ RunnerInv'
    BY <1>1, <1>2, <2>1 DEF PipeShape, RunnerInv
  <2>3. QED BY <1>4, <1>5, <2>2 DEF PInv
<1>8. QED BY <1>6, <1>7

\* Whatever the phase, what the runner deletes is all there is.
LEMMA AllIsFreed ==
    ASSUME PipeShape, RunnerInv, job # NULL
    PROVE  jobs \ FreedOnFailure = {}
<1>1. CASE phase = "load"
  BY <1>1 DEF RunnerInv
<1>2. CASE phase # "load"
  <2>1. job \in Jobs /\ job.op = "synth" /\ group \in Nat
    BY <1>2 DEF PipeShape, RunnerInv
  <2>2. job.groups \in Nat
    BY <2>1, GroupsBounded
  <2>3. CASE phase = "vae"
    <3>1. jobs = group .. job.groups
      BY <2>3 DEF RunnerInv
    <3>2. \A g \in jobs : g >= group
      BY <2>1, <2>2, <3>1
    <3>3. QED BY <2>3, <3>2 DEF FreedOnFailure
  <2>4. CASE phase = "dit"
    <3>1. jobs \subseteq 1 .. group
      BY <2>4 DEF RunnerInv
    <3>2. \A g \in jobs : g <= group
      BY <2>1, <3>1
    <3>3. QED BY <2>4, <3>2 DEF FreedOnFailure
  <2>5. QED BY <1>2, <2>3, <2>4 DEF PipeShape
<1>3. QED BY <1>1, <1>2

LEMMA UnwindKeeps ==
    ASSUME PInv, IInv', Unwind
    PROVE  PInv'
<1>1. IInv /\ PipeShape /\ RunnerInv /\ HoldInv /\ NeverAborts
  BY DEF PInv
<1>2. /\ Running /\ job # NULL /\ at = 0
      /\ IF handle[outer] # NULL THEN Release(outer) ELSE UNCHANGED vars
      /\ job' = NULL /\ jobs' = jobs \ FreedOnFailure
      /\ group' = group /\ phase' = phase /\ at' = at /\ slots' = slots
  BY DEF Unwind, Stopping, Running
<1>3. StoreLoan[inner] = NULL /\ LoansShowHandles
  BY <1>1, <1>2, LoansShown DEF HoldInv
<1>4. /\ StoreLoan'[outer] = NULL /\ StoreLoan'[inner] = NULL
      /\ NeverAborts'
  <2>1. CASE handle[outer] # NULL
    <3>1. Release(outer)
      BY <1>2, <2>1
    <3>2. StoreLoan' = [StoreLoan EXCEPT ![outer] = NULL] /\ Running'
      BY <1>1, <3>1, ReleaseReturns, HandlesApart
    <3>3. QED BY <1>3, <3>2, HandlesApart DEF LoansShowHandles, Running, NeverAborts
  <2>2. CASE handle[outer] = NULL
    <3>1. StoreLoan[outer] = NULL
      BY <1>3, <2>2, HandlesApart DEF LoansShowHandles
    <3>2. StoreLoan' = StoreLoan /\ NeverAborts'
      BY <1>1, <1>2, <2>2, StoreAlone
    <3>3. QED BY <1>3, <3>1, <3>2
  <2>3. QED BY <2>1, <2>2
<1>5. HoldInv'
  BY <1>2, <1>4 DEF HoldInv
<1>6. jobs' = {}
  BY <1>1, <1>2, AllIsFreed
<1>7. PipeShape' /\ RunnerInv'
  BY <1>1, <1>2, <1>6 DEF PipeShape, RunnerInv
<1>8. QED BY <1>4, <1>5, <1>7 DEF PInv

LEMMA ShutdownKeeps ==
    ASSUME PInv, IInv', Shutdown
    PROVE  PInv'
<1>1. PipeShape /\ RunnerInv
  BY DEF PInv
<1>2. job = NULL /\ proc' = "freed" /\ UNCHANGED <<job, group, phase, at, jobs, slots>>
  BY DEF Shutdown, StoreFree, pipe
<1>3. PipeShape' /\ RunnerInv'
  BY <1>1, <1>2 DEF PipeShape, RunnerInv
<1>4. NeverAborts' /\ HoldInv'
  BY <1>2 DEF NeverAborts, HoldInv, Running
<1>5. QED BY <1>3, <1>4 DEF PInv

LEMMA NothingKeeps ==
    ASSUME PInv, IInv', UNCHANGED <<vars, pipe>>
    PROVE  PInv'
<1>1. PipeShape /\ RunnerInv /\ HoldInv /\ NeverAborts
  BY DEF PInv
<1>2. UNCHANGED <<job, group, phase, at, jobs, slots>> /\ UNCHANGED vars
  BY DEF pipe
<1>3. Program' = Program
  BY <1>2, SameProgram
<1>4. StoreLoan' = StoreLoan /\ Running' = Running /\ NeverAborts'
  BY <1>1, <1>2, StoreAlone
<1>5. PipeShape' /\ RunnerInv'
  BY <1>1, <1>2, <1>3 DEF PipeShape, RunnerInv
<1>6. HoldInv'
  BY <1>1, <1>2, <1>3, <1>4 DEF HoldInv
<1>7. QED BY <1>4, <1>5, <1>6 DEF PInv

-----------------------------------------------------------------------------
(***************************************************************************)
(* The theorems                                                            *)
(***************************************************************************)
LEMMA PipeInitInv == PipeInit => PInv
<1> SUFFICES ASSUME PipeInit PROVE PInv
  OBVIOUS
<1>1. Init /\ job = NULL /\ group = 0 /\ phase = "load" /\ at = 0 /\ jobs = {} /\ slots = {}
  BY DEF PipeInit
<1>2. IInv
  BY <1>1, InitInv
<1>3. Running /\ NeverAborts
  BY <1>1 DEF Init, Running, NeverAborts
<1>4. \A h \in Handle : handle[h] = NULL
  BY <1>1 DEF Init
<1>5. StoreLoan[outer] = NULL /\ StoreLoan[inner] = NULL
  BY <1>2, <1>3, <1>4, LoansShown, HandlesApart DEF LoansShowHandles
<1>6. PipeShape /\ RunnerInv /\ HoldInv
  BY <1>1, <1>5 DEF PipeShape, RunnerInv, HoldInv
<1>7. QED BY <1>2, <1>3, <1>6 DEF PInv

\* The pipelines touch the store through its own operations only.
LEMMA StepOfStore == PInv /\ [PipeNext]_<<vars, pipe>> => IInv'
<1> SUFFICES ASSUME PInv, [PipeNext]_<<vars, pipe>> PROVE IInv'
  OBVIOUS
<1>1. IInv
  BY DEF PInv
<1>2. CASE Acquire
  <2> DEFINE h == HandleOf(Program[at])
             k == KeyOf(Program[at].kind)
  <2>1. InProgram /\ Program[at].do \in {"pin", "scope"}
    BY <1>2 DEF Acquire, Doing
  <2>2. Program[at].kind \in ModuleKind
    BY <2>1, AtStep DEF PInv, Nests
  <2>3. h \in Handle /\ k \in ModelKey
    BY <2>2, KeyOfKind, HandlesApart DEF HandleOf
  <2>4. Require(h, k)
    BY <1>2 DEF Acquire
  <2> HIDE DEF h, k
  <2>5. Next
    BY <2>3, <2>4 DEF Next
  <2>6. QED BY <1>1, <2>5, NextInv
<1>3. CASE Finish \/ Unhold
  <2>1. Release(inner) \/ Release(outer)
    BY <1>3 DEF Finish, Unhold
  <2>2. Next
    BY <2>1, HandlesApart DEF Next
  <2>3. QED BY <1>1, <2>2, NextInv
<1>4. CASE ReadTable
  <2>1. PICK p \in CpuPath : \/ UNCHANGED vars
                             \/ CpuLoad(Program[at].kind, p)
                             \/ FsmLoad(p)
    BY <1>4 DEF ReadTable
  <2>2. CpuLoad(Program[at].kind, p) => Program[at].kind \in CpuTable
    BY DEF CpuLoad, CpuTable
  <2>3. [Next]_vars
    BY <2>1, <2>2 DEF Next
  <2>4. QED BY <1>1, <2>3, NextInv
<1>5. CASE Unwind
  <2>1. [Next]_vars
    BY <1>5, HandlesApart DEF Unwind, Next
  <2>2. QED BY <1>1, <2>1, NextInv
<1>6. CASE Shutdown
  <2>1. Next
    BY <1>6 DEF Shutdown, Next
  <2>2. QED BY <1>1, <2>1, NextInv
<1>7. CASE UNCHANGED vars
  BY <1>1, <1>7, NextInv
<1>8. StartJob \/ Verify \/ Loaded \/ NextGroup \/ ToPhase2 \/ NextDecode \/ EndJob \/ Ended
         => UNCHANGED vars
  BY DEF StartJob, Verify, Loaded, NextGroup, ToPhase2, NextDecode, EndJob, Ended
<1>9. QED BY <1>2, <1>3, <1>4, <1>5, <1>6, <1>7, <1>8 DEF PipeNext

LEMMA PipeNextInv == PInv /\ [PipeNext]_<<vars, pipe>> => PInv'
<1> SUFFICES ASSUME PInv, [PipeNext]_<<vars, pipe>> PROVE PInv'
  OBVIOUS
<1>1. IInv'
  BY StepOfStore
<1>2. CASE StartJob
  BY <1>1, <1>2, StartJobKeeps
<1>3. CASE Acquire
  BY <1>1, <1>3, AcquireKeeps
<1>4. CASE Finish
  BY <1>1, <1>4, FinishKeeps
<1>5. CASE Unhold
  BY <1>1, <1>5, UnholdKeeps
<1>6. CASE ReadTable
  BY <1>1, <1>6, ReadTableKeeps
<1>7. CASE Verify
  BY <1>1, <1>7, VerifyKeeps
<1>8. CASE Loaded
  BY <1>1, <1>8, LoadedKeeps
<1>9. CASE NextGroup
  BY <1>1, <1>9, NextGroupKeeps
<1>10. CASE ToPhase2
  BY <1>1, <1>10, ToPhase2Keeps
<1>11. CASE NextDecode
  BY <1>1, <1>11, NextDecodeKeeps
<1>12. CASE EndJob
  BY <1>1, <1>12, EndJobKeeps
<1>13. CASE Unwind
  BY <1>1, <1>13, UnwindKeeps
<1>14. CASE Shutdown
  BY <1>1, <1>14, ShutdownKeeps
<1>15. CASE Ended \/ UNCHANGED <<vars, pipe>>
  BY <1>1, <1>15, NothingKeeps DEF Ended
<1>16. QED BY <1>2, <1>3, <1>4, <1>5, <1>6, <1>7, <1>8, <1>9, <1>10, <1>11, <1>12, <1>13, <1>14,
              <1>15 DEF PipeNext

LEMMA PipeInvariance == PipeSpec => []PInv
BY PipeInitInv, PipeNextInv, PTL DEF PipeSpec

\* No job, on any path through its pipeline and whatever fails on the way,
\* requires a module while a handle of it holds a different one: abort() in
\* evict_all_except is never reached from the pipelines of the server.
THEOREM PipelinesNeverAbort == PipeSpec => []NeverAborts
BY PipeInvariance, PTL DEF PInv

\* A job that has ended, in whichever way, holds no module, and the runner
\* has freed every AceSynthJob; under the default policy no module is left
\* on the card.  Phase 2 decodes exactly what phase 1 finished, in order.
THEOREM PipelinesLeaveNothing == PipeSpec => []NothingLeftBehind
<1>1. PInv => PipeTypeOK
  BY DEF PInv, IInv, PipeShape, RunnerInv, PipeTypeOK
<1>2. PInv => IdleHoldsNothing
  <2> SUFFICES ASSUME PInv, proc = "running", job = NULL
               PROVE  jobs = {} /\ Held = {} /\ (Policy = "STRICT" => Resident = {})
    BY DEF IdleHoldsNothing
  <2>1. Running /\ IInv /\ jobs = {} /\ StoreLoan[outer] = NULL /\ StoreLoan[inner] = NULL
    BY DEF Running, PInv, RunnerInv, HoldInv
  <2>2. \A h \in Handle : handle[h] = NULL
    BY <2>1, LoansShown, PipelineAssumption DEF LoansShowHandles
  <2>3. Held = {}
    BY <2>2 DEF Held
  <2>4. Policy = "STRICT" => Resident = {}
    BY <2>1, <2>3, IdleIsEmpty DEF StrictIdleIsEmpty
  <2>5. QED BY <2>1, <2>3, <2>4
<1>3. PInv => SlotsAfterPhase1
  BY DEF PInv, PipeShape, RunnerInv, SlotsAfterPhase1
<1>4. PInv => NothingLeftBehind
  BY <1>1, <1>2, <1>3 DEF NothingLeftBehind
<1>5. QED BY <1>4, PipeInvariance, PTL
=============================================================================
