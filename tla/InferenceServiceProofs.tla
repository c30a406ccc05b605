------------------------- MODULE InferenceServiceProofs -------------------------
(***************************************************************************)
(* What InferenceService guarantees for any requests, batches, versions    *)
(* and sizes: every answer goes to the request it was made from; and what  *)
(* the ModelRegistry under it does.                                        *)
(***************************************************************************)
EXTENDS InferenceService, FiniteSetTheorems, SequenceTheorems, TLAPS

(* The registry *)

Object     == [version: Versions, status: Statuses]
ObjectsOK  == loads \in Seq(Object) /\ Len(loads) <= MaxLoads
PointersOK == /\ versions \in [Versions -> 0..Len(loads)]
              /\ active \in Versions \cup {NoVersion}
              /\ engine \in 0..Len(loads)
              /\ loading \in [object: 0..Len(loads), set_active: BOOLEAN]
CacheOK(c) == /\ c \in [models: SUBSET Versions, order: Seq(Versions)]
              /\ Len(c.order) <= CacheSize

LEMMA TypeParts == RegistryTypeOK <=> ObjectsOK /\ PointersOK /\ CacheOK(cache)
BY DEF RegistryTypeOK, ObjectsOK, Object, PointersOK, CacheOK

LEMMA TypeStep == ObjectsOK' /\ PointersOK' /\ CacheOK(cache)' => RegistryTypeOK'
BY DEF RegistryTypeOK, ObjectsOK, Object, PointersOK, CacheOK

(* What the operations do to the objects and to the cache.                 *)
LEMMA StatusOK ==
  ASSUME ObjectsOK, NEW n \in 1..Len(loads), NEW s \in Statuses, Status(n, s)
  PROVE  /\ ObjectsOK' /\ Len(loads') = Len(loads)
         /\ loads'[n] = [version |-> loads[n].version, status |-> s]
         /\ \A m \in 1..Len(loads): m # n => loads'[m] = loads[m]
         /\ \A m \in 1..Len(loads): loads'[m].version = loads[m].version
<1> DEFINE o == [version |-> loads[n].version, status |-> s]
<1>1. loads \in Seq(Object) /\ loads[n] \in Object /\ Len(loads) \in Nat
  BY ElementOfSeq, LenProperties DEF ObjectsOK
<1>2. o \in Object /\ loads' = [loads EXCEPT ![n] = o]
  <2>1. o \in Object /\ o = [loads[n] EXCEPT !.status = s]
    BY <1>1 DEF Object
  <2>2. loads' = [loads EXCEPT ![n] = [loads[n] EXCEPT !.status = s]]
    BY DEF Status
  <2>3. QED
    BY <2>1, <2>2
<1>3. /\ loads' \in Seq(Object) /\ Len(loads') = Len(loads)
      /\ \A j \in 1..Len(loads): loads'[j] = IF j = n THEN o ELSE loads[j]
  <2> HIDE DEF o
  <2>1. QED
    BY <1>1, <1>2, ExceptSeq
<1>4. QED
  BY <1>1, <1>3 DEF ObjectsOK

LEMMA AppendOK ==
  ASSUME ObjectsOK, RegistryAssumption, NEW v \in Versions, NEW s \in Statuses, Register(v, s)
  PROVE  /\ ObjectsOK' /\ Len(loads) \in Nat /\ Len(loads') = Len(loads) + 1
         /\ loads'[Len(loads) + 1] = [version |-> v, status |-> s]
         /\ \A m \in 1..Len(loads): loads'[m] = loads[m]
<1> DEFINE o == [version |-> v, status |-> s]
<1>1. loads \in Seq(Object) /\ Len(loads) \in Nat /\ Len(loads) < MaxLoads /\ MaxLoads \in Nat
  BY LenProperties DEF ObjectsOK, Register, RegistryAssumption
<1>2. o \in Object /\ loads' = Append(loads, o)
  BY DEF Object, Register
<1>3. /\ loads' \in Seq(Object) /\ Len(loads') = Len(loads) + 1
      /\ loads'[Len(loads) + 1] = o
      /\ \A m \in 1..Len(loads): loads'[m] = loads[m]
  <2> HIDE DEF o
  <2>1. QED
    BY <1>1, <1>2
<1>4. QED
  BY <1>1, <1>3 DEF ObjectsOK

LEMMA EvictedOK ==
  ASSUME NEW c, CacheOK(c), RegistryAssumption
  PROVE  CacheOK(Evicted(c))
<1>1. c.order \in Seq(Versions) /\ Len(c.order) \in Nat /\ CacheSize \in Nat
  BY LenProperties DEF CacheOK, RegistryAssumption
<1>2. CASE c.order = <<>>
  BY <1>2 DEF Evicted, CacheOK
<1>3. CASE c.order # <<>>
  <2>1. Tail(c.order) \in Seq(Versions) /\ Len(Tail(c.order)) = Len(c.order) - 1
    BY <1>1, <1>3, HeadTailProperties
  <2>2. QED
    BY <1>1, <2>1 DEF Evicted, CacheOK
<1>4. QED
  BY <1>2, <1>3

LEMMA CachedOK ==
  ASSUME NEW c, CacheOK(c), RegistryAssumption, NEW v \in Versions
  PROVE  CacheOK(Cached(c, v))
<1> DEFINE e == Evicted(c)
           o == Append(e.order, v)
<1>1. CacheOK(e)
  BY EvictedOK
<1> HIDE DEF e
<1>2. o \in Seq(Versions) /\ Len(o) = Len(e.order) + 1 /\ Len(e.order) \in Nat /\ o # <<>>
  BY <1>1, LenProperties DEF CacheOK
<1> HIDE DEF o
<1>3. Tail(o) \in Seq(Versions) /\ Len(Tail(o)) = Len(o) - 1
  BY <1>2, HeadTailProperties
<1>4. CacheSize \in Nat /\ Len(e.order) <= CacheSize /\ e.models \in SUBSET Versions
  BY <1>1 DEF CacheOK, RegistryAssumption
<1>5. Cached(c, v) = [models |-> e.models \cup {v}, order |-> IF Len(o) > CacheSize THEN Tail(o) ELSE o]
  BY DEF Cached, e, o
<1>6. QED
  BY <1>2, <1>3, <1>4, <1>5 DEF CacheOK
-------------------------------------------------------------------------------
(* The engine serves.  A call of load_model that waits works on an object  *)
(* of its own, which no engine has yet.                                    *)
LoadingApart == loading # Idle => loading.object # 0 /\ loading.object # engine
Inv == RegistryTypeOK /\ EngineServes /\ LoadingApart

LEMMA InitInv == RegistryAssumption /\ RegistryInit => Inv
<1> SUFFICES ASSUME RegistryAssumption, RegistryInit PROVE Inv
  OBVIOUS
<1>1. loads = <<>> /\ Len(loads) = 0 /\ loads \in Seq(Object) /\ MaxLoads \in Nat /\ CacheSize \in Nat
  BY DEF RegistryInit, RegistryAssumption
<1>2. CacheOK(cache)
  BY <1>1 DEF RegistryInit, CacheOK
<1>3. PointersOK /\ ObjectsOK
  BY <1>1 DEF RegistryInit, PointersOK, ObjectsOK, Idle
<1>4. QED
  BY <1>2, <1>3, TypeParts DEF RegistryInit, Inv, EngineServes, LoadingApart, Idle

LEMMA StepInv == RegistryAssumption /\ Inv /\ [RegistryNext]_registry => Inv'
<1> SUFFICES ASSUME RegistryAssumption, Inv, [RegistryNext]_registry PROVE Inv'
  OBVIOUS
<1>0. /\ ObjectsOK /\ PointersOK /\ CacheOK(cache) /\ Len(loads) \in Nat
      /\ loads \in Seq(Object) /\ \A n \in 1..Len(loads): loads[n] \in Object
  <2>1. ObjectsOK /\ PointersOK /\ CacheOK(cache)
    BY TypeParts DEF Inv
  <2>2. loads \in Seq(Object)
    BY <2>1 DEF ObjectsOK
  <2>3. QED
    BY <2>1, <2>2, ElementOfSeq, LenProperties
<1>1. ASSUME NEW v \in Versions, NEW set_active \in BOOLEAN, StartLoad(v, set_active) PROVE Inv'
  <2>1. Register(v, "warming") /\ "warming" \in Statuses
    BY <1>1 DEF StartLoad, Statuses
  <2>2. ObjectsOK' /\ Len(loads') = Len(loads) + 1 /\ \A m \in 1..Len(loads): loads'[m] = loads[m]
    BY <1>0, <2>1, AppendOK
  <2>3. PointersOK'
    BY <1>0, <1>1, <2>1, <2>2 DEF PointersOK, StartLoad, Register
  <2>4. CacheOK(cache)'
    BY <1>0, <2>1, CachedOK DEF Register
  <2>5. EngineServes' /\ LoadingApart'
    BY <1>0, <1>1, <2>1, <2>2 DEF Inv, EngineServes, LoadingApart, StartLoad, PointersOK, Idle
  <2>6. QED
    BY <2>2, <2>3, <2>4, <2>5, TypeStep DEF Inv
<1>2. ASSUME NEW v \in Versions, NEW set_active \in BOOLEAN, LoadCold(v, set_active) PROVE Inv'
  <2> DEFINE s == IF set_active THEN "serving" ELSE "ready"
  <2>1. Register(v, s) /\ s \in Statuses
    BY <1>2 DEF LoadCold, Statuses
  <2>2. /\ ObjectsOK' /\ Len(loads') = Len(loads) + 1 /\ \A m \in 1..Len(loads): loads'[m] = loads[m]
        /\ loads'[Len(loads) + 1] = [version |-> v, status |-> s]
    <3> HIDE DEF s
    <3>1. QED
      BY <1>0, <2>1, AppendOK
  <2>3. PointersOK'
    BY <1>0, <1>2, <2>1, <2>2 DEF PointersOK, LoadCold, Register
  <2>4. CacheOK(cache)'
    BY <1>0, <2>1, CachedOK DEF Register
  <2>5. EngineServes' /\ LoadingApart'
    BY <1>0, <1>2, <2>1, <2>2 DEF Inv, EngineServes, LoadingApart, LoadCold, PointersOK, Idle, Register
  <2>6. QED
    BY <2>2, <2>3, <2>4, <2>5, TypeStep DEF Inv
<1>3. CASE FinishLoad
  <2> DEFINE n == loading.object
             s == IF loading.set_active THEN "serving" ELSE "ready"
  <2>1. n \in 1..Len(loads) /\ n # engine /\ s \in Statuses /\ loading.set_active \in BOOLEAN
    BY <1>0, <1>3 DEF FinishLoad, Inv, LoadingApart, PointersOK, Statuses
  <2>2. Status(n, s)
    BY <1>3 DEF FinishLoad
  <2>3. /\ ObjectsOK' /\ Len(loads') = Len(loads)
        /\ loads'[n] = [version |-> loads[n].version, status |-> s]
        /\ \A m \in 1..Len(loads): m # n => loads'[m] = loads[m]
    <3> HIDE DEF n, s
    <3>1. QED
      BY <1>0, <2>1, <2>2, StatusOK
  <2>4. loads[n].version \in Versions
    BY <1>0, <2>1 DEF Object
  <2>5. PointersOK'
    BY <1>0, <1>3, <2>1, <2>3, <2>4 DEF PointersOK, FinishLoad, Serve, Idle
  <2>6. CacheOK(cache)'
    BY <1>0, <1>3 DEF FinishLoad
  <2>7. EngineServes' /\ LoadingApart'
    BY <1>0, <1>3, <2>1, <2>3, <2>4 DEF Inv, EngineServes, LoadingApart, FinishLoad, Serve, PointersOK
  <2>8. QED
    BY <2>3, <2>5, <2>6, <2>7, TypeStep DEF Inv
<1>4. ASSUME NEW v \in Versions, FailLoad(v) PROVE Inv'
  <2>1. Register(v, "warming") /\ "warming" \in Statuses
    BY <1>4 DEF FailLoad, Statuses
  <2>2. ObjectsOK' /\ Len(loads') = Len(loads) + 1 /\ \A m \in 1..Len(loads): loads'[m] = loads[m]
    BY <1>0, <2>1, AppendOK
  <2>3. PointersOK'
    BY <1>0, <1>4, <2>1, <2>2 DEF PointersOK, FailLoad, Register
  <2>4. CacheOK(cache)'
    BY <1>0, <2>1, CachedOK DEF Register
  <2>5. EngineServes' /\ LoadingApart'
    BY <1>0, <1>4, <2>1, <2>2 DEF Inv, EngineServes, LoadingApart, FailLoad, PointersOK
  <2>6. QED
    BY <2>2, <2>3, <2>4, <2>5, TypeStep DEF Inv
<1>5. ASSUME NEW v \in Versions, SwitchModelVersion(v) PROVE Inv'
  <2> DEFINE n == versions[v]
  <2>1. n \in 1..Len(loads) /\ "serving" \in Statuses /\ Status(n, "serving")
    BY <1>0, <1>5 DEF SwitchModelVersion, PointersOK, Statuses
  <2>2. /\ ObjectsOK' /\ Len(loads') = Len(loads)
        /\ loads'[n] = [version |-> loads[n].version, status |-> "serving"]
    <3> HIDE DEF n
    <3>1. QED
      BY <1>0, <2>1, StatusOK
  <2>3. loads[n].version \in Versions
    BY <1>0, <2>1 DEF Object
  <2>4. PointersOK'
    BY <1>0, <1>5, <2>1, <2>2, <2>3 DEF PointersOK, SwitchModelVersion, Serve
  <2>5. CacheOK(cache)'
    BY <1>0, <1>5, CachedOK DEF SwitchModelVersion
  <2>6. EngineServes' /\ LoadingApart'
    BY <1>0, <1>5, <2>1, <2>2, <2>3 DEF Inv, EngineServes, LoadingApart, SwitchModelVersion, Serve, PointersOK
  <2>7. QED
    BY <2>2, <2>4, <2>5, <2>6, TypeStep DEF Inv
<1>6. CASE UnloadModel
  <2>1. engine \in 1..Len(loads) /\ "unloading" \in Statuses /\ Status(engine, "unloading")
    BY <1>0, <1>6 DEF UnloadModel, PointersOK, Statuses
  <2>2. ObjectsOK' /\ Len(loads') = Len(loads)
    BY <1>0, <2>1, StatusOK
  <2>3. PointersOK'
    BY <1>0, <1>6, <2>1, <2>2 DEF PointersOK, UnloadModel
  <2>4. CacheOK(cache)' /\ EngineServes' /\ LoadingApart'
    BY <1>0, <1>6 DEF UnloadModel, EngineServes, LoadingApart
  <2>5. QED
    BY <2>2, <2>3, <2>4, TypeStep DEF Inv
<1>7. CASE UNCHANGED registry
  BY <1>7 DEF registry, Inv, RegistryTypeOK, EngineServes, LoadingApart
<1>8. QED
  BY <1>1, <1>2, <1>3, <1>4, <1>5, <1>6, <1>7 DEF RegistryNext, Managed

(* Type correctness of the registry.                                       *)
THEOREM RegistryTypeCorrect == RegistrySpec => []RegistryTypeOK
<1>1. Inv => RegistryTypeOK
  BY DEF Inv
<1>2. QED
  BY <1>1, InitInv, StepInv, RegistryAssumption, PTL DEF RegistrySpec

(* However loads, switches and unloads follow each other, the engine that  *)
(* requests are given is the active version's and has been warmed up.      *)
THEOREM EngineAlwaysServes == RegistrySpec => []EngineServes
<1>1. Inv => EngineServes
  BY DEF Inv
<1>2. QED
  BY <1>1, InitInv, StepInv, RegistryAssumption, PTL DEF RegistrySpec
-------------------------------------------------------------------------------
(* The size of the cache.  As long as no version is loaded twice, the      *)
(* order names each cached version once, so its length is their number.    *)
Exact(c) == /\ \A i, j \in 1..Len(c.order): c.order[i] = c.order[j] => i = j
            /\ c.models = {c.order[i]: i \in 1..Len(c.order)}
NoReload == \A m, n \in DOMAIN loads: loads[m].version = loads[n].version => m = n

(* Versions are cached, and may be switched to, only after a load of them.  *)
WasLoaded(v) == \E n \in 1..Len(loads): loads[n].version = v
CacheInv == /\ \A v \in cache.models: WasLoaded(v)
            /\ \A v \in Versions: versions[v] # 0 => WasLoaded(v)
            /\ NoReload => Exact(cache)

LEMMA ExactCardinality ==
  ASSUME NEW c, CacheOK(c), Exact(c)
  PROVE  Cardinality(c.models) = Len(c.order)
<1>1. c.order \in Seq(Versions) /\ Len(c.order) \in Nat /\ c.order \in [1..Len(c.order) -> Versions]
  BY LenProperties DEF CacheOK
<1>2. c.order \in Bijection(1..Len(c.order), c.models)
  BY <1>1 DEF Exact, Bijection, Injection, Surjection, IsInjective
<1>3. ExistsBijection(1..Len(c.order), c.models)
  BY <1>2 DEF ExistsBijection
<1>4. QED
  BY <1>1, <1>3, FS_CountingElements

LEMMA EvictedExact ==
  ASSUME NEW c, CacheOK(c), Exact(c), RegistryAssumption
  PROVE  /\ Exact(Evicted(c))
         /\ Len(Evicted(c).order) < CacheSize
         /\ Evicted(c).models \subseteq c.models
<1>1. /\ c.order \in Seq(Versions) /\ Len(c.order) \in Nat /\ Len(c.order) <= CacheSize
      /\ CacheSize \in Nat \ {0} /\ Cardinality(c.models) = Len(c.order)
  BY LenProperties, ExactCardinality DEF CacheOK, RegistryAssumption
<1>2. CASE Len(c.order) < CacheSize
  BY <1>1, <1>2 DEF Evicted
<1>3. CASE Len(c.order) = CacheSize
  <2>1. c.order # <<>>
    BY <1>1, <1>3, EmptySeq
  <2> DEFINE h == Head(c.order)
             q == Tail(c.order)
  <2>2. /\ h = c.order[1] /\ Len(q) = Len(c.order) - 1
        /\ \A i \in 1..Len(q): q[i] = c.order[i + 1]
    BY <1>1, <2>1, HeadTailProperties
  <2>3. Evicted(c) = [models |-> c.models \ {h}, order |-> q]
    BY <1>1, <1>3, <2>1 DEF Evicted
  <2> HIDE DEF h, q
  <2>4. \A i, j \in 1..Len(q): q[i] = q[j] => i = j
    BY <1>1, <2>2 DEF Exact
  <2>5. c.models \ {h} = {q[i]: i \in 1..Len(q)}
    <3>1. ASSUME NEW v \in c.models, v # h PROVE \E i \in 1..Len(q): q[i] = v
      <4>1. PICK k \in 1..Len(c.order): c.order[k] = v
        BY DEF Exact
      <4>2. k # 1 /\ k - 1 \in 1..Len(q) /\ q[k - 1] = v
        BY <1>1, <2>2, <3>1, <4>1
      <4>3. QED
        BY <4>2
    <3>2. ASSUME NEW i \in 1..Len(q) PROVE q[i] \in c.models /\ q[i] # h
      <4>1. i + 1 \in 1..Len(c.order) /\ i + 1 # 1 /\ q[i] = c.order[i + 1] /\ 1 \in 1..Len(c.order)
        BY <1>1, <2>2
      <4>2. QED
        BY <2>2, <4>1 DEF Exact
    <3>3. QED
      BY <3>1, <3>2
  <2>6. Exact([models |-> c.models \ {h}, order |-> q])
    BY <2>4, <2>5 DEF Exact
  <2>7. Len(q) < CacheSize
    BY <1>1, <1>3, <2>2
  <2>8. QED
    BY <2>3, <2>6, <2>7
<1>4. QED
  BY <1>1, <1>2, <1>3

LEMMA CachedExact ==
  ASSUME NEW c, CacheOK(c), Exact(c), RegistryAssumption, NEW v \in Versions, v \notin c.models
  PROVE  Exact(Cached(c, v))
<1> DEFINE e == Evicted(c)
           o == Append(e.order, v)
<1>1. CacheOK(e) /\ Exact(e) /\ Len(e.order) < CacheSize /\ e.models \subseteq c.models
  BY EvictedOK, EvictedExact
<1>2. Cached(c, v) = [models |-> e.models \cup {v}, order |-> IF Len(o) > CacheSize THEN Tail(o) ELSE o]
  BY DEF Cached
<1> HIDE DEF e
<1>3. /\ Len(e.order) \in Nat /\ Len(o) = Len(e.order) + 1 /\ CacheSize \in Nat
      /\ \A i \in 1..Len(e.order): o[i] = e.order[i] /\ e.order[i] \in e.models
      /\ o[Len(o)] = v
  BY <1>1, LenProperties, ElementOfSeq DEF CacheOK, Exact, RegistryAssumption
<1> HIDE DEF o
<1>4. Cached(c, v) = [models |-> e.models \cup {v}, order |-> o]
  <2>1. ~(Len(o) > CacheSize)
    BY <1>1, <1>3
  <2>2. QED
    BY <1>2, <2>1
<1>5. \A i, j \in 1..Len(o): o[i] = o[j] => i = j
  <2>1. v \notin e.models
    BY <1>1
  <2>2. \A i \in 1..Len(o): i \in 1..Len(e.order) \/ i = Len(o)
    BY <1>3
  <2>3. \A i, j \in 1..Len(e.order): e.order[i] = e.order[j] => i = j
    BY <1>1 DEF Exact
  <2>4. QED
    BY <1>3, <2>1, <2>2, <2>3
<1>6. e.models \cup {v} = {o[i]: i \in 1..Len(o)}
  <2>1. \A w \in e.models: \E i \in 1..Len(o): o[i] = w
    BY <1>1, <1>3 DEF Exact
  <2>2. \A i \in 1..Len(o): o[i] \in e.models \cup {v}
    BY <1>3
  <2>3. Len(o) \in 1..Len(o)
    BY <1>3
  <2>4. QED
    BY <1>3, <2>1, <2>2, <2>3
<1>7. QED
  BY <1>4, <1>5, <1>6 DEF Exact

LEMMA CachedModels ==
  ASSUME NEW c, NEW v
  PROVE  Cached(c, v).models \subseteq c.models \cup {v}
BY DEF Cached, Evicted

LEMMA StatusKeepsCacheInv ==
  ASSUME ObjectsOK, NEW n \in 1..Len(loads), NEW s \in Statuses, Status(n, s)
  PROVE  /\ NoReload' <=> NoReload
         /\ \A v \in Versions: WasLoaded(v) => WasLoaded(v)'
<1>1. loads \in Seq(Object) /\ DOMAIN loads = 1..Len(loads)
  BY LenProperties DEF ObjectsOK
<1>2. /\ Len(loads') = Len(loads) /\ loads' \in Seq(Object)
      /\ \A m \in 1..Len(loads): loads'[m].version = loads[m].version
  BY StatusOK DEF ObjectsOK
<1>3. DOMAIN loads' = 1..Len(loads)
  BY <1>2, LenProperties
<1>4. QED
  BY <1>1, <1>2, <1>3 DEF NoReload, WasLoaded

LEMMA RegisterKeepsCacheInv ==
  ASSUME RegistryAssumption, Inv, CacheInv, NEW v \in Versions, NEW s \in Statuses, Register(v, s)
  PROVE  CacheInv'
<1>1. ObjectsOK /\ PointersOK /\ CacheOK(cache) /\ loads \in Seq(Object) /\ DOMAIN loads = 1..Len(loads)
  BY TypeParts, LenProperties DEF Inv, ObjectsOK
<1>2. /\ ObjectsOK' /\ Len(loads) \in Nat /\ Len(loads') = Len(loads) + 1
      /\ loads'[Len(loads) + 1].version = v
      /\ \A m \in 1..Len(loads): loads'[m] = loads[m]
  <2>1. /\ ObjectsOK' /\ Len(loads) \in Nat /\ Len(loads') = Len(loads) + 1
        /\ loads'[Len(loads) + 1] = [version |-> v, status |-> s]
        /\ \A m \in 1..Len(loads): loads'[m] = loads[m]
    BY <1>1, AppendOK
  <2>2. QED
    BY <2>1
<1>3. loads' \in Seq(Object) /\ DOMAIN loads' = 1..Len(loads) + 1
  BY <1>2, LenProperties DEF ObjectsOK
<1>4. WasLoaded(v)' /\ \A w \in Versions: WasLoaded(w) => WasLoaded(w)'
  BY <1>2 DEF WasLoaded
<1>5. cache' = Cached(cache, v) /\ versions' = [versions EXCEPT ![v] = Len(loads) + 1]
  BY DEF Register
<1>6. \A w \in cache'.models: WasLoaded(w)'
  BY <1>1, <1>4, <1>5, CachedModels DEF CacheInv, CacheOK
<1>7. \A w \in Versions: versions'[w] # 0 => WasLoaded(w)'
  BY <1>1, <1>4, <1>5 DEF CacheInv, PointersOK
<1>8. ASSUME NoReload' PROVE Exact(cache')
  <2>1. NoReload
    BY <1>1, <1>2, <1>3, <1>8 DEF NoReload
  <2>2. ~WasLoaded(v)
    BY <1>2, <1>3, <1>8 DEF NoReload, WasLoaded
  <2>3. Exact(cache) /\ v \notin cache.models
    BY <2>1, <2>2 DEF CacheInv
  <2>4. QED
    BY <1>1, <1>5, <2>3, CachedExact
<1>9. QED
  BY <1>6, <1>7, <1>8 DEF CacheInv

LEMMA StepCacheInv ==
  RegistryAssumption /\ Inv /\ CacheInv /\ [RegistryNext]_registry => CacheInv'
<1> SUFFICES ASSUME RegistryAssumption, Inv, CacheInv, [RegistryNext]_registry PROVE CacheInv'
  OBVIOUS
<1>0. ObjectsOK /\ PointersOK /\ CacheOK(cache)
  BY TypeParts DEF Inv
<1>1. ASSUME NEW v \in Versions, NEW s \in Statuses, Register(v, s) PROVE CacheInv'
  BY <1>1, RegisterKeepsCacheInv
<1>2. ASSUME NEW n \in 1..Len(loads), NEW s \in Statuses, Status(n, s), UNCHANGED <<versions, cache>>
      PROVE  CacheInv'
  BY <1>0, <1>2, StatusKeepsCacheInv DEF CacheInv, CacheOK
<1>3. ASSUME NEW v \in Versions, SwitchModelVersion(v) PROVE CacheInv'
  <2>1. /\ versions[v] \in 1..Len(loads) /\ "serving" \in Statuses /\ Status(versions[v], "serving")
        /\ WasLoaded(v) /\ UNCHANGED versions
        /\ cache' = IF v \in cache.models THEN cache ELSE Cached(cache, v)
    BY <1>0, <1>3 DEF SwitchModelVersion, PointersOK, Statuses, CacheInv
  <2>2. (NoReload' <=> NoReload) /\ \A w \in Versions: WasLoaded(w) => WasLoaded(w)'
    BY <1>0, <2>1, StatusKeepsCacheInv
  <2>3. CASE v \in cache.models
    BY <1>0, <2>1, <2>2, <2>3 DEF CacheInv, CacheOK
  <2>4. CASE v \notin cache.models
    <3>1. cache' = Cached(cache, v) /\ cache'.models \subseteq cache.models \cup {v}
      BY <2>1, <2>4, CachedModels
    <3>2. \A w \in cache'.models: WasLoaded(w)'
      BY <1>0, <2>1, <2>2, <3>1 DEF CacheInv, CacheOK
    <3>3. NoReload' => Exact(cache')
      BY <1>0, <2>2, <2>4, <3>1, CachedExact DEF CacheInv
    <3>4. QED
      BY <2>1, <2>2, <3>2, <3>3 DEF CacheInv
  <2>5. QED
    BY <2>3, <2>4
<1>4. CASE FinishLoad
  <2>1. /\ loading.object \in 1..Len(loads)
        /\ \E s \in Statuses: Status(loading.object, s)
        /\ UNCHANGED <<versions, cache>>
    BY <1>0, <1>4 DEF FinishLoad, Inv, LoadingApart, PointersOK, Statuses
  <2>2. QED
    BY <1>2, <2>1
<1>5. CASE UnloadModel
  <2>1. engine \in 1..Len(loads) /\ Status(engine, "unloading") /\ UNCHANGED <<versions, cache>>
    BY <1>0, <1>5 DEF UnloadModel, PointersOK
  <2>2. QED
    BY <1>2, <2>1 DEF Statuses
<1>6. CASE UNCHANGED registry
  BY <1>6 DEF registry, CacheInv, NoReload, Exact, WasLoaded
<1>7. ASSUME NEW v \in Versions, NEW set_active \in BOOLEAN,
             StartLoad(v, set_active) \/ LoadCold(v, set_active) \/ FailLoad(v)
      PROVE  CacheInv'
  <2>1. \E s \in Statuses: Register(v, s)
    BY <1>7 DEF StartLoad, LoadCold, FailLoad, Statuses
  <2>2. QED
    BY <1>1, <2>1
<1>8. QED
  BY <1>3, <1>4, <1>5, <1>6, <1>7 DEF RegistryNext, Managed

(* While no version is loaded a second time, the cache keeps to its size   *)
(* and its order lists exactly what it holds.                              *)
THEOREM CacheKeepsToSize == RegistrySpec => []CacheWithinSize
<1>1. RegistryInit => CacheInv
  BY DEF RegistryInit, CacheInv, NoReload, Exact, WasLoaded
<1>2. RegistryAssumption /\ Inv /\ CacheInv => CacheWithinSize
  <2> SUFFICES ASSUME RegistryAssumption, Inv, CacheInv, NoReload PROVE
        /\ Cardinality(cache.models) <= CacheSize
        /\ Len(cache.order) = Cardinality(cache.models)
        /\ cache.models = {cache.order[i]: i \in DOMAIN cache.order}
    BY DEF CacheWithinSize, NoReload
  <2>1. CacheOK(cache) /\ Exact(cache)
    BY TypeParts DEF Inv, CacheInv
  <2>2. cache.order \in Seq(Versions) /\ DOMAIN cache.order = 1..Len(cache.order)
    BY <2>1, LenProperties DEF CacheOK
  <2>3. QED
    BY <2>1, <2>2, ExactCardinality DEF CacheOK, Exact
<1>3. QED
  BY <1>1, <1>2, InitInv, StepInv, StepCacheInv, RegistryAssumption, PTL DEF RegistrySpec
--------------------------------------------------------------------------------
(* The service *)

(* The parts of TypeOK, and what they need to be kept: nothing is answered *)
(* while requests are collected, and a response has the place of its       *)
(* request in the batch.                                                   *)
Jobs      == job \in [Requests -> 0..Len(loads)]
ServiceOK == /\ phase \in {"serving", "draining", "closed"}
             /\ processor \in {"off", "collecting", "processing", "stopped"}
             /\ called \subseteq Requests
             /\ queue \in Seq(Requests)
BatchOK   == /\ batch \in Seq(Requests) /\ Len(batch) <= BatchSize
             /\ results \in Seq(Response)
             /\ processor \in {"off", "collecting"} => results = <<>>
             /\ processor = "processing" => Len(results) < Len(batch)
             /\ Len(results) <= Len(batch)
             /\ \A i \in 1..Len(results): results[i].request = batch[i]
AnswersOK == /\ answer \in [Requests -> Response \cup {NoAnswer}]
             /\ AnswersMatchRequests

ServiceInv == Inv /\ Jobs /\ ServiceOK /\ BatchOK /\ AnswersOK

Assumptions == RegistryAssumption /\ ServiceAssumption

LEMMA InvImplies == ServiceInv => TypeOK /\ AnswersMatchRequests
BY DEF ServiceInv, Inv, Jobs, ServiceOK, BatchOK, AnswersOK, TypeOK

LEMMA ServiceInit == Assumptions /\ Init => ServiceInv
<1> SUFFICES ASSUME Assumptions, Init PROVE ServiceInv
  OBVIOUS
<1>1. Inv
  BY InitInv DEF Init, Assumptions
<1>2. loads = <<>> /\ Len(loads) = 0
  BY DEF Init, RegistryInit
<1>3. BatchSize \in Nat /\ Len(<<>>) = 0
  BY DEF Assumptions, ServiceAssumption
<1>4. Jobs /\ ServiceOK /\ BatchOK
  BY <1>2, <1>3 DEF Init, Jobs, ServiceOK, BatchOK
<1>5. AnswersOK
  BY DEF Init, AnswersOK, AnswersMatchRequests
<1>6. QED
  BY <1>1, <1>4, <1>5 DEF ServiceInv

(* Loads are only ever added.                                              *)
LEMMA LoadsGrow ==
  ASSUME Assumptions, Inv, NEW executor_open \in BOOLEAN, Managed(executor_open)
  PROVE  Len(loads) \in Nat /\ Len(loads') \in Nat /\ Len(loads) <= Len(loads')
<1>1. ObjectsOK /\ PointersOK /\ loads \in Seq(Object) /\ Len(loads) \in Nat
  BY TypeParts, LenProperties DEF Inv, ObjectsOK
<1>2. ASSUME NEW v \in Versions, NEW s \in Statuses, Register(v, s)
      PROVE  Len(loads') = Len(loads) + 1
  BY <1>1, <1>2, AppendOK DEF Assumptions
<1>3. ASSUME NEW n \in 1..Len(loads), NEW s \in Statuses, Status(n, s)
      PROVE  Len(loads') = Len(loads)
  BY <1>1, <1>3, StatusOK
<1>4. \/ \E v \in Versions, s \in Statuses: Register(v, s)
      \/ \E n \in 1..Len(loads), s \in Statuses: Status(n, s)
  <2>1. ASSUME NEW v \in Versions, NEW set_active \in BOOLEAN,
               StartLoad(v, set_active) \/ LoadCold(v, set_active) \/ FailLoad(v)
        PROVE  \E s \in Statuses: Register(v, s)
    BY <2>1 DEF StartLoad, LoadCold, FailLoad, Statuses
  <2>2. ASSUME FinishLoad \/ UnloadModel \/ \E v \in Versions: SwitchModelVersion(v)
        PROVE  \E n \in 1..Len(loads), s \in Statuses: Status(n, s)
    <3>1. CASE FinishLoad
      BY <1>1, <3>1 DEF FinishLoad, Inv, LoadingApart, PointersOK, Statuses
    <3>2. CASE UnloadModel
      BY <1>1, <3>2 DEF UnloadModel, PointersOK, Statuses
    <3>3. ASSUME NEW v \in Versions, SwitchModelVersion(v)
          PROVE  \E n \in 1..Len(loads), s \in Statuses: Status(n, s)
      BY <1>1, <3>3 DEF SwitchModelVersion, PointersOK, Statuses
    <3>4. QED
      BY <2>2, <3>1, <3>2, <3>3
  <2>3. QED
    BY <2>1, <2>2 DEF Managed
<1>5. QED
  BY <1>1, <1>2, <1>3, <1>4

(* The processor's current request, and what becomes of its response.      *)
LEMMA CurrentOK ==
  ASSUME BatchOK, processor = "processing"
  PROVE  /\ Len(results) \in Nat /\ Len(results) + 1 \in 1..Len(batch)
         /\ Current \in Requests /\ In(Current, batch)
<1>1. /\ Len(results) \in Nat /\ Len(batch) \in Nat /\ DOMAIN batch = 1..Len(batch)
      /\ Len(results) < Len(batch)
  BY LenProperties DEF BatchOK
<1>2. Len(results) + 1 \in 1..Len(batch)
  BY <1>1
<1>3. QED
  BY <1>1, <1>2, ElementOfSeq DEF Current, In, BatchOK

LEMMA RespondKeeps ==
  ASSUME BatchOK, AnswersOK, ServiceOK, Assumptions, processor = "processing",
         NEW response \in Response, response.request = Current, Respond(response)
  PROVE  BatchOK' /\ AnswersOK' /\ processor' \in {"collecting", "processing"}
<1> DEFINE all == Append(results, response)
<1>1. /\ results \in Seq(Response) /\ batch \in Seq(Requests) /\ Len(results) \in Nat
      /\ Len(batch) \in Nat /\ DOMAIN batch = 1..Len(batch) /\ Len(results) < Len(batch)
      /\ \A i \in 1..Len(results): results[i].request = batch[i]
      /\ Len(batch) <= BatchSize
  BY LenProperties DEF BatchOK
<1>2. /\ all \in Seq(Response) /\ Len(all) = Len(results) + 1
      /\ all[Len(results) + 1] = response
      /\ \A i \in 1..Len(results): all[i] = results[i]
  BY <1>1
<1>3. /\ Len(all) < Len(batch) => results' = all /\ UNCHANGED <<answer, batch, processor>>
      /\ ~(Len(all) < Len(batch)) =>
           /\ answer' = [r \in Requests |->
                           IF In(r, batch) THEN all[CHOOSE i \in DOMAIN batch: batch[i] = r] ELSE answer[r]]
           /\ batch' = <<>> /\ results' = <<>> /\ processor' = "collecting"
  BY DEF Respond
<1> HIDE DEF all
<1>4. \A i \in 1..Len(all): all[i].request = batch[i] /\ all[i] \in Response
  <2>1. ASSUME NEW i \in 1..Len(all) PROVE all[i].request = batch[i]
    <3>1. i \in 1..Len(results) \/ i = Len(results) + 1
      BY <1>1, <1>2
    <3>2. QED
      BY <1>1, <1>2, <3>1 DEF Current
  <2>2. QED
    BY <1>2, <2>1, ElementOfSeq
<1>5. CASE Len(all) < Len(batch)
  <2>1. results' = all /\ UNCHANGED <<answer, batch, processor>>
    BY <1>3, <1>5
  <2>2. BatchOK'
    BY <1>1, <1>2, <1>4, <1>5, <2>1 DEF BatchOK
  <2>3. AnswersOK'
    BY <2>1 DEF AnswersOK, AnswersMatchRequests
  <2>4. QED
    BY <2>1, <2>2, <2>3
<1>6. CASE ~(Len(all) < Len(batch))
  <2>1. Len(all) = Len(batch)
    <3>1. /\ Len(results) \in Nat /\ Len(batch) \in Nat /\ Len(results) < Len(batch)
          /\ Len(all) = Len(results) + 1
      BY ONLY <1>1, <1>2
    <3>2. QED
      BY ONLY <3>1, <1>6
  <2>2. /\ batch' = <<>> /\ results' = <<>> /\ processor' = "collecting"
        /\ answer' = [r \in Requests |->
                        IF In(r, batch) THEN all[CHOOSE i \in DOMAIN batch: batch[i] = r] ELSE answer[r]]
    BY <1>3, <1>6
  <2>3. BatchSize \in Nat
    BY DEF Assumptions, ServiceAssumption
  <2>4. BatchOK'
    BY <2>2, <2>3 DEF BatchOK
  <2>5. ASSUME NEW r \in Requests, In(r, batch)
        PROVE  answer'[r] \in Response /\ answer'[r].request = r
    <3> DEFINE i == CHOOSE i \in DOMAIN batch: batch[i] = r
    <3>1. i \in DOMAIN batch /\ batch[i] = r
      BY <2>5 DEF In
    <3>2. answer'[r] = all[i]
      BY <2>2, <2>5
    <3> HIDE DEF i
    <3>3. QED
      BY <1>1, <1>4, <2>1, <3>1, <3>2
  <2>6. \A r \in Requests: ~In(r, batch) => answer'[r] = answer[r]
    BY <2>2
  <2>7. AnswersOK'
    <3>1. \A r \in Requests: answer'[r] \in Response \cup {NoAnswer}
      BY <2>5, <2>6 DEF AnswersOK
    <3>2. answer' \in [Requests -> Response \cup {NoAnswer}]
      BY <2>2, <3>1
    <3>3. QED
      BY <2>5, <2>6, <3>2 DEF AnswersOK, AnswersMatchRequests
  <2>8. QED
    BY <2>2, <2>4, <2>7
<1>7. QED
  BY <1>5, <1>6

LEMMA ResponsesOK ==
  ASSUME Inv, Jobs, NEW r \in Requests
  PROVE  /\ Refusal(r) \in Response /\ Refusal(r).request = r
         /\ job[r] # 0 => Prediction(r) \in Response /\ Prediction(r).request = r
<1>1. loads \in Seq(Object) /\ Len(loads) \in Nat
  BY TypeParts, LenProperties DEF Inv, ObjectsOK
<1>2. job[r] # 0 => loads[job[r]] \in Object
  BY <1>1, ElementOfSeq DEF Jobs
<1>3. QED
  BY <1>2 DEF Refusal, Prediction, Response, Object

LEMMA AnswerKeeps ==
  ASSUME AnswersOK, NEW r \in Requests, NEW a \in Response, a.request = r,
         answer' = [answer EXCEPT ![r] = a]
  PROVE  AnswersOK'
<1>1. answer' \in [Requests -> Response \cup {NoAnswer}]
  BY DEF AnswersOK
<1>2. \A s \in Requests: answer'[s] = IF s = r THEN a ELSE answer[s]
  BY DEF AnswersOK
<1>3. QED
  BY <1>1, <1>2 DEF AnswersOK, AnswersMatchRequests

LEMMA ServiceStep == Assumptions /\ ServiceInv /\ [Next]_vars => ServiceInv'
<1> SUFFICES ASSUME Assumptions, ServiceInv, [Next]_vars PROVE ServiceInv'
  OBVIOUS
<1> USE DEF ServiceInv
<1>0. /\ Len(loads) \in Nat /\ engine \in 0..Len(loads)
      /\ DOMAIN batch = 1..Len(batch) /\ Len(batch) \in Nat
  <2>1. loads \in Seq(Object) /\ PointersOK
    BY TypeParts DEF Inv, ObjectsOK
  <2>2. QED
    BY <2>1, LenProperties DEF PointersOK, BatchOK
<1>1. UNCHANGED registry => Inv'
  BY DEF registry, Inv, RegistryTypeOK, EngineServes, LoadingApart
<1>2. UNCHANGED <<batch, results, processor>> => BatchOK'
  BY DEF BatchOK
<1>3. UNCHANGED answer => AnswersOK'
  BY DEF AnswersOK, AnswersMatchRequests
<1>4. ASSUME NEW r \in Requests, RefusePredict(r) PROVE ServiceInv'
  <2>1. AnswersOK'
    BY <1>4, ResponsesOK, AnswerKeeps DEF RefusePredict
  <2>2. Jobs' /\ ServiceOK'
    BY <1>4 DEF RefusePredict, Jobs, ServiceOK, registry, service
  <2>3. QED
    BY <1>1, <1>2, <1>4, <2>1, <2>2 DEF RefusePredict, service
<1>5. ASSUME NEW r \in Requests, BeginPredict(r) PROVE ServiceInv'
  <2>1. Jobs' /\ ServiceOK'
    BY <1>0, <1>5 DEF BeginPredict, Jobs, ServiceOK, registry, service
  <2>2. QED
    BY <1>1, <1>2, <1>3, <1>5, <2>1 DEF BeginPredict, service
<1>6. ASSUME NEW r \in Requests, EndPredict(r) PROVE ServiceInv'
  <2>1. AnswersOK'
    BY <1>6, ResponsesOK, AnswerKeeps DEF EndPredict
  <2>2. Jobs' /\ ServiceOK'
    BY <1>0, <1>6 DEF EndPredict, Jobs, ServiceOK, registry, service
  <2>3. QED
    BY <1>1, <1>2, <1>6, <2>1, <2>2 DEF EndPredict, service
<1>7. ASSUME NEW b \in Batches, PredictBatch(b) PROVE ServiceInv'
  <2>1. b \in Seq(Requests) /\ {b[i]: i \in DOMAIN b} \subseteq Requests
    BY ElementOfSeq, LenProperties DEF Assumptions, ServiceAssumption
  <2>2. queue \in Seq(Requests) /\ queue \o b \in Seq(Requests)
    BY <2>1, ConcatProperties DEF ServiceOK
  <2>3. Jobs' /\ ServiceOK'
    BY <1>7, <2>1, <2>2 DEF PredictBatch, Jobs, ServiceOK, registry, service
  <2>4. QED
    BY <1>1, <1>2, <1>3, <1>7, <2>3 DEF PredictBatch, service
<1>8. CASE CollectRequest
  <2>1. Head(queue) \in Requests /\ Tail(queue) \in Seq(Requests)
    BY <1>8, HeadTailProperties DEF CollectRequest, ServiceOK
  <2>2. Jobs' /\ ServiceOK'
    BY <1>8, <2>1 DEF CollectRequest, Jobs, ServiceOK, registry, service
  <2>3. batch' \in Seq(Requests) /\ Len(batch') = Len(batch) + 1 /\ results' = <<>>
    BY <1>8, <2>1 DEF CollectRequest, BatchOK
  <2>4. BatchOK'
    BY <1>0, <1>8, <2>3 DEF CollectRequest, BatchOK, service, Assumptions, ServiceAssumption
  <2>5. QED
    BY <1>1, <1>3, <1>8, <2>2, <2>4 DEF CollectRequest
<1>9. CASE CloseBatch
  <2>1. batch \in Seq(Requests) /\ batch # <<>> /\ results = <<>>
    BY <1>9 DEF CloseBatch, BatchOK
  <2>2. Len(results) < Len(batch)
    BY <2>1, EmptySeq
  <2>3. BatchOK'
    BY <1>9, <2>1, <2>2 DEF CloseBatch, requests, BatchOK
  <2>4. Jobs' /\ ServiceOK'
    BY <1>9 DEF CloseBatch, Jobs, ServiceOK, registry, requests
  <2>5. QED
    BY <1>1, <1>3, <1>9, <2>3, <2>4 DEF CloseBatch, requests
<1>10. CASE RefuseCurrent
  <2>1. Current \in Requests
    BY <1>10, CurrentOK DEF RefuseCurrent
  <2>2. BatchOK' /\ AnswersOK' /\ processor' \in {"collecting", "processing"}
    <3>1. Refusal(Current) \in Response /\ Refusal(Current).request = Current
      BY <2>1, ResponsesOK
    <3>2. QED
      BY <1>10, <3>1, RespondKeeps DEF RefuseCurrent
  <2>3. Jobs' /\ ServiceOK'
    BY <1>10, <2>2 DEF RefuseCurrent, Jobs, ServiceOK, registry
  <2>4. QED
    BY <1>1, <1>10, <2>2, <2>3 DEF RefuseCurrent
<1>11. CASE BeginCurrent
  <2>1. Current \in Requests
    BY <1>11, CurrentOK DEF BeginCurrent
  <2>2. Jobs' /\ ServiceOK'
    BY <1>0, <1>11, <2>1 DEF BeginCurrent, Jobs, ServiceOK, registry, service
  <2>3. QED
    BY <1>1, <1>2, <1>3, <1>11, <2>2 DEF BeginCurrent, service
<1>12. CASE EndCurrent
  <2>1. Current \in Requests
    BY <1>12, CurrentOK DEF EndCurrent
  <2>2. BatchOK' /\ AnswersOK' /\ processor' \in {"collecting", "processing"}
    <3>1. Prediction(Current) \in Response /\ Prediction(Current).request = Current
      BY <1>12, <2>1, ResponsesOK DEF EndCurrent
    <3>2. QED
      BY <1>12, <3>1, RespondKeeps DEF EndCurrent
  <2>3. Jobs' /\ ServiceOK'
    BY <1>0, <1>12, <2>1, <2>2 DEF EndCurrent, Jobs, ServiceOK, registry
  <2>4. QED
    BY <1>1, <1>12, <2>2, <2>3 DEF EndCurrent
<1>13. CASE Start
  BY <1>1, <1>3, <1>13 DEF Start, requests, registry, Jobs, ServiceOK, BatchOK
<1>14. CASE Shutdown
  BY <1>1, <1>3, <1>14 DEF Shutdown, requests, registry, Jobs, ServiceOK, BatchOK
<1>15. CASE CloseExecutor
  BY <1>1, <1>2, <1>3, <1>15 DEF CloseExecutor, requests, registry, Jobs, ServiceOK
<1>16. CASE Manage
  <2>1. (phase # "closed") \in BOOLEAN /\ Managed(phase # "closed")
    BY <1>16 DEF Manage
  <2>2. Inv'
    BY <2>1, StepInv DEF RegistryNext, Assumptions
  <2>3. Len(loads') \in Nat /\ Len(loads) <= Len(loads')
    BY <2>1, LoadsGrow
  <2>4. Jobs' /\ ServiceOK'
    BY <1>0, <1>16, <2>3 DEF Manage, requests, service, Jobs, ServiceOK
  <2>5. QED
    BY <1>2, <1>3, <1>16, <2>2, <2>4 DEF Manage, requests, service
<1>17. CASE UNCHANGED vars
  BY <1>1, <1>2, <1>3, <1>17 DEF vars, requests, service, registry, Jobs, ServiceOK
<1>18. QED
  BY <1>4, <1>5, <1>6, <1>7, <1>8, <1>9, <1>10, <1>11, <1>12, <1>13, <1>14, <1>15, <1>16, <1>17
     DEF Next, Predict, Process

(* Type correctness of the service and of its registry.                    *)
THEOREM ServiceTypeCorrect == Spec => []TypeOK
<1>1. Assumptions
  BY RegistryAssumption, ServiceAssumption DEF Assumptions
<1>2. QED
  BY <1>1, ServiceInit, ServiceStep, InvImplies, PTL DEF Spec

(* However batches, refusals, predictions of several versions and          *)
(* shutdowns follow each other, no caller is given the response to         *)
(* another request.                                                        *)
THEOREM ResponsesReachTheirRequests == Spec => []AnswersMatchRequests
<1>1. Assumptions
  BY RegistryAssumption, ServiceAssumption DEF Assumptions
<1>2. QED
  BY <1>1, ServiceInit, ServiceStep, InvImplies, PTL DEF Spec
-----------------------------------------------------------------------------
(* Where a request is: called, queued, collected, computed or answered, and *)
(* among what is collected only the current one is computed.               *)

Distinct(s) == \A i, j \in DOMAIN s: s[i] = s[j] => i = j
LinesApart  == Distinct(queue) /\ Distinct(batch) /\ \A r: ~(In(r, queue) /\ In(r, batch))
CalledApart == \A r \in called: job[r] = 0 /\ ~In(r, queue) /\ ~In(r, batch)
Answered    == \A r \in Requests: answer[r] # NoAnswer =>
                 r \notin called /\ job[r] = 0 /\ ~In(r, queue) /\ ~In(r, batch)
JobsApart   == /\ \A r \in Requests: In(r, queue) => job[r] = 0
               /\ \A i \in DOMAIN batch: job[batch[i]] # 0 =>
                    processor \in {"processing", "stopped"} /\ i = Len(results) + 1
OnceInv == LinesApart /\ CalledApart /\ Answered /\ JobsApart

LEMMA OnceImplies == ServiceInv /\ OnceInv => InOnePlace
<1> SUFFICES ASSUME ServiceInv, OnceInv, NEW r \in Requests
             PROVE  /\ Cardinality(Places(r)) <= 1
                    /\ r \in called => job[r] = 0 /\ Places(r) = {}
                    /\ answer[r] # NoAnswer => r \notin called /\ job[r] = 0 /\ Places(r) = {}
  BY DEF InOnePlace
<1> DEFINE both == queue \o batch
<1>1. /\ queue \in Seq(Requests) /\ batch \in Seq(Requests)
      /\ Len(queue) \in Nat /\ Len(batch) \in Nat
      /\ DOMAIN queue = 1..Len(queue) /\ DOMAIN batch = 1..Len(batch)
  BY LenProperties DEF ServiceInv, ServiceOK, BatchOK
<1>2. /\ DOMAIN both = 1..Len(queue) + Len(batch)
      /\ \A i \in 1..Len(queue) + Len(batch):
           both[i] = IF i <= Len(queue) THEN queue[i] ELSE batch[i - Len(queue)]
  <2>1. /\ both \in Seq(Requests) /\ Len(both) = Len(queue) + Len(batch)
        /\ \A i \in 1..Len(queue) + Len(batch):
             both[i] = IF i <= Len(queue) THEN queue[i] ELSE batch[i - Len(queue)]
    BY <1>1, ConcatProperties
  <2>2. QED
    BY <2>1, LenProperties
<1>3. Places(r) = {i \in DOMAIN both: both[i] = r}
  BY DEF Places
<1> HIDE DEF both
<1>4. ASSUME NEW i \in Places(r)
      PROVE  \/ i \in DOMAIN queue /\ queue[i] = r
             \/ i - Len(queue) \in DOMAIN batch /\ batch[i - Len(queue)] = r /\ i \in Nat
  <2>1. i \in 1..Len(queue) + Len(batch) /\ both[i] = r
    BY <1>2, <1>3
  <2>2. i \in 1..Len(queue) \/ (~(i <= Len(queue)) /\ i - Len(queue) \in 1..Len(batch))
    BY <1>1, <2>1
  <2>3. QED
    BY <1>1, <1>2, <2>1, <2>2
<1>5. Places(r) # {} => In(r, queue) \/ In(r, batch)
  BY <1>4 DEF In
<1>6. \A i, j \in Places(r): i = j
  <2>1. ASSUME NEW i \in Places(r), NEW j \in Places(r) PROVE i = j
    <3>1. CASE In(r, queue)
      <4>1. i \in DOMAIN queue /\ queue[i] = r /\ j \in DOMAIN queue /\ queue[j] = r
        BY <1>4, <3>1 DEF OnceInv, LinesApart, In
      <4>2. QED
        BY <4>1 DEF OnceInv, LinesApart, Distinct
    <3>2. CASE ~In(r, queue)
      <4>1. /\ i - Len(queue) \in DOMAIN batch /\ batch[i - Len(queue)] = r /\ i \in Nat
            /\ j - Len(queue) \in DOMAIN batch /\ batch[j - Len(queue)] = r /\ j \in Nat
        BY <1>4, <3>2 DEF In
      <4>2. i - Len(queue) = j - Len(queue)
        BY <4>1 DEF OnceInv, LinesApart, Distinct
      <4>3. QED
        BY <1>1, <4>1, <4>2
    <3>3. QED
      BY <3>1, <3>2
  <2>2. QED
    BY <2>1
<1>7. Cardinality(Places(r)) <= 1
  <2>1. CASE Places(r) = {}
    BY <2>1, FS_EmptySet
  <2>2. CASE Places(r) # {}
    <3>1. PICK i \in Places(r): TRUE
      BY <2>2
    <3>2. Places(r) = {i}
      BY <1>6, <3>1
    <3>3. Cardinality({i}) = 1
      BY FS_Singleton
    <3>4. QED
      BY <3>2, <3>3
  <2>3. QED
    BY <2>1, <2>2
<1>8. QED
  BY <1>5, <1>7 DEF OnceInv, CalledApart, Answered

LEMMA OnceInit == Assumptions /\ Init => OnceInv
BY DEF Init, OnceInv, LinesApart, CalledApart, Answered, JobsApart, Distinct, In

(* A request that is nowhere but perhaps called.                           *)
Clear(r) == job[r] = 0 /\ ~In(r, queue) /\ ~In(r, batch)

LEMMA EnteringClear ==
  ASSUME OnceInv, NEW r \in Requests, Entering(r)
  PROVE  Clear(r)
BY DEF Entering, New, Clear, OnceInv, CalledApart

(* The processor's request: computed or not, it is in no other place.      *)
LEMMA CurrentOnce ==
  ASSUME ServiceInv, OnceInv, processor = "processing"
  PROVE  /\ Current \in Requests /\ Current \notin called /\ ~In(Current, queue)
         /\ answer[Current] = NoAnswer
         /\ Len(results) \in Nat /\ Len(results) + 1 \in DOMAIN batch
         /\ \A i \in DOMAIN batch: /\ batch[i] \in Requests
                                   /\ batch[i] = Current <=> i = Len(results) + 1
                                   /\ i # Len(results) + 1 => job[batch[i]] = 0
<1>1. /\ Len(results) \in Nat /\ Len(results) + 1 \in 1..Len(batch)
      /\ Current \in Requests /\ In(Current, batch)
  BY CurrentOK DEF ServiceInv
<1>2. DOMAIN batch = 1..Len(batch) /\ \A i \in DOMAIN batch: batch[i] \in Requests
  BY LenProperties, ElementOfSeq DEF ServiceInv, BatchOK
<1>3. \A i \in DOMAIN batch: batch[i] = Current <=> i = Len(results) + 1
  BY <1>1, <1>2 DEF Current, OnceInv, LinesApart, Distinct
<1>4. QED
  BY <1>1, <1>2, <1>3 DEF OnceInv, LinesApart, CalledApart, Answered, JobsApart

LEMMA RespondOnce ==
  ASSUME ServiceInv, OnceInv, processor = "processing", NEW response, Respond(response),
         job' = [job EXCEPT ![Current] = 0], UNCHANGED <<called, queue>>
  PROVE  OnceInv'
<1>1. /\ Current \in Requests /\ Len(results) \in Nat /\ Len(results) + 1 \in DOMAIN batch
      /\ \A i \in DOMAIN batch: /\ batch[i] \in Requests
                                /\ batch[i] = Current <=> i = Len(results) + 1
                                /\ i # Len(results) + 1 => job[batch[i]] = 0
  BY CurrentOnce
<1>2. \A r \in Requests: job'[r] = IF r = Current THEN 0 ELSE job[r]
  BY DEF ServiceInv, Jobs
<1>3. \A r \in Requests: In(r, batch) => job'[r] = 0
  BY <1>1, <1>2 DEF In
<1>4. CASE UNCHANGED <<answer, batch, processor>>
  <2>1. LinesApart' /\ CalledApart'
    BY <1>2, <1>4 DEF OnceInv, LinesApart, CalledApart, ServiceInv, ServiceOK
  <2>2. Answered'
    BY <1>2, <1>4 DEF OnceInv, Answered
  <2>3. JobsApart'
    <3>1. \A r \in Requests: In(r, queue) => job'[r] = 0
      BY <1>2 DEF OnceInv, JobsApart
    <3>2. \A i \in DOMAIN batch: job'[batch[i]] = 0
      BY <1>1, <1>2
    <3>3. QED
      BY <1>4, <3>1, <3>2 DEF JobsApart
  <2>4. QED
    BY <2>1, <2>2, <2>3 DEF OnceInv
<1>5. CASE /\ batch' = <<>>
           /\ \A r \in Requests: ~In(r, batch) => answer'[r] = answer[r]
  <2>1. \A r: ~In(r, batch')
    BY <1>5 DEF In
  <2>2. LinesApart' /\ CalledApart'
    BY <1>2, <1>5, <2>1 DEF OnceInv, LinesApart, CalledApart, ServiceInv, ServiceOK, Distinct
  <2>3. Answered'
    <3>1. ASSUME NEW r \in Requests, answer'[r] # NoAnswer
          PROVE  r \notin called /\ job'[r] = 0 /\ ~In(r, queue)
      <4>1. CASE In(r, batch)
        BY <1>3, <4>1 DEF OnceInv, LinesApart, CalledApart
      <4>2. CASE ~In(r, batch)
        BY <1>2, <1>5, <3>1, <4>2 DEF OnceInv, Answered
      <4>3. QED
        BY <4>1, <4>2
    <3>2. QED
      BY <2>1, <3>1 DEF Answered
  <2>4. JobsApart'
    BY <1>2, <1>5 DEF OnceInv, JobsApart
  <2>5. QED
    BY <2>2, <2>3, <2>4 DEF OnceInv
<1>6. QED
  BY <1>4, <1>5 DEF Respond

LEMMA OnceStep == Assumptions /\ ServiceInv /\ OnceInv /\ [Next]_vars => OnceInv'
<1> SUFFICES ASSUME Assumptions, ServiceInv, OnceInv, [Next]_vars PROVE OnceInv'
  OBVIOUS
<1>0. /\ called \subseteq Requests /\ queue \in Seq(Requests) /\ batch \in Seq(Requests)
      /\ Len(queue) \in Nat /\ Len(batch) \in Nat
      /\ DOMAIN queue = 1..Len(queue) /\ DOMAIN batch = 1..Len(batch)
      /\ \A i \in DOMAIN queue: queue[i] \in Requests
      /\ \A i \in DOMAIN batch: batch[i] \in Requests
      /\ \A r: In(r, queue) \/ In(r, batch) => r \in Requests
      /\ job \in [Requests -> 0..Len(loads)] /\ Len(loads) \in Nat
      /\ answer \in [Requests -> Response \cup {NoAnswer}]
  <2>1. /\ called \subseteq Requests /\ queue \in Seq(Requests) /\ batch \in Seq(Requests)
        /\ job \in [Requests -> 0..Len(loads)]
        /\ answer \in [Requests -> Response \cup {NoAnswer}]
    BY DEF ServiceInv, ServiceOK, BatchOK, Jobs, AnswersOK
  <2>2. loads \in Seq(Object)
    BY TypeParts DEF ServiceInv, Inv, ObjectsOK
  <2>3. QED
    BY <2>1, <2>2, LenProperties, ElementOfSeq DEF In
<1>1. /\ LinesApart /\ CalledApart /\ Answered /\ JobsApart
  BY DEF OnceInv
<1>2. UNCHANGED <<queue, batch>> => LinesApart'
  BY <1>1 DEF LinesApart
<1>3. ASSUME NEW r \in Requests, RefusePredict(r) PROVE OnceInv'
  <2>1. /\ Clear(r) /\ called' = called \ {r} /\ answer' = [answer EXCEPT ![r] = Refusal(r)]
        /\ UNCHANGED <<queue, batch, results, job, processor>>
    BY <1>3, EnteringClear DEF RefusePredict, service
  <2>2. \A x \in Requests: x # r => answer'[x] = answer[x]
    BY <1>0, <2>1
  <2>3. Answered'
    BY <1>1, <2>1, <2>2 DEF Answered, Clear
  <2>4. CalledApart' /\ JobsApart'
    BY <1>1, <2>1 DEF CalledApart, JobsApart
  <2>5. QED
    BY <1>2, <2>1, <2>3, <2>4 DEF OnceInv
<1>4. ASSUME NEW r \in Requests, BeginPredict(r) PROVE OnceInv'
  <2>1. /\ Clear(r) /\ called' = called \ {r} /\ job' = [job EXCEPT ![r] = engine]
        /\ UNCHANGED <<queue, batch, results, answer, processor>> /\ answer[r] = NoAnswer
    <3>1. answer[r] = NoAnswer
      BY <1>1, <1>4 DEF BeginPredict, Entering, New, Answered
    <3>2. QED
      BY <1>4, <3>1, EnteringClear DEF BeginPredict, service
  <2>2. \A x \in Requests: x # r => job'[x] = job[x]
    BY <1>0, <2>1
  <2>3. Answered' /\ CalledApart'
    BY <1>0, <1>1, <2>1, <2>2 DEF Answered, CalledApart
  <2>4. JobsApart'
    <3>1. \A x \in Requests: In(x, queue) => job'[x] = 0
      BY <1>1, <2>1, <2>2 DEF JobsApart, Clear
    <3>2. \A i \in DOMAIN batch: batch[i] # r /\ job'[batch[i]] = job[batch[i]]
      BY <1>0, <2>1, <2>2 DEF Clear, In
    <3>3. QED
      BY <1>1, <2>1, <3>1, <3>2 DEF JobsApart
  <2>5. QED
    BY <1>2, <2>1, <2>3, <2>4 DEF OnceInv
<1>5. ASSUME NEW r \in Requests, EndPredict(r) PROVE OnceInv'
  <2>1. /\ job[r] # 0 /\ ~In(r, batch) /\ job' = [job EXCEPT ![r] = 0]
        /\ answer' = [answer EXCEPT ![r] = Prediction(r)]
        /\ UNCHANGED <<called, queue, batch, results, processor>>
    BY <1>5 DEF EndPredict, service
  <2>2. \A x \in Requests: x # r => job'[x] = job[x] /\ answer'[x] = answer[x]
    BY <1>0, <2>1
  <2>3. r \notin called /\ ~In(r, queue) /\ job'[r] = 0
    BY <1>0, <1>1, <2>1 DEF CalledApart, JobsApart
  <2>4. Answered' /\ CalledApart'
    BY <1>0, <1>1, <2>1, <2>2, <2>3 DEF Answered, CalledApart
  <2>5. JobsApart'
    <3>1. \A i \in DOMAIN batch: job'[batch[i]] = job[batch[i]]
      BY <1>0, <2>1, <2>2 DEF In
    <3>2. \A x \in Requests: In(x, queue) => job'[x] = 0
      BY <1>1, <2>2, <2>3 DEF JobsApart
    <3>3. QED
      BY <1>1, <2>1, <3>1, <3>2 DEF JobsApart
  <2>6. QED
    BY <1>2, <2>1, <2>4, <2>5 DEF OnceInv
<1>6. ASSUME NEW b \in Batches, PredictBatch(b) PROVE OnceInv'
  <2>1. /\ b \in Seq(Requests) /\ Len(b) \in Nat /\ DOMAIN b = 1..Len(b) /\ Distinct(b)
        /\ \A i \in DOMAIN b: b[i] \in Requests
    BY LenProperties, ElementOfSeq DEF Assumptions, ServiceAssumption, Distinct
  <2>2. /\ \A i \in DOMAIN b: New(b[i])
        /\ UNCHANGED <<batch, results, job, answer, processor>>
    BY <1>6 DEF PredictBatch, service
  <2>3. CASE called' = called \cup {b[i]: i \in DOMAIN b} /\ UNCHANGED queue
    <3>1. Answered' /\ CalledApart' /\ JobsApart'
      BY <1>1, <2>1, <2>2, <2>3 DEF Answered, CalledApart, JobsApart, New
    <3>2. QED
      BY <1>2, <2>2, <2>3, <3>1 DEF OnceInv
  <2>4. CASE queue' = queue \o b /\ UNCHANGED called
    <3> DEFINE all == queue \o b
    <3>1. /\ DOMAIN all = 1..Len(queue) + Len(b)
          /\ \A i \in 1..Len(queue) + Len(b): all[i] = IF i <= Len(queue) THEN queue[i] ELSE b[i - Len(queue)]
      <4>1. /\ all \in Seq(Requests) /\ Len(all) = Len(queue) + Len(b)
            /\ \A i \in 1..Len(queue) + Len(b): all[i] = IF i <= Len(queue) THEN queue[i] ELSE b[i - Len(queue)]
        BY <1>0, <2>1, ConcatProperties
      <4>2. QED
        BY <4>1, LenProperties
    <3>2. queue' = all
      BY <2>4
    <3> HIDE DEF all
    <3>3. ASSUME NEW i \in DOMAIN all
          PROVE  \/ i \in DOMAIN queue /\ all[i] = queue[i]
                 \/ i \in Nat /\ i - Len(queue) \in DOMAIN b /\ all[i] = b[i - Len(queue)]
      <4>1. i \in 1..Len(queue) \/ (~(i <= Len(queue)) /\ i - Len(queue) \in 1..Len(b))
        BY <1>0, <2>1, <3>1
      <4>2. QED
        BY <1>0, <2>1, <3>1, <4>1
    <3>4. \A r: In(r, all) => In(r, queue) \/ In(r, b)
      BY <3>3 DEF In
    <3>5. \A r: In(r, b) => New(r)
      BY <2>2 DEF In
    <3>6. Distinct(all)
      <4>1. ASSUME NEW i \in DOMAIN all, NEW j \in DOMAIN all, all[i] = all[j] PROVE i = j
        <5>1. CASE i \in DOMAIN queue /\ all[i] = queue[i]
          <6>1. ~In(all[j], b)
            BY <3>5, <4>1, <5>1 DEF New, In
          <6>2. j \in DOMAIN queue /\ all[j] = queue[j]
            BY <3>3, <6>1 DEF In
          <6>3. QED
            BY <1>1, <4>1, <5>1, <6>2 DEF LinesApart, Distinct
        <5>2. CASE i \in Nat /\ i - Len(queue) \in DOMAIN b /\ all[i] = b[i - Len(queue)]
          <6>1. ~In(all[j], queue)
            BY <3>5, <4>1, <5>2 DEF New, In
          <6>2. j \in Nat /\ j - Len(queue) \in DOMAIN b /\ all[j] = b[j - Len(queue)]
            BY <3>3, <6>1 DEF In
          <6>3. i - Len(queue) = j - Len(queue)
            BY <2>1, <4>1, <5>2, <6>2 DEF Distinct
          <6>4. QED
            BY <1>0, <5>2, <6>2, <6>3
        <5>3. QED
          BY <3>3, <5>1, <5>2
      <4>2. QED
        BY <4>1 DEF Distinct
    <3>7. LinesApart'
      BY <1>1, <2>2, <3>2, <3>4, <3>5, <3>6 DEF LinesApart, New
    <3>8. CalledApart' /\ Answered' /\ JobsApart'
      BY <1>1, <2>2, <2>4, <3>2, <3>4, <3>5 DEF CalledApart, Answered, JobsApart, New
    <3>9. QED
      BY <3>7, <3>8 DEF OnceInv
  <2>5. QED
    BY <1>6, <2>3, <2>4 DEF PredictBatch
<1>7. CASE CollectRequest
  <2> DEFINE r == Head(queue)
  <2>1. /\ batch' = Append(batch, r) /\ queue' = Tail(queue) /\ processor = "collecting"
        /\ UNCHANGED <<called, results, job, answer, processor>> /\ queue # <<>>
    BY <1>7 DEF CollectRequest, service
  <2>2. /\ r \in Requests /\ r = queue[1] /\ 1 \in DOMAIN queue /\ Len(queue) > 0
        /\ DOMAIN queue' = 1..(Len(queue) - 1)
        /\ \A i \in 1..(Len(queue) - 1): queue'[i] = queue[i + 1] /\ i + 1 \in DOMAIN queue
    <3>1. Len(queue) > 0
      BY <1>0, <2>1, EmptySeq
    <3>2. /\ r \in Requests /\ Tail(queue) \in Seq(Requests) /\ Len(Tail(queue)) = Len(queue) - 1
          /\ \A i \in 1..Len(Tail(queue)): Tail(queue)[i] = queue[i + 1]
      BY <1>0, <2>1, HeadTailProperties
    <3>3. DOMAIN Tail(queue) = 1..(Len(queue) - 1)
      BY <3>2, LenProperties
    <3>4. r = queue[1]
      BY <1>0, <3>1
    <3>5. \A i \in 1..(Len(queue) - 1): i + 1 \in 1..Len(queue)
      BY <1>0
    <3>6. QED
      BY <1>0, <2>1, <3>1, <3>2, <3>3, <3>4, <3>5
  <2>3. /\ DOMAIN batch' = 1..(Len(batch) + 1) /\ batch'[Len(batch) + 1] = r
        /\ \A i \in 1..Len(batch): batch'[i] = batch[i]
    BY <1>0, <2>1, <2>2
  <2> HIDE DEF r
  <2>4. In(r, queue) /\ ~In(r, batch) /\ r \notin called /\ job[r] = 0
    <3>1. In(r, queue)
      BY <2>2 DEF In
    <3>2. QED
      BY <1>1, <2>2, <3>1 DEF LinesApart, CalledApart, JobsApart
  <2>5. \A x: In(x, queue') => In(x, queue) /\ x # r
    <3>1. ASSUME NEW i \in 1..(Len(queue) - 1) PROVE queue[i + 1] # r /\ i + 1 \in DOMAIN queue
      <4>1. i + 1 # 1 /\ i + 1 \in DOMAIN queue
        BY <1>0, <2>2
      <4>2. QED
        BY <1>1, <2>2, <4>1 DEF LinesApart, Distinct
    <3>2. QED
      BY <2>2, <3>1 DEF In
  <2>6. \A x: In(x, batch') => In(x, batch) \/ x = r
    <3>1. \A i \in 1..(Len(batch) + 1): i \in 1..Len(batch) \/ i = Len(batch) + 1
      BY <1>0
    <3>2. QED
      BY <1>0, <2>3, <3>1 DEF In
  <2>7. Distinct(queue') /\ Distinct(batch')
    <3>1. ASSUME NEW i \in DOMAIN queue', NEW j \in DOMAIN queue', queue'[i] = queue'[j] PROVE i = j
      <4>1. i + 1 = j + 1
        BY <1>1, <2>2, <3>1 DEF LinesApart, Distinct
      <4>2. QED
        BY <1>0, <2>2, <4>1
    <3>2. ASSUME NEW i \in DOMAIN batch', NEW j \in DOMAIN batch', batch'[i] = batch'[j] PROVE i = j
      <4>1. \A k \in DOMAIN batch': k \in DOMAIN batch \/ k = Len(batch) + 1
        <5>1. \A k \in 1..(Len(batch) + 1): k \in 1..Len(batch) \/ k = Len(batch) + 1
          BY <1>0
        <5>2. QED
          BY <1>0, <2>3, <5>1
      <4>2. \A k \in DOMAIN batch: batch'[k] = batch[k] /\ batch[k] # r
        BY <1>0, <2>3, <2>4 DEF In
      <4>3. QED
        BY <1>1, <2>3, <3>2, <4>1, <4>2 DEF LinesApart, Distinct
    <3>3. QED
      BY <3>1, <3>2 DEF Distinct
  <2>8. LinesApart'
    BY <1>1, <2>4, <2>5, <2>6, <2>7 DEF LinesApart
  <2>9. CalledApart' /\ Answered'
    BY <1>1, <2>1, <2>2, <2>4, <2>5, <2>6 DEF CalledApart, Answered
  <2>10. JobsApart'
    <3>1. \A x \in Requests: In(x, queue') => job[x] = 0
      BY <1>1, <2>5 DEF JobsApart
    <3>2. \A i \in DOMAIN batch: job[batch[i]] = 0
      BY <1>1, <2>1 DEF JobsApart
    <3>3. \A i \in DOMAIN batch': job[batch'[i]] = 0
      <4>1. \A i \in DOMAIN batch': i \in DOMAIN batch \/ i = Len(batch) + 1
        BY <1>0, <2>3
      <4>2. QED
        BY <1>0, <2>3, <2>4, <3>2, <4>1
    <3>4. QED
      BY <2>1, <3>1, <3>3 DEF JobsApart
  <2>11. QED
    BY <2>8, <2>9, <2>10 DEF OnceInv
<1>8. CASE CloseBatch \/ Start \/ Shutdown
  <2>1. UNCHANGED requests
    BY <1>8 DEF CloseBatch, Start, Shutdown, requests
  <2>2. \/ processor' = processor
        \/ \A i \in DOMAIN batch: job[batch[i]] = 0
        \/ processor = "processing" /\ processor' = "stopped"
    <3>1. processor \in {"off", "collecting", "processing", "stopped"}
      BY DEF ServiceInv, ServiceOK
    <3>2. processor \in {"off", "collecting"} => \A i \in DOMAIN batch: job[batch[i]] = 0
      BY <1>1 DEF JobsApart
    <3>3. QED
      BY <1>8, <3>1, <3>2 DEF CloseBatch, Start, Shutdown
  <2>3. JobsApart'
    <3>1. UNCHANGED <<queue, batch, results, job>>
      BY <2>1 DEF requests
    <3>2. QED
      BY <1>1, <2>2, <3>1 DEF JobsApart
  <2>4. LinesApart' /\ CalledApart' /\ Answered'
    BY <1>1, <2>1 DEF requests, LinesApart, CalledApart, Answered
  <2>5. QED
    BY <2>3, <2>4 DEF OnceInv
<1>9. CASE RefuseCurrent
  <2>1. processor = "processing" /\ Respond(Refusal(Current)) /\ UNCHANGED <<called, queue, job>>
        /\ job[Current] = 0
    BY <1>9 DEF RefuseCurrent
  <2>2. job' = [job EXCEPT ![Current] = 0]
    BY <1>0, <2>1, CurrentOnce
  <2>3. QED
    BY <2>1, <2>2, RespondOnce
<1>10. CASE EndCurrent
  BY <1>10, RespondOnce DEF EndCurrent
<1>11. CASE BeginCurrent
  <2>1. /\ processor = "processing" /\ job' = [job EXCEPT ![Current] = engine]
        /\ UNCHANGED <<called, queue, batch, results, answer, processor>>
    BY <1>11 DEF BeginCurrent, service
  <2>2. /\ Current \in Requests /\ Current \notin called /\ ~In(Current, queue)
        /\ answer[Current] = NoAnswer
        /\ \A i \in DOMAIN batch: batch[i] = Current <=> i = Len(results) + 1
    <3>1. processor = "processing"
      BY <2>1
    <3>2. /\ Current \in Requests /\ Current \notin called /\ ~In(Current, queue)
          /\ answer[Current] = NoAnswer
          /\ Len(results) \in Nat /\ Len(results) + 1 \in DOMAIN batch
          /\ \A i \in DOMAIN batch: /\ batch[i] \in Requests
                                    /\ batch[i] = Current <=> i = Len(results) + 1
                                    /\ i # Len(results) + 1 => job[batch[i]] = 0
      BY <3>1, CurrentOnce
    <3>3. QED
      BY <3>2
  <2>3. \A x \in Requests: x # Current => job'[x] = job[x]
    BY <1>0, <2>1
  <2>4. LinesApart' /\ CalledApart' /\ Answered'
    BY <1>0, <1>1, <1>2, <2>1, <2>2, <2>3 DEF CalledApart, Answered
  <2>5. JobsApart'
    BY <1>0, <1>1, <2>1, <2>2, <2>3 DEF JobsApart
  <2>6. QED
    BY <2>4, <2>5 DEF OnceInv
<1>12. CASE CloseExecutor \/ Manage \/ UNCHANGED vars
  <2>1. UNCHANGED <<called, queue, batch, results, job, answer, processor>>
    BY <1>12 DEF CloseExecutor, Manage, vars, requests, service
  <2>2. QED
    BY <1>1, <2>1 DEF OnceInv, LinesApart, CalledApart, Answered, JobsApart
<1>13. QED
  BY <1>3, <1>4, <1>5, <1>6, <1>7, <1>8, <1>9, <1>10, <1>11, <1>12 DEF Next, Predict, Process

(* A request is in one place, once, and in none when it has its answer, so *)
(* no future is resolved twice, whatever is refused, switched or shut down.*)
THEOREM RequestsStayInOnePlace == Spec => []InOnePlace
<1>1. Assumptions
  BY RegistryAssumption, ServiceAssumption DEF Assumptions
<1>2. QED
  BY <1>1, ServiceInit, ServiceStep, OnceInit, OnceStep, OnceImplies, PTL DEF Spec
================================================================================
