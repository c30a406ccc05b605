------------------------------ MODULE ModelRegistry ------------------------------
(***************************************************************************)
(* The versions of one model in InferenceService: the version objects with *)
(* their status, the engine that answers, and the cache of loaded models.  *)
(* The three operations hold an asyncio lock, but load_model waits for the *)
(* warm-up, so requests are served in the middle of it.                    *)
(* A load makes a new ModelVersion object; objects are named by the order  *)
(* of the loads, because a version may be loaded again.                    *)
(***************************************************************************)
EXTENDS Integers, Sequences, FiniteSets

CONSTANTS Versions,   \* versions of the model
          NoVersion,  \* the version of an error response
          CacheSize,  \* MODEL_CACHE_SIZE
          MaxLoads    \* bound: calls of load_model

ASSUME RegistryAssumption == /\ NoVersion \notin Versions
                             /\ CacheSize \in Nat \ {0} /\ MaxLoads \in Nat

VARIABLES loads,     \* the ModelVersion objects made so far
          versions,  \* _versions: the object of each registered version, or 0
          active,    \* _active_versions of the model
          engine,    \* _engines: the object of the engine that answers, or 0
          loading,   \* the call of load_model that waits for its warm-up, if any
          cache      \* _loaded_models and _load_order

registry == <<loads, versions, active, engine, loading, cache>>

Statuses == {"warming", "ready", "serving", "unloading"}
Objects  == 1..MaxLoads
Idle     == [object |-> 0, set_active |-> FALSE]

RegistryTypeOK ==
  /\ loads \in Seq([version: Versions, status: Statuses]) /\ Len(loads) <= MaxLoads
  /\ versions \in [Versions -> 0..Len(loads)]
  /\ active \in Versions \cup {NoVersion}
  /\ engine \in 0..Len(loads)
  /\ loading \in [object: 0..Len(loads), set_active: BOOLEAN]
  /\ cache \in [models: SUBSET Versions, order: Seq(Versions)]
  /\ Len(cache.order) <= CacheSize

RegistryInit ==
  /\ loads = <<>> /\ versions = [v \in Versions |-> 0]
  /\ active = NoVersion /\ engine = 0 /\ loading = Idle
  /\ cache = [models |-> {}, order |-> <<>>]

-----------------------------------------------------------------------------
(* Mutant: one more than fits is kept.                                      *)
EvictedLate(c) ==
  IF Cardinality(c.models) > CacheSize /\ c.order # <<>>
  THEN [models |-> c.models \ {Head(c.order)}, order |-> Tail(c.order)]
  ELSE c

(* cache_model evicts the oldest key when the cache is full; the order is a *)
(* deque of that length, which drops its first key when it grows beyond.    *)
Evicted(c) ==
  IF Cardinality(c.models) >= CacheSize /\ c.order # <<>>
  THEN [models |-> c.models \ {Head(c.order)}, order |-> Tail(c.order)]
  ELSE c

Cached(c, v) ==
  LET e == Evicted(c)
      o == Append(e.order, v)
  IN  [models |-> e.models \cup {v}, order |-> IF Len(o) > CacheSize THEN Tail(o) ELSE o]

Status(n, s) == loads' = [loads EXCEPT ![n].status = s]

Serve(n) ==
  /\ engine' = n
  /\ active' = loads[n].version

(* Mutant: the object of a version loaded before is used again.            *)
RegisterInPlace(v, s) ==
  /\ loading = Idle
  /\ Len(loads) < MaxLoads
  /\ loads' = [n \in 1..Len(loads) + 1 |->
                 IF n > Len(loads) \/ n = versions[v] THEN [version |-> v, status |-> s] ELSE loads[n]]
  /\ versions' = [versions EXCEPT ![v] = Len(loads) + 1]
  /\ cache' = Cached(cache, v)

(* load_model makes, registers and caches the model.                       *)
Register(v, s) ==
  /\ loading = Idle
  /\ Len(loads) < MaxLoads
  /\ loads' = Append(loads, [version |-> v, status |-> s])
  /\ versions' = [versions EXCEPT ![v] = Len(loads) + 1]
  /\ cache' = Cached(cache, v)

(* With a warm-up it waits there, with the lock.                           *)
StartLoad(v, set_active) ==
  /\ Register(v, "warming")
  /\ loading' = [object |-> Len(loads) + 1, set_active |-> set_active]
  /\ UNCHANGED <<active, engine>>

FinishLoad ==
  /\ loading # Idle
  /\ IF loading.set_active THEN Status(loading.object, "serving") /\ Serve(loading.object)
                           ELSE Status(loading.object, "ready") /\ UNCHANGED <<engine, active>>
  /\ loading' = Idle
  /\ UNCHANGED <<versions, cache>>

(* Without one it does not wait.                                           *)
LoadCold(v, set_active) ==
  /\ Register(v, IF set_active THEN "serving" ELSE "ready")
  /\ IF set_active THEN engine' = Len(loads) + 1 /\ active' = v ELSE UNCHANGED <<engine, active>>
  /\ UNCHANGED loading

(* The executor no longer takes the warm-up; what was registered stays.    *)
FailLoad(v) ==
  /\ Register(v, "warming")
  /\ UNCHANGED <<active, engine, loading>>

(* Without a wait: the model comes from the cache or is read again.        *)
SwitchModelVersion(v) ==
  /\ loading = Idle
  /\ versions[v] # 0
  /\ cache' = IF v \in cache.models THEN cache ELSE Cached(cache, v)
  /\ Serve(versions[v])
  /\ Status(versions[v], "serving")
  /\ UNCHANGED <<versions, loading>>

(* The active version of the registry stays.                               *)
UnloadModel ==
  /\ loading = Idle
  /\ engine # 0
  /\ Status(engine, "unloading")
  /\ engine' = 0
  /\ UNCHANGED <<versions, active, loading, cache>>

Managed(executor_open) ==
  \/ \E v \in Versions, set_active \in BOOLEAN:
       (executor_open /\ StartLoad(v, set_active)) \/ LoadCold(v, set_active)
  \/ FinishLoad
  \/ \E v \in Versions: (~executor_open /\ FailLoad(v)) \/ SwitchModelVersion(v)
  \/ UnloadModel

RegistryNext == \E executor_open \in BOOLEAN: Managed(executor_open)

RegistrySpec == RegistryInit /\ [][RegistryNext]_registry
-----------------------------------------------------------------------------
(* The engine that requests are given is the active version's and has done *)
(* its warm-up, while loads of the same and of other versions come and go: *)
(* ready (1780) counts engines by that status.                             *)
EngineServes ==
  engine # 0 => loads[engine].status = "serving" /\ loads[engine].version = active

(* While no version is loaded a second time, the cache keeps to its size   *)
(* and its order lists exactly what it holds, so that there always is an   *)
(* oldest to evict (912), also after a switch to a version that had been   *)
(* evicted.  (A reload breaks both.)                                       *)
CacheWithinSize ==
  (\A m, n \in DOMAIN loads: loads[m].version = loads[n].version => m = n) =>
    /\ Cardinality(cache.models) <= CacheSize
    /\ Len(cache.order) = Cardinality(cache.models)
    /\ cache.models = {cache.order[i]: i \in DOMAIN cache.order}
=================================================================================
