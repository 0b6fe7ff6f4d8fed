----------------------------- MODULE CacheStore -----------------------------
(***************************************************************************)
(* The pod and model cache of the gateway (pkg/cache).  The handlers of    *)
(* two informers, of pods and of model adapters, keep it under one lock.   *)
(* Requests list the pods of their model and count themselves on the model *)
(* and on their pod without that lock.  The list of a model's pods is a    *)
(* registry (utils/registry.go) with a cached array that a writer resets   *)
(* before it takes the registry's own lock.                                *)
(***************************************************************************)
EXTENDS Integers, Sequences, FiniteSets

CONSTANTS
  Pods, Requests,
  Models,        \* what a pod's label may name
  Adapters,      \* the model adapters
  Absent,        \* no such object
  MaxEvents      \* bound: the events of both informers

Names == Models \cup Adapters

\* A pod is labelled with a model, as a ray worker of one, or not at all.
Kinds == Models \cup {"worker", "unlabelled"}

\* What metaPods holds of a cached pod.
PodEntry == [models : SUBSET Names, running : Int]

ASSUME CacheStoreConstants ==
  /\ IsFiniteSet(Pods) /\ IsFiniteSet(Requests) /\ IsFiniteSet(Names)
  /\ Models \cap Adapters = {} /\ MaxEvents \in Nat
  /\ Absent \notin Nat \cup Pods \cup Kinds \cup PodEntry

VARIABLES
  cluster,       \* the pod objects of the informer, by kind
  instances,     \* the adapters of the informer: Status.Instances
  events,        \* the events so far
  metaPods,      \* the cached pods: their models and runningRequests
  metaModels,    \* the object of each cached model
  object,        \* Pods (the registry, its cached array) and pendingRequests of each
                 \* one made so far: a reader may hold one no longer in the map
  todo,          \* what the handler that holds the lock has yet to do
  pc, model, held, target   \* of the requests

informers == <<cluster, instances, events>>
store == <<metaPods, metaModels, object>>
requests == <<pc, model, held, target>>
vars == <<informers, store, todo, requests>>

Empty == [pods |-> {}, array |-> Absent, pending |-> 0]

Init ==
  /\ cluster = [p \in Pods |-> Absent] /\ instances = [a \in Adapters |-> Absent]
  /\ events = 0
  /\ metaPods = [p \in Pods |-> Absent] /\ metaModels = [m \in Names |-> Absent]
  /\ object = <<>>
  /\ todo = <<>>
  /\ pc = [r \in Requests |-> "start"] /\ model \in [Requests -> Names]
  /\ held = [r \in Requests |-> Absent] /\ target = [r \in Requests |-> Absent]

-----------------------------------------------------------------------------
(* The handlers.  An event changes the informer's object and the map of the   *)
(* pods; the mappings follow one by one, while requests read them.            *)

Op(op, p, m) == [op |-> op, pod |-> p, model |-> m]

Each(op, p, ms) == {Op(op, p, m) : m \in ms}

\* The operations of a set, in some order.
Orders(S) ==
  {f \in [1..Cardinality(S) -> S] : \A i, j \in DOMAIN f : i # j => f[i] # f[j]}

Tracked(kind) == kind \in Models

\* The lock is free, and an event comes.
Event ==
  /\ todo = <<>> /\ events < MaxEvents
  /\ events' = events + 1
  /\ UNCHANGED <<metaModels, object, requests>>

NewPod == [models |-> {}, running |-> 0]

\* addPodLocked, then addPodAndModelMappingLocked
Add(p, kind) == <<Op("create", p, kind), Op("store", p, kind)>>

addPod(p, kind) ==
  /\ Event /\ cluster[p] = Absent
  /\ cluster' = [cluster EXCEPT ![p] = kind]
  /\ todo' = IF Tracked(kind) THEN Add(p, kind) ELSE <<>>
  /\ UNCHANGED <<instances, metaPods>>

ModelsOf(p) == IF metaPods[p] = Absent THEN {} ELSE metaPods[p].models

\* Mutant of Unmap: only the mapping of the label is deleted.
UnmapLabelOnly(p) == Each("delete", p, ModelsOf(p) \cap {cluster[p]})

\* The mappings that go with a cached pod: of its model and of its adapters.
Unmap(p) == Each("delete", p, ModelsOf(p))

\* The pod is deleted from the cache and, unless it is or was a worker, added again,
\* with no adapter and with a running count of 0.
updatePod(p, kind) ==
  /\ Event /\ cluster[p] # Absent
  /\ cluster' = [cluster EXCEPT ![p] = kind]
  /\ metaPods' = [metaPods EXCEPT ![p] = Absent]
  /\ \E dels \in Orders(Unmap(p)) :
       todo' = dels \o IF Tracked(kind) /\ cluster[p] # "worker" THEN Add(p, kind) ELSE <<>>
  /\ UNCHANGED instances

deletePod(p) ==
  /\ Event /\ cluster[p] # Absent
  /\ cluster' = [cluster EXCEPT ![p] = Absent]
  /\ metaPods' = [metaPods EXCEPT ![p] = Absent]
  /\ \E dels \in Orders(Unmap(p)) : todo' = dels
  /\ UNCHANGED instances

\* The adapter is added, changed or deleted: the mappings of its old instances go,
\* those of its new ones come.
Instances(a) == IF instances[a] = Absent THEN {} ELSE instances[a]

adapterEvent(a, new) ==
  /\ Event
  /\ instances' = [instances EXCEPT ![a] = new]
  /\ \E dels \in Orders({Op("remove", p, a) : p \in Instances(a)}),
        adds \in Orders({Op("store", p, a) : p \in IF new = Absent THEN {} ELSE new}) :
       todo' = dels \o adds
  /\ UNCHANGED <<cluster, metaPods>>

addModelAdapter(a, new) == instances[a] = Absent /\ new # Absent /\ adapterEvent(a, new)

updateModelAdapter(a, new) == instances[a] # Absent /\ new # Absent /\ adapterEvent(a, new)

deleteModelAdapter(a) == instances[a] # Absent /\ adapterEvent(a, Absent)

-----------------------------------------------------------------------------
\* The handler's next operation, and the object it is for.

Next1 == Head(todo)

\* addPodLocked
CreatePod ==
  /\ todo # <<>> /\ Next1.op = "create"
  /\ metaPods' = [metaPods EXCEPT ![Next1.pod] = NewPod]
  /\ todo' = Tail(todo)
  /\ UNCHANGED <<informers, metaModels, object, requests>>

\* What an operation does to the models of its pod, if that is cached.
MapPod(op, p, m) ==
  metaPods' =
    IF metaPods[p] = Absent THEN metaPods
    ELSE [metaPods EXCEPT ![p].models = CASE op = "store"  -> @ \cup {m}
                                          [] op = "remove" -> @ \ {m}
                                          [] OTHER         -> @]

\* addPodAndModelMappingLockedByName does nothing for a pod that is not cached, nor
\* does deletePodAndModelMappingLocked change a model that is not.
Skip ==
  /\ todo # <<>>
  /\ \/ Next1.op = "store" /\ metaPods[Next1.pod] = Absent
     \/ Next1.op \in {"remove", "delete"} /\ metaModels[Next1.model] = Absent
  /\ MapPod(Next1.op, Next1.pod, Next1.model)
  /\ todo' = Tail(todo)
  /\ UNCHANGED <<informers, metaModels, object, requests>>

\* metaModels.LoadOrStore, and metaPod.Models: then Store or Delete of the registry
\* resets the cached array, without a lock.
ResetArray ==
  /\ todo # <<>> /\ Next1.op \in {"store", "remove", "delete"}
  /\ LET m == Next1.model
         p == Next1.pod
         fresh == metaModels[m] = Absent
     IN  /\ IF Next1.op = "store" THEN metaPods[p] # Absent ELSE ~fresh
         /\ metaModels' = IF fresh THEN [metaModels EXCEPT ![m] = Len(object) + 1]
                          ELSE metaModels
         /\ object' = IF fresh THEN Append(object, Empty)
                      ELSE [object EXCEPT ![metaModels[m]].array = Absent]
         /\ MapPod(Next1.op, p, m)
         /\ todo' = <<Op(IF Next1.op = "store" THEN "put" ELSE "drop", p, m)>> \o Tail(todo)
  /\ UNCHANGED <<informers, requests>>

\* The registry under its lock, and a model that has no pods left is dropped.
ChangeRegistry ==
  /\ todo # <<>> /\ Next1.op \in {"put", "drop"}
  /\ LET o == metaModels[Next1.model]
         left == object[o].pods \ {Next1.pod}
     IN  IF Next1.op = "put"
         THEN /\ object' = [object EXCEPT ![o].pods = @ \cup {Next1.pod}]
              /\ UNCHANGED metaModels
         ELSE /\ object' = [object EXCEPT ![o].pods = left]
              /\ metaModels' = [metaModels EXCEPT ![Next1.model] =
                                  IF left = {} THEN Absent ELSE @]
  /\ todo' = Tail(todo)
  /\ UNCHANGED <<informers, metaPods, requests>>

Handler ==
  \/ \E p \in Pods, kind \in Kinds : addPod(p, kind)
  \/ \E p \in Pods, kind \in Kinds : updatePod(p, kind)
  \/ \E p \in Pods : deletePod(p)
  \/ \E a \in Adapters, new \in SUBSET Pods : addModelAdapter(a, new)
  \/ \E a \in Adapters, new \in SUBSET Pods : updateModelAdapter(a, new)
  \/ \E a \in Adapters : deleteModelAdapter(a)
  \/ CreatePod
  \/ Skip
  \/ ResetArray
  \/ ChangeRegistry

-----------------------------------------------------------------------------
(* A request, from HandleRequestBody to the end.                              *)

\* ListPodsByModel: metaModels.Load
LoadModel(r) ==
  /\ pc[r] = "start" /\ metaModels[model[r]] # Absent
  /\ pc' = [pc EXCEPT ![r] = "list"]
  /\ held' = [held EXCEPT ![r] = metaModels[model[r]]]
  /\ UNCHANGED <<informers, store, todo, model, target>>

\* A pod of the list is chosen, or the request is refused for want of one.
RouteTo(r, pods) ==
  \/ \E p \in pods : /\ target' = [target EXCEPT ![r] = p]
                     /\ pc' = [pc EXCEPT ![r] = "routed"]
  \/ /\ pods = {}
     /\ pc' = [pc EXCEPT ![r] = "ended"] /\ UNCHANGED target

\* Array: the cached array if there is one.
ReadArray(r) ==
  LET array == object[held[r]].array IN
  /\ pc[r] = "list"
  /\ \/ array # Absent /\ RouteTo(r, array)
     \/ array = Absent /\ pc' = [pc EXCEPT ![r] = "rebuild"] /\ UNCHANGED target
  /\ UNCHANGED <<informers, store, todo, model, held>>

\* Array: updateArrayLocked, under the lock.  A reader that finds the array rebuilt
\* meanwhile and the base array valid keeps it: it is what the registry holds.
RebuildArray(r) ==
  LET pods == object[held[r]].pods IN
  /\ pc[r] = "rebuild"
  /\ object' = [object EXCEPT ![held[r]].array = pods]
  /\ RouteTo(r, pods)
  /\ UNCHANGED <<informers, metaPods, metaModels, todo, model, held>>

CountOn(r, d) ==
  LET m == metaModels[model[r]] IN
  object' = IF m = Absent THEN object ELSE [object EXCEPT ![m].pending = @ + d]

RunOn(r, d) ==
  LET p == target[r] IN
  metaPods' = IF metaPods[p] = Absent THEN metaPods
              ELSE [metaPods EXCEPT ![p].running = @ + d]

\* The loads of the model and of the pod and the atomic additions, in one step.
AddRequestCount(r) ==
  /\ pc[r] = "routed"
  /\ pc' = [pc EXCEPT ![r] = "counted"]
  /\ CountOn(r, 1) /\ RunOn(r, 1)
  /\ UNCHANGED <<informers, metaModels, todo, model, held, target>>

\* Mutant of DoneRequest: nothing is done for a model that is gone.
DoneRequestOfModel(r) ==
  /\ pc[r] = "counted"
  /\ pc' = [pc EXCEPT ![r] = "ended"]
  /\ IF metaModels[model[r]] = Absent
     THEN UNCHANGED <<object, metaPods>>
     ELSE CountOn(r, -1) /\ RunOn(r, -1)
  /\ UNCHANGED <<informers, metaModels, todo, model, held, target>>

\* DoneRequestCount, DoneRequestTrace
DoneRequest(r) ==
  /\ pc[r] = "counted"
  /\ pc' = [pc EXCEPT ![r] = "ended"]
  /\ CountOn(r, -1) /\ RunOn(r, -1)
  /\ UNCHANGED <<informers, metaModels, todo, model, held, target>>

RequestStep(r) ==
  LoadModel(r) \/ ReadArray(r) \/ RebuildArray(r) \/ AddRequestCount(r) \/ DoneRequest(r)

Next == Handler \/ \E r \in Requests : RequestStep(r)

Spec == Init /\ [][Next]_vars

-----------------------------------------------------------------------------
Quiet == todo = <<>>

\* Between two handlers the two directions of the mapping agree, whatever the order
\* of the pods' and the adapters' events, and a cached model has a pod
\* (informers.go:91-325).
MappingsAgree ==
  Quiet =>
    \A m \in Names :
      IF metaModels[m] = Absent
      THEN \A p \in Pods : m \notin ModelsOf(p)
      ELSE /\ object[metaModels[m]].pods = {p \in Pods : m \in ModelsOf(p)}
           /\ object[metaModels[m]].pods # {}

Counted(r) == pc[r] = "counted"

\* An update of a pod resets its count, and the requests it had then count down from
\* 0: the cache may believe in fewer requests than there are, and in a negative
\* number, but never in more (informers.go:130-154, cache_trace.go:46-81,
\* cache_impl.go:168-245).
NeverOvercounts ==
  /\ \A p \in Pods :
       metaPods[p] # Absent =>
         metaPods[p].running <= Cardinality({r \in Requests : Counted(r) /\ target[r] = p})
  /\ \A m \in Names :
       metaModels[m] # Absent =>
         object[metaModels[m]].pending
           <= Cardinality({r \in Requests : Counted(r) /\ model[r] = m})

\* When no handler and no reader is at work, the cached array of a model is what its
\* registry holds (registry.go:67-71, 99-103, 123-138).
ArrayIsCurrent ==
  Quiet /\ (\A r \in Requests : pc[r] # "rebuild") =>
    \A m \in Names :
      metaModels[m] # Absent =>
        object[metaModels[m]].array \in {Absent, object[metaModels[m]].pods}
=============================================================================
