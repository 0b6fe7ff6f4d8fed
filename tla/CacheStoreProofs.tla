-------------------------- MODULE CacheStoreProofs --------------------------
(***************************************************************************)
(* Theorems about CacheStore, for any finite sets of pods, models,         *)
(* adapters and requests and any number of events: the cache never         *)
(* believes in more requests than there are, and between two handlers its  *)
(* two directions of the mapping of pods and models agree.  The first      *)
(* needs that no two models share an object; the second an account of what *)
(* the handler that holds the lock has yet to do about each pair on which  *)
(* they disagree.                                                          *)
(***************************************************************************)
EXTENDS CacheStore, FiniteSetTheorems, SequenceTheorems, TLAPS

Object == [pods : SUBSET Pods, array : (SUBSET Pods) \cup {Absent}, pending : Int]

Ops ==
  [op : {"create", "store", "remove", "delete", "put", "drop"}, pod : Pods, model : Names]

HandlerTypes ==
  /\ cluster \in [Pods -> Kinds \cup {Absent}]
  /\ instances \in [Adapters -> (SUBSET Pods) \cup {Absent}]
  /\ todo \in Seq(Ops)

StoreTypes ==
  /\ metaPods \in [Pods -> PodEntry \cup {Absent}]
  /\ metaModels \in [Names -> (1..Len(object)) \cup {Absent}]
  /\ object \in Seq(Object)

\* A request that reads a list holds an object, one that counts itself has a pod.
RequestTypes ==
  /\ pc \in [Requests -> {"start", "list", "rebuild", "routed", "counted", "ended"}]
  /\ model \in [Requests -> Names]
  /\ held \in [Requests -> (1..Len(object)) \cup {Absent}]
  /\ target \in [Requests -> Pods \cup {Absent}]
  /\ \A r \in Requests : /\ pc[r] \in {"list", "rebuild"} => held[r] # Absent
                         /\ pc[r] \in {"routed", "counted"} => target[r] # Absent

\* Every model in the map has an object of its own.
OwnObjects ==
  \A m, n \in Names :
    m # n /\ metaModels[m] # Absent => metaModels[m] # metaModels[n]

Types == HandlerTypes /\ StoreTypes /\ RequestTypes /\ OwnObjects

-----------------------------------------------------------------------------
(* Sequences and sets of operations.                                       *)

\* The operations of a finite set in some order: each of them is there.
LEMMA OrdersCover ==
  ASSUME NEW S, IsFiniteSet(S), NEW f \in Orders(S)
  PROVE  f \in Seq(S) /\ \A x \in S : \E i \in 1..Len(f) : f[i] = x
<1> DEFINE n == Cardinality(S)
<1>1. n \in Nat
    BY FS_CardinalityType
<1>2. f \in [1..n -> S] /\ f \in Injection(1..n, S)
    BY DEF Orders, Injection, IsInjective
<1>3. Cardinality(1..n) = n
    BY <1>1, FS_Interval
<1>4. f \in Surjection(1..n, S)
    BY <1>2, <1>3, FS_Injection
<1>5. f \in Seq(S) /\ Len(f) = n
    BY <1>1, <1>2
<1> QED BY <1>4, <1>5 DEF Surjection

\* The operations an event is turned into are finitely many.
LEMMA EachIsFinite ==
  ASSUME NEW op, NEW p, NEW ms \in SUBSET Names
  PROVE  IsFiniteSet(Each(op, p, ms))
<1> DEFINE f == [m \in ms |-> Op(op, p, m)]
<1>1. IsFiniteSet(ms)
    BY FS_Subset, CacheStoreConstants
<1>2. f \in Surjection(ms, Each(op, p, ms))
    BY DEF Each, Surjection
<1> QED BY <1>1, <1>2, FS_Surjection

LEMMA PodOpsAreFinite ==
  ASSUME NEW op, NEW m, NEW ps \in SUBSET Pods
  PROVE  IsFiniteSet({Op(op, p, m) : p \in ps})
<1> DEFINE f == [p \in ps |-> Op(op, p, m)]
<1>1. IsFiniteSet(ps)
    BY FS_Subset, CacheStoreConstants
<1>2. f \in Surjection(ps, {Op(op, p, m) : p \in ps})
    BY DEF Surjection
<1> QED BY <1>1, <1>2, FS_Surjection

\* The rest of a sequence, with or without another head.
LEMMA RestOf ==
  ASSUME NEW S, NEW s \in Seq(S), s # <<>>, NEW x \in S
  PROVE  /\ Len(s) \in Nat \ {0} /\ Head(s) = s[1] /\ Head(s) \in S
         /\ Tail(s) \in Seq(S) /\ Len(Tail(s)) = Len(s) - 1
         /\ \A i \in 1..Len(Tail(s)) : Tail(s)[i] = s[i + 1]
         /\ <<x>> \o Tail(s) \in Seq(S) /\ Len(<<x>> \o Tail(s)) = Len(s)
         /\ (<<x>> \o Tail(s))[1] = x
         /\ \A i \in 2..Len(s) : (<<x>> \o Tail(s))[i] = s[i]
<1>1. Len(s) \in Nat \ {0}
    BY EmptySeq
<1>2. /\ Tail(s) \in Seq(S) /\ Len(Tail(s)) = Len(s) - 1
      /\ \A i \in 1..Len(Tail(s)) : Tail(s)[i] = s[i + 1]
    BY <1>1, HeadTailProperties
<1>3. <<x>> \in Seq(S) /\ Len(<<x>>) = 1 /\ <<x>>[1] = x
    OBVIOUS
<1>4. /\ <<x>> \o Tail(s) \in Seq(S)
      /\ Len(<<x>> \o Tail(s)) = 1 + (Len(s) - 1)
      /\ \A i \in 1..(1 + (Len(s) - 1)) :
           (<<x>> \o Tail(s))[i] = IF i <= 1 THEN <<x>>[i] ELSE Tail(s)[i - 1]
    BY <1>2, <1>3, ConcatProperties
<1>5. ASSUME NEW i \in 2..Len(s) PROVE (<<x>> \o Tail(s))[i] = s[i]
  <2>1. (<<x>> \o Tail(s))[i] = Tail(s)[i - 1]
      BY <1>1, <1>4
  <2>2. i - 1 \in 1..Len(Tail(s)) /\ (i - 1) + 1 = i
      BY <1>1, <1>2
  <2> QED BY <1>2, <2>1, <2>2
<1> QED BY <1>1, <1>2, <1>3, <1>4, <1>5

\* Changing one object leaves the others alone.
LEMMA ObjectChange ==
  ASSUME NEW s \in Seq(Object), NEW o \in 1..Len(s), NEW e \in Object
  PROVE  /\ [s EXCEPT ![o] = e] \in Seq(Object) /\ Len([s EXCEPT ![o] = e]) = Len(s)
         /\ \A i \in 1..Len(s) : [s EXCEPT ![o] = e][i] = IF i = o THEN e ELSE s[i]
<1>1. s \in [1..Len(s) -> Object] /\ Len(s) \in Nat
    OBVIOUS
<1> QED BY <1>1

WithArray(s, o, a) == [s EXCEPT ![o].array = a]

LEMMA ArrayChange ==
  ASSUME NEW s \in Seq(Object), NEW o \in 1..Len(s), NEW a \in (SUBSET Pods) \cup {Absent}
  PROVE  /\ WithArray(s, o, a) \in Seq(Object)
         /\ Len(WithArray(s, o, a)) = Len(s)
         /\ \A i \in 1..Len(s) : /\ WithArray(s, o, a)[i].pods = s[i].pods
                                 /\ WithArray(s, o, a)[i].pending = s[i].pending
<1> DEFINE e == [s[o] EXCEPT !.array = a]
<1>1. s[o] \in Object
    OBVIOUS
<1>2. e \in Object /\ e.pods = s[o].pods /\ e.pending = s[o].pending
    BY <1>1 DEF Object
<1>3. WithArray(s, o, a) = [s EXCEPT ![o] = e]
    BY DEF WithArray
<1> HIDE DEF e
<1>4. /\ [s EXCEPT ![o] = e] \in Seq(Object) /\ Len([s EXCEPT ![o] = e]) = Len(s)
      /\ \A i \in 1..Len(s) : [s EXCEPT ![o] = e][i] = IF i = o THEN e ELSE s[i]
    BY <1>2, ObjectChange
<1> QED BY <1>2, <1>3, <1>4

WithPods(s, o, ps) == [s EXCEPT ![o].pods = ps]

LEMMA PodsChange ==
  ASSUME NEW s \in Seq(Object), NEW o \in 1..Len(s), NEW ps \in SUBSET Pods
  PROVE  /\ WithPods(s, o, ps) \in Seq(Object)
         /\ Len(WithPods(s, o, ps)) = Len(s)
         /\ \A i \in 1..Len(s) :
              /\ WithPods(s, o, ps)[i].pods = IF i = o THEN ps ELSE s[i].pods
              /\ WithPods(s, o, ps)[i].pending = s[i].pending
<1> DEFINE e == [s[o] EXCEPT !.pods = ps]
<1>1. s[o] \in Object
    OBVIOUS
<1>2. e \in Object /\ e.pods = ps /\ e.pending = s[o].pending
    BY <1>1 DEF Object
<1>3. WithPods(s, o, ps) = [s EXCEPT ![o] = e]
    BY DEF WithPods
<1> HIDE DEF e
<1>4. /\ [s EXCEPT ![o] = e] \in Seq(Object) /\ Len([s EXCEPT ![o] = e]) = Len(s)
      /\ \A i \in 1..Len(s) : [s EXCEPT ![o] = e][i] = IF i = o THEN e ELSE s[i]
    BY <1>2, ObjectChange
<1> QED BY <1>2, <1>3, <1>4

WithPending(s, o, d) == [s EXCEPT ![o].pending = @ + d]

LEMMA PendingChange ==
  ASSUME NEW s \in Seq(Object), NEW o \in 1..Len(s), NEW d \in Int
  PROVE  /\ WithPending(s, o, d) \in Seq(Object)
         /\ Len(WithPending(s, o, d)) = Len(s)
         /\ \A i \in 1..Len(s) :
              /\ WithPending(s, o, d)[i].pods = s[i].pods
              /\ WithPending(s, o, d)[i].pending
                   = IF i = o THEN s[i].pending + d ELSE s[i].pending
<1> DEFINE k == s[o].pending + d
           e == [s[o] EXCEPT !.pending = k]
<1>1. s[o] \in Object
    OBVIOUS
<1>k. k \in Int
    BY <1>1 DEF Object
<1>2. WithPending(s, o, d) = [s EXCEPT ![o] = e]
    BY DEF WithPending
<1> HIDE DEF k
<1>3. e \in Object /\ e.pods = s[o].pods /\ e.pending = k
    BY <1>1, <1>k DEF Object
<1> HIDE DEF e
<1>4. /\ [s EXCEPT ![o] = e] \in Seq(Object) /\ Len([s EXCEPT ![o] = e]) = Len(s)
      /\ \A i \in 1..Len(s) : [s EXCEPT ![o] = e][i] = IF i = o THEN e ELSE s[i]
    BY <1>3, ObjectChange
<1> QED BY <1>2, <1>3, <1>4 DEF k

-----------------------------------------------------------------------------
(* What the steps do to the maps.                                          *)

\* An operation changes the models of its own pod, if that is cached.
LEMMA MapPodEffect ==
  ASSUME StoreTypes, NEW op, NEW p \in Pods, NEW m \in Names, MapPod(op, p, m)
  PROVE  /\ metaPods' \in [Pods -> PodEntry \cup {Absent}]
         /\ \A q \in Pods :
              /\ metaPods'[q] = Absent <=> metaPods[q] = Absent
              /\ metaPods[q] # Absent => metaPods'[q].running = metaPods[q].running
              /\ q # p => metaPods'[q] = metaPods[q]
         /\ metaPods[p] # Absent =>
              metaPods'[p].models = CASE op = "store"  -> metaPods[p].models \cup {m}
                                      [] op = "remove" -> metaPods[p].models \ {m}
                                      [] OTHER         -> metaPods[p].models
<1>1. CASE metaPods[p] = Absent
    BY <1>1 DEF MapPod, StoreTypes
<1>2. CASE metaPods[p] # Absent
  <2> DEFINE ms == CASE op = "store"  -> metaPods[p].models \cup {m}
                     [] op = "remove" -> metaPods[p].models \ {m}
                     [] OTHER         -> metaPods[p].models
             e == [metaPods[p] EXCEPT !.models = ms]
  <2>1. metaPods[p] \in PodEntry
      BY <1>2 DEF StoreTypes
  <2>2. ms \in SUBSET Names
      BY <2>1 DEF PodEntry
  <2>3. metaPods' = [metaPods EXCEPT ![p] = e]
      BY <1>2 DEF MapPod
  <2> HIDE DEF ms
  <2>4. e \in PodEntry /\ e.running = metaPods[p].running /\ e.models = ms
      BY <2>1, <2>2 DEF PodEntry
  <2>5. e # Absent
      BY <2>4, CacheStoreConstants
  <2> HIDE DEF e
  <2>6. /\ metaPods' \in [Pods -> PodEntry \cup {Absent}] /\ metaPods'[p] = e
        /\ \A q \in Pods : q # p => metaPods'[q] = metaPods[q]
      BY <2>3, <2>4 DEF StoreTypes
  <2>7. metaPods'[p].models = ms
      BY <2>4, <2>6
  <2> USE DEF ms
  <2> QED BY <1>2, <2>4, <2>5, <2>6, <2>7
<1> QED BY <1>1, <1>2

\* The models of the pods after it.
LEMMA ModelsEffect ==
  ASSUME StoreTypes, NEW op, NEW p \in Pods, NEW m \in Names, MapPod(op, p, m)
  PROVE  /\ metaPods' \in [Pods -> PodEntry \cup {Absent}]
         /\ \A q \in Pods : (metaPods'[q] = Absent) <=> (metaPods[q] = Absent)
         /\ \A q \in Pods, n \in Names :
              n \in ModelsOf(q)' <=>
                \/ n \in ModelsOf(q) /\ ~(op = "remove" /\ q = p /\ n = m)
                \/ op = "store" /\ metaPods[q] # Absent /\ q = p /\ n = m
<1>1. /\ metaPods' \in [Pods -> PodEntry \cup {Absent}]
      /\ \A q \in Pods : /\ (metaPods'[q] = Absent) <=> (metaPods[q] = Absent)
                         /\ q # p => metaPods'[q] = metaPods[q]
    BY MapPodEffect
<1>2. metaPods[p] # Absent =>
        metaPods'[p].models = CASE op = "store"  -> metaPods[p].models \cup {m}
                                [] op = "remove" -> metaPods[p].models \ {m}
                                [] OTHER         -> metaPods[p].models
    BY MapPodEffect
<1>3. ASSUME NEW q \in Pods, NEW n \in Names
      PROVE  n \in ModelsOf(q)' <=>
               \/ n \in ModelsOf(q) /\ ~(op = "remove" /\ q = p /\ n = m)
               \/ op = "store" /\ metaPods[q] # Absent /\ q = p /\ n = m
  <2>1. CASE q # p \/ metaPods[q] = Absent
      BY <1>1, <2>1 DEF ModelsOf
  <2>2. CASE q = p /\ metaPods[p] # Absent
      BY <1>1, <1>2, <2>2 DEF ModelsOf
  <2> QED BY <2>1, <2>2
<1> QED BY <1>1, <1>3

\* The handler's next operation.
LEMMA NextOperation ==
  ASSUME HandlerTypes, todo # <<>>
  PROVE  /\ Next1 \in Ops /\ Next1.pod \in Pods /\ Next1.model \in Names
         /\ Next1 = todo[1] /\ Len(todo) \in Nat \ {0}
         /\ Tail(todo) \in Seq(Ops)
<1>1. Next1 \in Ops /\ Next1 = todo[1] /\ Len(todo) \in Nat \ {0} /\ Tail(todo) \in Seq(Ops)
    BY RestOf, HeadTailProperties DEF HandlerTypes, Next1
<1> QED BY <1>1 DEF Ops

\* The reset of an array makes an object for a model that has none, and changes no
\* registry.
LEMMA ResetEffect ==
  ASSUME Types, ResetArray
  PROVE  /\ StoreTypes' /\ OwnObjects' /\ Len(object') >= Len(object)
         /\ \A n \in Names : metaModels[n] # Absent =>
              /\ metaModels'[n] = metaModels[n]
              /\ object'[metaModels[n]].pods = object[metaModels[n]].pods
              /\ object'[metaModels[n]].pending = object[metaModels[n]].pending
         /\ \A n \in Names : metaModels[n] = Absent /\ metaModels'[n] # Absent =>
              /\ n = Next1.model /\ Next1.op = "store"
              /\ object'[metaModels'[n]] = Empty
         /\ metaModels'[Next1.model] # Absent
<1> DEFINE m == Next1.model
<1>0. todo # <<>> /\ m \in Names /\ Next1.pod \in Pods
    BY NextOperation DEF ResetArray, Types
<1>1. metaPods' \in [Pods -> PodEntry \cup {Absent}]
    BY <1>0, MapPodEffect DEF ResetArray, Types
<1>2. /\ metaModels \in [Names -> (1..Len(object)) \cup {Absent}]
      /\ object \in Seq(Object) /\ Len(object) \in Nat
      /\ Empty \in Object
    BY DEF Types, StoreTypes, Empty, Object
<1>3. CASE metaModels[m] = Absent
  <2> DEFINE o == Len(object) + 1
  <2>1. /\ metaModels' = [metaModels EXCEPT ![m] = o]
        /\ object' = Append(object, Empty) /\ Next1.op = "store"
      BY <1>3 DEF ResetArray
  <2>2. /\ object' \in Seq(Object) /\ Len(object') = o /\ object'[o] = Empty
        /\ \A i \in 1..Len(object) : object'[i] = object[i]
      BY <1>2, <2>1, AppendProperties
  <2>3. o \in Nat /\ o \in 1..Len(object') /\ o # Absent
      BY <1>2, <2>2, CacheStoreConstants
  <2>4. /\ metaModels'[m] = o
        /\ \A n \in Names : n # m => metaModels'[n] = metaModels[n]
      BY <1>0, <1>2, <2>1
  <2>5. metaModels' \in [Names -> (1..Len(object')) \cup {Absent}]
      BY <1>0, <1>2, <2>1, <2>2, <2>3
  <2>6. \A n \in Names : metaModels[n] # o
      BY <1>2, <2>3
  <2>7. OwnObjects'
      BY <2>3, <2>4, <2>6 DEF OwnObjects, Types
  <2> QED BY <1>1, <1>2, <1>3, <2>1, <2>2, <2>3, <2>4, <2>5, <2>7 DEF StoreTypes
<1>4. CASE metaModels[m] # Absent
  <2>1. /\ metaModels' = metaModels
        /\ object' = WithArray(object, metaModels[m], Absent)
      BY <1>4 DEF ResetArray, WithArray
  <2>2. metaModels[m] \in 1..Len(object)
      BY <1>0, <1>2, <1>4
  <2>3. Absent \in (SUBSET Pods) \cup {Absent}
      OBVIOUS
  <2>4. /\ object' \in Seq(Object) /\ Len(object') = Len(object)
        /\ \A i \in 1..Len(object) : /\ object'[i].pods = object[i].pods
                                     /\ object'[i].pending = object[i].pending
      BY <1>2, <2>1, <2>2, <2>3, ArrayChange
  <2> QED BY <1>1, <1>2, <1>4, <2>1, <2>4 DEF StoreTypes, OwnObjects, Types
<1> QED BY <1>3, <1>4

\* The change of a registry is that of one pod and one model; a model left without
\* pods is dropped.
LEMMA ChangeEffect ==
  ASSUME Types, ChangeRegistry, metaModels[Next1.model] # Absent
  PROVE  /\ StoreTypes' /\ OwnObjects' /\ Len(object') = Len(object)
         /\ metaPods' = metaPods
         /\ \A n \in Names :
              /\ n # Next1.model => metaModels'[n] = metaModels[n]
              /\ metaModels[n] # Absent =>
                   /\ object'[metaModels[n]].pending = object[metaModels[n]].pending
                   /\ object'[metaModels[n]].pods =
                        IF n # Next1.model THEN object[metaModels[n]].pods
                        ELSE IF Next1.op = "put"
                             THEN object[metaModels[n]].pods \cup {Next1.pod}
                             ELSE object[metaModels[n]].pods \ {Next1.pod}
         /\ metaModels'[Next1.model] =
              IF Next1.op = "put"
                   \/ object[metaModels[Next1.model]].pods \ {Next1.pod} # {}
              THEN metaModels[Next1.model] ELSE Absent
<1> DEFINE m == Next1.model
           o == metaModels[m]
           ps == IF Next1.op = "put" THEN object[o].pods \cup {Next1.pod}
                 ELSE object[o].pods \ {Next1.pod}
<1>0. todo # <<>> /\ m \in Names /\ Next1.pod \in Pods
    BY NextOperation DEF ChangeRegistry, Types
<1>1. /\ metaModels \in [Names -> (1..Len(object)) \cup {Absent}]
      /\ object \in Seq(Object) /\ o \in 1..Len(object) /\ object[o] \in Object
    BY <1>0 DEF Types, StoreTypes
<1>2. ps \in SUBSET Pods
    BY <1>0, <1>1 DEF Object
<1>3. /\ object' = WithPods(object, o, ps) /\ metaPods' = metaPods
      /\ metaModels' = [metaModels EXCEPT ![m] =
           IF Next1.op = "put" \/ object[o].pods \ {Next1.pod} # {} THEN o ELSE Absent]
    BY <1>0, <1>1 DEF ChangeRegistry, WithPods
<1> HIDE DEF ps
<1>4. /\ object' \in Seq(Object) /\ Len(object') = Len(object)
      /\ \A i \in 1..Len(object) :
           /\ object'[i].pods = IF i = o THEN ps ELSE object[i].pods
           /\ object'[i].pending = object[i].pending
    BY <1>1, <1>2, <1>3, PodsChange
<1>5. /\ metaModels'[m] = IF Next1.op = "put" \/ object[o].pods \ {Next1.pod} # {}
                          THEN o ELSE Absent
      /\ \A n \in Names : n # m => metaModels'[n] = metaModels[n]
      /\ metaModels' \in [Names -> (1..Len(object)) \cup {Absent}]
    BY <1>0, <1>1, <1>3
<1>6. StoreTypes' /\ OwnObjects'
    BY <1>0, <1>3, <1>4, <1>5 DEF StoreTypes, OwnObjects, Types
<1>7. \A n \in Names : n # m /\ metaModels[n] # Absent => metaModels[n] # o
    BY <1>0 DEF Types, OwnObjects
<1> QED BY <1>0, <1>1, <1>3, <1>4, <1>5, <1>6, <1>7 DEF ps

\* A request that looks for a pod changes cached arrays only.
LEMMA ReadEffect ==
  ASSUME Types, NEW r \in Requests, LoadModel(r) \/ ReadArray(r) \/ RebuildArray(r)
  PROVE  /\ StoreTypes' /\ RequestTypes' /\ Len(object') = Len(object)
         /\ UNCHANGED <<metaPods, metaModels, todo, model, cluster, instances>>
         /\ \A i \in 1..Len(object) : /\ object'[i].pods = object[i].pods
                                      /\ object'[i].pending = object[i].pending
         /\ \A s \in Requests : /\ pc'[s] = "counted" <=> pc[s] = "counted"
                                /\ pc[s] = "counted" => target'[s] = target[s]
<1>0. StoreTypes /\ RequestTypes /\ object \in Seq(Object)
    BY DEF Types, StoreTypes
<1>1. CASE LoadModel(r)
  <2>1. /\ UNCHANGED <<metaPods, metaModels, object, todo, model, target, cluster, instances>>
        /\ pc[r] = "start" /\ pc' = [pc EXCEPT ![r] = "list"]
        /\ held' = [held EXCEPT ![r] = metaModels[model[r]]]
        /\ metaModels[model[r]] # Absent
      BY <1>1 DEF LoadModel, store, informers
  <2>2. metaModels[model[r]] \in 1..Len(object)
      BY <1>0, <2>1 DEF StoreTypes, RequestTypes
  <2>3. RequestTypes'
      BY <1>0, <2>1, <2>2 DEF RequestTypes
  <2> QED BY <1>0, <2>1, <2>3 DEF StoreTypes, RequestTypes
<1>2. ASSUME NEW ps \in SUBSET Pods, RouteTo(r, ps), pc[r] \in {"list", "rebuild"},
             UNCHANGED <<model, held>>, Len(object') = Len(object)
      PROVE  /\ RequestTypes'
             /\ \A s \in Requests : /\ pc'[s] = "counted" <=> pc[s] = "counted"
                                    /\ pc[s] = "counted" => target'[s] = target[s]
  <2>1. CASE UNCHANGED target /\ pc' = [pc EXCEPT ![r] = "ended"]
      BY <1>0, <1>2, <2>1 DEF RequestTypes
  <2>2. ASSUME NEW p \in ps, target' = [target EXCEPT ![r] = p],
               pc' = [pc EXCEPT ![r] = "routed"]
        PROVE  /\ RequestTypes'
               /\ \A s \in Requests : /\ pc'[s] = "counted" <=> pc[s] = "counted"
                                      /\ pc[s] = "counted" => target'[s] = target[s]
    <3>1. p \in Pods
        BY <1>2
    <3>2. p # Absent
        BY <3>1, CacheStoreConstants
    <3> QED BY <1>0, <1>2, <2>2, <3>1, <3>2 DEF RequestTypes
  <2> QED BY <1>2, <2>1, <2>2 DEF RouteTo
<1>3. CASE ReadArray(r)
  <2>1. /\ pc[r] = "list" /\ UNCHANGED <<model, held>>
        /\ UNCHANGED <<metaPods, metaModels, object, todo, cluster, instances>>
      BY <1>3 DEF ReadArray, store, informers
  <2>2. held[r] \in 1..Len(object) /\ object[held[r]] \in Object
      BY <1>0, <2>1 DEF RequestTypes
  <2>3. CASE object[held[r]].array # Absent /\ RouteTo(r, object[held[r]].array)
    <3>1. object[held[r]].array \in SUBSET Pods
        BY <2>2, <2>3 DEF Object
    <3> QED BY <1>0, <1>2, <2>1, <2>3, <3>1 DEF StoreTypes
  <2>4. CASE pc' = [pc EXCEPT ![r] = "rebuild"] /\ UNCHANGED target
      BY <1>0, <2>1, <2>2, <2>4 DEF StoreTypes, RequestTypes
  <2> QED BY <1>3, <2>3, <2>4 DEF ReadArray
<1>4. CASE RebuildArray(r)
  <2> DEFINE ps == object[held[r]].pods
  <2>1. /\ pc[r] = "rebuild" /\ UNCHANGED <<model, held>>
        /\ UNCHANGED <<metaPods, metaModels, todo, cluster, instances>>
        /\ object' = WithArray(object, held[r], ps) /\ RouteTo(r, ps)
      BY <1>4 DEF RebuildArray, informers, WithArray
  <2>2. held[r] \in 1..Len(object) /\ object[held[r]] \in Object
      BY <1>0, <2>1 DEF RequestTypes
  <2>3. ps \in SUBSET Pods
      BY <2>2 DEF Object
  <2> HIDE DEF ps
  <2>4. /\ object' \in Seq(Object) /\ Len(object') = Len(object)
        /\ \A i \in 1..Len(object) : /\ object'[i].pods = object[i].pods
                                     /\ object'[i].pending = object[i].pending
      BY <1>0, <2>1, <2>2, <2>3, ArrayChange
  <2>5. StoreTypes'
      BY <1>0, <2>1, <2>4 DEF StoreTypes
  <2> QED BY <1>2, <2>1, <2>3, <2>4, <2>5
<1> QED BY <1>1, <1>3, <1>4

\* A request counts itself on the object of its model and on the entry of its pod,
\* where there are any.
LEMMA CountEffect ==
  ASSUME Types, NEW r \in Requests, NEW d \in Int, pc[r] \in {"routed", "counted"},
         CountOn(r, d), RunOn(r, d), metaModels' = metaModels
  PROVE  /\ StoreTypes' /\ Len(object') = Len(object) /\ target[r] \in Pods
         /\ \A m \in Names : metaModels[m] # Absent =>
              /\ object'[metaModels[m]].pods = object[metaModels[m]].pods
              /\ object'[metaModels[m]].pending =
                   IF m = model[r] THEN object[metaModels[m]].pending + d
                   ELSE object[metaModels[m]].pending
         /\ \A p \in Pods :
              /\ metaPods'[p] = Absent <=> metaPods[p] = Absent
              /\ metaPods[p] # Absent =>
                   /\ metaPods'[p].models = metaPods[p].models
                   /\ metaPods'[p].running = IF p = target[r] THEN metaPods[p].running + d
                                             ELSE metaPods[p].running
<1>0. /\ StoreTypes /\ RequestTypes /\ object \in Seq(Object)
      /\ target[r] \in Pods /\ model[r] \in Names
    BY DEF Types, StoreTypes, RequestTypes
<1>1. /\ object' \in Seq(Object) /\ Len(object') = Len(object)
      /\ \A m \in Names : metaModels[m] # Absent =>
           /\ object'[metaModels[m]].pods = object[metaModels[m]].pods
           /\ object'[metaModels[m]].pending =
                IF m = model[r] THEN object[metaModels[m]].pending + d
                ELSE object[metaModels[m]].pending
  <2> DEFINE o == metaModels[model[r]]
  <2>0. \A m \in Names : m # model[r] /\ metaModels[m] # Absent => metaModels[m] # o
      BY <1>0 DEF Types, OwnObjects
  <2>1. CASE o = Absent
      BY <1>0, <2>0, <2>1 DEF CountOn
  <2>2. CASE o # Absent
    <3>1. object' = WithPending(object, o, d) /\ o \in 1..Len(object)
        BY <1>0, <2>2 DEF CountOn, WithPending, StoreTypes
    <3>2. /\ object' \in Seq(Object) /\ Len(object') = Len(object)
          /\ \A i \in 1..Len(object) :
               /\ object'[i].pods = object[i].pods
               /\ object'[i].pending = IF i = o THEN object[i].pending + d
                                       ELSE object[i].pending
        BY <1>0, <3>1, PendingChange
    <3> QED BY <1>0, <2>0, <3>2 DEF StoreTypes
  <2> QED BY <2>1, <2>2
<1>2. /\ metaPods' \in [Pods -> PodEntry \cup {Absent}]
      /\ \A p \in Pods :
           /\ metaPods'[p] = Absent <=> metaPods[p] = Absent
           /\ metaPods[p] # Absent =>
                /\ metaPods'[p].models = metaPods[p].models
                /\ metaPods'[p].running = IF p = target[r] THEN metaPods[p].running + d
                                          ELSE metaPods[p].running
  <2> DEFINE q == target[r]
  <2>1. CASE metaPods[q] = Absent
      BY <1>0, <2>1 DEF RunOn, StoreTypes
  <2>2. CASE metaPods[q] # Absent
    <3> DEFINE k == metaPods[q].running + d
               e == [metaPods[q] EXCEPT !.running = k]
    <3>1. metaPods[q] \in PodEntry
        BY <1>0, <2>2 DEF StoreTypes
    <3>2. k \in Int
        BY <3>1 DEF PodEntry
    <3>3. metaPods' = [metaPods EXCEPT ![q] = e]
        BY <2>2 DEF RunOn
    <3> HIDE DEF k
    <3>4. e \in PodEntry /\ e.running = k /\ e.models = metaPods[q].models
        BY <3>1, <3>2 DEF PodEntry
    <3>5. e # Absent
        BY <3>4, CacheStoreConstants
    <3> HIDE DEF e
    <3>6. /\ metaPods' \in [Pods -> PodEntry \cup {Absent}] /\ metaPods'[q] = e
          /\ \A p \in Pods : p # q => metaPods'[p] = metaPods[p]
        BY <1>0, <3>3, <3>4 DEF StoreTypes
    <3> QED BY <2>2, <3>4, <3>5, <3>6 DEF k
  <2> QED BY <2>1, <2>2
<1>3. StoreTypes'
    BY <1>0, <1>1, <1>2 DEF StoreTypes
<1> QED BY <1>0, <1>1, <1>2, <1>3

-----------------------------------------------------------------------------
(* The events.                                                             *)

\* Every kind of operation.
LEMMA OpsAreOps ==
  \A x \in {"create", "store", "remove", "delete", "put", "drop"}, q \in Pods, n \in Names :
    Op(x, q, n) \in Ops /\ Op(x, q, n).op = x /\ Op(x, q, n).pod = q /\ Op(x, q, n).model = n
BY DEF Ops, Op

\* The operations that take a pod out: one for each of its models.
LEMMA UnmapOps ==
  ASSUME Types, NEW p \in Pods, NEW f \in Orders(Unmap(p))
  PROVE  /\ f \in Seq(Ops) /\ Len(f) \in Nat
         /\ \A i \in 1..Len(f) : f[i].op = "delete" /\ f[i].pod = p
         /\ \A m \in ModelsOf(p) : \E i \in 1..Len(f) : f[i] = Op("delete", p, m)
<1>1. ModelsOf(p) \in SUBSET Names
    BY DEF ModelsOf, Types, StoreTypes, PodEntry
<1>2. IsFiniteSet(Unmap(p))
    BY <1>1, EachIsFinite DEF Unmap
<1>3. f \in Seq(Unmap(p)) /\ \A x \in Unmap(p) : \E i \in 1..Len(f) : f[i] = x
    BY <1>2, OrdersCover
<1>4. \A m \in ModelsOf(p) : Op("delete", p, m) \in Unmap(p)
    BY DEF Unmap, Each
<1>5. \A x \in Unmap(p) : x \in Ops /\ x.op = "delete" /\ x.pod = p
    BY <1>1, OpsAreOps DEF Unmap, Each
<1> QED BY <1>3, <1>4, <1>5

\* The operations for the instances of an adapter.
LEMMA InstanceOps ==
  ASSUME NEW a \in Adapters, NEW ps \in SUBSET Pods, NEW op \in {"remove", "store"},
         NEW f \in Orders({Op(op, q, a) : q \in ps})
  PROVE  f \in Seq(Ops) /\ \A i \in 1..Len(f) : f[i].op = op
<1> DEFINE S == {Op(op, q, a) : q \in ps}
<1>1. IsFiniteSet(S)
    BY PodOpsAreFinite
<1>2. f \in Seq(S)
    BY <1>1, OrdersCover
<1>3. \A x \in S : x \in Ops /\ x.op = op
    BY OpsAreOps DEF Names
<1> QED BY <1>2, <1>3

\* A pod is cached only while its object is there.
KnownPods == \A p \in Pods : cluster[p] = Absent => metaPods[p] = Absent

\* What the handler of an event has to do: operations with the registries are still
\* to come, mappings are deleted of pods that are not cached, and a pod is created
\* once and after them.
Agenda(t, pods, objects) ==
  \A i \in 1..Len(t) :
    /\ t[i].op \in {"create", "store", "remove", "delete"}
    /\ t[i].op \in {"create", "delete"} => pods[t[i].pod] = Absent
    /\ t[i].op = "create" =>
         /\ objects[t[i].pod] # Absent
         /\ \A j \in (i + 1)..Len(t) : t[j].op \notin {"create", "delete"}

\* Two sequences of operations, one after the other.
LEMMA TwoLists ==
  ASSUME NEW f \in Seq(Ops), NEW g \in Seq(Ops)
  PROVE  /\ f \o g \in Seq(Ops) /\ Len(f \o g) = Len(f) + Len(g)
         /\ Len(f) \in Nat /\ Len(g) \in Nat
         /\ \A i \in 1..Len(f) : i \in 1..Len(f \o g) /\ (f \o g)[i] = f[i]
         /\ \A i \in 1..Len(f \o g) : i \notin 1..Len(f) =>
              i - Len(f) \in 1..Len(g) /\ (f \o g)[i] = g[i - Len(f)]
<1>1. Len(f) \in Nat /\ Len(g) \in Nat
    BY LenProperties
<1>2. /\ f \o g \in Seq(Ops) /\ Len(f \o g) = Len(f) + Len(g)
      /\ \A i \in 1..(Len(f) + Len(g)) :
           (f \o g)[i] = IF i <= Len(f) THEN f[i] ELSE g[i - Len(f)]
    BY ConcatProperties
<1> QED BY <1>1, <1>2

\* The effect of an event.  The maps of the models are not touched, and a pod that
\* is taken from the cache has the deletion of all its mappings on the agenda.
EventEffect ==
  /\ HandlerTypes' /\ StoreTypes' /\ KnownPods'
  /\ todo = <<>> /\ UNCHANGED <<metaModels, object, pc, model, held, target>>
  /\ Agenda(todo', metaPods', cluster')
  /\ \A p \in Pods :
       \/ metaPods'[p] = metaPods[p]
       \/ /\ metaPods'[p] = Absent
          /\ \A m \in ModelsOf(p) : \E i \in 1..Len(todo') : todo'[i] = Op("delete", p, m)

LEMMA AddPodEffect ==
  ASSUME Types, KnownPods, NEW p \in Pods, NEW kind \in Kinds, addPod(p, kind)
  PROVE  EventEffect
<1>0. HandlerTypes /\ StoreTypes /\ Absent \notin Kinds
    BY CacheStoreConstants DEF Types
<1>1. /\ todo = <<>> /\ cluster[p] = Absent /\ metaPods[p] = Absent
      /\ UNCHANGED <<metaModels, object, pc, model, held, target, instances, metaPods>>
      /\ cluster' = [cluster EXCEPT ![p] = kind] /\ cluster'[p] = kind
    BY <1>0 DEF addPod, Event, requests, KnownPods, HandlerTypes
<1>2. CASE ~Tracked(kind)
  <2>1. todo' = <<>> /\ Len(todo') = 0 /\ todo' \in Seq(Ops)
      BY <1>2 DEF addPod
  <2> QED BY <1>0, <1>1, <2>1 DEF EventEffect, HandlerTypes, StoreTypes, KnownPods, Agenda
<1>3. CASE Tracked(kind)
  <2>1. todo' = Add(p, kind) /\ kind \in Models
      BY <1>3 DEF addPod, Tracked
  <2>2. /\ todo' \in Seq(Ops) /\ Len(todo') = 2
        /\ todo'[1] = Op("create", p, kind) /\ todo'[2] = Op("store", p, kind)
      <3>1. Op("create", p, kind) \in Ops /\ Op("store", p, kind) \in Ops
          BY <2>1 DEF Op, Ops, Names
      <3> QED BY <2>1, <3>1 DEF Add
  <2>3. /\ todo'[1].op = "create" /\ todo'[1].pod = p
        /\ todo'[2].op = "store" /\ todo'[2].pod = p
      BY <2>2 DEF Op
  <2>4. Agenda(todo', metaPods', cluster')
      BY <1>0, <1>1, <2>2, <2>3 DEF Agenda
  <2> QED BY <1>0, <1>1, <2>2, <2>4 DEF EventEffect, HandlerTypes, StoreTypes, KnownPods
<1> QED BY <1>2, <1>3

LEMMA UpdatePodEffect ==
  ASSUME Types, KnownPods, NEW p \in Pods,
         deletePod(p) \/ \E kind \in Kinds : updatePod(p, kind)
  PROVE  EventEffect
<1>0. HandlerTypes /\ StoreTypes /\ Absent \notin Kinds
    BY CacheStoreConstants DEF Types
<1>1. /\ todo = <<>> /\ UNCHANGED <<metaModels, object, pc, model, held, target, instances>>
      /\ metaPods' = [metaPods EXCEPT ![p] = Absent]
    BY DEF updatePod, deletePod, Event, requests
<1>2. /\ metaPods'[p] = Absent /\ \A q \in Pods : q # p => metaPods'[q] = metaPods[q]
      /\ StoreTypes'
    BY <1>0, <1>1 DEF StoreTypes
<1>3. PICK kind \in Kinds \cup {Absent}, dels \in Orders(Unmap(p)) :
        /\ cluster' = [cluster EXCEPT ![p] = kind]
        /\ \/ todo' = dels
           \/ kind \in Models /\ todo' = dels \o Add(p, kind)
  <2>1. CASE deletePod(p)
      BY <2>1 DEF deletePod
  <2>2. ASSUME NEW kind \in Kinds, updatePod(p, kind)
        PROVE \E dels \in Orders(Unmap(p)) :
                /\ cluster' = [cluster EXCEPT ![p] = kind]
                /\ \/ todo' = dels
                   \/ kind \in Models /\ todo' = dels \o Add(p, kind)
    <3>1. PICK dels \in Orders(Unmap(p)) :
            todo' = dels \o IF Tracked(kind) /\ cluster[p] # "worker" THEN Add(p, kind) ELSE <<>>
        BY <2>2 DEF updatePod
    <3>2. dels \in Seq(Ops)
        BY UnmapOps
    <3>3. dels \o <<>> = dels
        BY <3>2, ConcatEmptySeq
    <3> QED BY <2>2, <3>1, <3>3 DEF updatePod, Tracked
  <2> QED BY <2>1, <2>2
<1>4. /\ dels \in Seq(Ops) /\ Len(dels) \in Nat
      /\ \A i \in 1..Len(dels) : dels[i].op = "delete" /\ dels[i].pod = p
      /\ \A m \in ModelsOf(p) : \E i \in 1..Len(dels) : dels[i] = Op("delete", p, m)
    BY UnmapOps
<1>5. cluster' \in [Pods -> Kinds \cup {Absent}] /\ cluster'[p] = kind
      /\ \A q \in Pods : q # p => cluster'[q] = cluster[q]
    BY <1>0, <1>3 DEF HandlerTypes
<1>6. KnownPods'
    BY <1>2, <1>5 DEF KnownPods
<1>7. CASE todo' = dels
  <2>1. Agenda(todo', metaPods', cluster')
      BY <1>2, <1>4, <1>7 DEF Agenda
  <2> QED BY <1>0, <1>1, <1>2, <1>4, <1>5, <1>6, <1>7, <2>1 DEF EventEffect, HandlerTypes
<1>8. CASE kind \in Models /\ todo' = dels \o Add(p, kind)
  <2> DEFINE g == Add(p, kind)
  <2>1. /\ g \in Seq(Ops) /\ Len(g) = 2
        /\ g[1] = Op("create", p, kind) /\ g[2] = Op("store", p, kind)
      <3>1. Op("create", p, kind) \in Ops /\ Op("store", p, kind) \in Ops
          BY <1>8 DEF Op, Ops, Names
      <3> QED BY <3>1 DEF Add
  <2>2. g[1].op = "create" /\ g[1].pod = p /\ g[2].op = "store" /\ g[2].pod = p
      BY <2>1 DEF Op
  <2> HIDE DEF g
  <2>3. todo' = dels \o g
      BY <1>8 DEF g
  <2>t. /\ dels \o g \in Seq(Ops) /\ Len(dels \o g) = Len(dels) + Len(g)
        /\ \A i \in 1..Len(dels) : i \in 1..Len(dels \o g) /\ (dels \o g)[i] = dels[i]
        /\ \A i \in 1..Len(dels \o g) : i \notin 1..Len(dels) =>
             i - Len(dels) \in 1..Len(g) /\ (dels \o g)[i] = g[i - Len(dels)]
      BY <1>4, <2>1, TwoLists
  <2>4. /\ todo' \in Seq(Ops) /\ Len(todo') = Len(dels) + 2
        /\ \A i \in 1..Len(dels) : i \in 1..Len(todo') /\ todo'[i] = dels[i]
        /\ \A i \in 1..Len(todo') : i \notin 1..Len(dels) =>
             i - Len(dels) \in 1..2 /\ todo'[i] = g[i - Len(dels)]
      BY <2>1, <2>3, <2>t
  <2>5. ASSUME NEW i \in 1..Len(todo')
        PROVE  \/ i \in 1..Len(dels) /\ todo'[i].op = "delete"
               \/ i = Len(dels) + 1 /\ todo'[i].op = "create"
               \/ i = Len(dels) + 2 /\ todo'[i].op = "store"
      BY <1>4, <2>2, <2>4
  <2>6. \A i \in 1..Len(todo') : todo'[i].pod = p
      BY <1>4, <2>2, <2>4
  <2>7. kind # Absent
      BY <1>0, <1>8 DEF Kinds
  <2>8. Agenda(todo', metaPods', cluster')
      BY <1>2, <1>4, <1>5, <2>4, <2>5, <2>6, <2>7 DEF Agenda
  <2>9. \A m \in ModelsOf(p) : \E i \in 1..Len(todo') : todo'[i] = Op("delete", p, m)
      BY <1>4, <2>4
  <2> QED BY <1>0, <1>1, <1>2, <1>5, <1>6, <2>4, <2>8, <2>9 DEF EventEffect, HandlerTypes
<1> QED BY <1>3, <1>7, <1>8

LEMMA AdapterEffect ==
  ASSUME Types, KnownPods, NEW a \in Adapters, NEW new \in (SUBSET Pods) \cup {Absent},
         adapterEvent(a, new)
  PROVE  EventEffect
<1>0. HandlerTypes /\ StoreTypes
    BY DEF Types
<1>1. /\ todo = <<>>
      /\ UNCHANGED <<metaModels, object, pc, model, held, target, cluster, metaPods>>
      /\ instances' = [instances EXCEPT ![a] = new]
    BY DEF adapterEvent, Event, requests
<1> DEFINE old == Instances(a)
           fresh == IF new = Absent THEN {} ELSE new
<1>2. old \in SUBSET Pods /\ fresh \in SUBSET Pods
    BY <1>0 DEF Instances, HandlerTypes
<1>3. PICK f \in Orders({Op("remove", q, a) : q \in old}),
           g \in Orders({Op("store", q, a) : q \in fresh}) : todo' = f \o g
    BY DEF adapterEvent
<1> HIDE DEF old, fresh
<1>4. /\ f \in Seq(Ops) /\ \A i \in 1..Len(f) : f[i].op = "remove"
    BY <1>2, InstanceOps
<1>5. /\ g \in Seq(Ops) /\ \A i \in 1..Len(g) : g[i].op = "store"
    BY <1>2, InstanceOps
<1>6. /\ f \o g \in Seq(Ops)
      /\ \A i \in 1..Len(f) : i \in 1..Len(f \o g) /\ (f \o g)[i] = f[i]
      /\ \A i \in 1..Len(f \o g) : i \notin 1..Len(f) =>
           i - Len(f) \in 1..Len(g) /\ (f \o g)[i] = g[i - Len(f)]
    BY <1>4, <1>5, TwoLists
<1>7. todo' \in Seq(Ops) /\ \A i \in 1..Len(todo') : todo'[i].op \in {"remove", "store"}
    BY <1>3, <1>4, <1>5, <1>6
<1>8. Agenda(todo', metaPods', cluster')
    BY <1>7 DEF Agenda
<1> QED BY <1>0, <1>1, <1>7, <1>8 DEF EventEffect, HandlerTypes, StoreTypes, KnownPods

\* All six.
HandleEvent ==
  \/ \E p \in Pods, kind \in Kinds : addPod(p, kind)
  \/ \E p \in Pods, kind \in Kinds : updatePod(p, kind)
  \/ \E p \in Pods : deletePod(p)
  \/ \E a \in Adapters, new \in SUBSET Pods : addModelAdapter(a, new)
  \/ \E a \in Adapters, new \in SUBSET Pods : updateModelAdapter(a, new)
  \/ \E a \in Adapters : deleteModelAdapter(a)

LEMMA EventsHaveEffect ==
  ASSUME Types, KnownPods, HandleEvent
  PROVE  EventEffect
<1>1. ASSUME NEW a \in Adapters, NEW new \in (SUBSET Pods) \cup {Absent}, adapterEvent(a, new)
      PROVE  EventEffect
    BY <1>1, AdapterEffect
<1>2. ASSUME NEW p \in Pods, deletePod(p) \/ \E kind \in Kinds : updatePod(p, kind)
      PROVE  EventEffect
    BY <1>2, UpdatePodEffect
<1>3. ASSUME NEW p \in Pods, NEW kind \in Kinds, addPod(p, kind)
      PROVE  EventEffect
    BY <1>3, AddPodEffect
<1> QED BY <1>1, <1>2, <1>3
        DEF HandleEvent, addModelAdapter, updateModelAdapter, deleteModelAdapter

-----------------------------------------------------------------------------
(* The invariant.                                                          *)

InRegistry(p, m) == metaModels[m] # Absent /\ p \in object[metaModels[m]].pods

AwaitsPut(p, m) ==
  \E i \in 1..Len(todo) : todo[i].op = "put" /\ todo[i].pod = p /\ todo[i].model = m

AwaitsDrop(p, m) ==
  \E i \in 1..Len(todo) :
    todo[i].op \in {"delete", "drop"} /\ todo[i].pod = p /\ todo[i].model = m

\* What the handler has yet to do: an operation on a registry is the next one, of a
\* cached model whose pod already has, or no longer has, that model.
TodoForm ==
  \A i \in 1..Len(todo) :
    /\ todo[i].op \in {"put", "drop"} => i = 1 /\ metaModels[todo[i].model] # Absent
    /\ todo[i].op = "put" => todo[i].model \in ModelsOf(todo[i].pod)
    /\ todo[i].op = "drop" => todo[i].model \notin ModelsOf(todo[i].pod)
    /\ todo[i].op \in {"create", "delete"} => metaPods[todo[i].pod] = Absent
    /\ todo[i].op = "create" =>
         /\ cluster[todo[i].pod] # Absent
         /\ \A j \in (i + 1)..Len(todo) : todo[j].op \notin {"create", "delete"}

\* Where the two directions disagree, the handler is about to repair it.
Account ==
  /\ \A p \in Pods, m \in Names :
       /\ m \in ModelsOf(p) /\ ~InRegistry(p, m) => AwaitsPut(p, m)
       /\ InRegistry(p, m) /\ m \notin ModelsOf(p) => AwaitsDrop(p, m)
  /\ \A m \in Names : metaModels[m] # Absent =>
       object[metaModels[m]].pods # {} \/ \E p \in Pods : AwaitsPut(p, m)

IInv == Types /\ KnownPods /\ TodoForm /\ Account

\* The head of the agenda is done.
LEMMA HeadIsDone ==
  ASSUME HandlerTypes, TodoForm, todo # <<>>, todo' = Tail(todo), UNCHANGED cluster,
         \A i \in 2..Len(todo) :
           todo[i].op \in {"create", "delete"} => metaPods'[todo[i].pod] = Absent
  PROVE  /\ TodoForm'
         /\ \A q, n : ~AwaitsPut(q, n)'
         /\ \A q, n : /\ AwaitsDrop(q, n)
                      /\ ~(Next1.op \in {"delete", "drop"} /\ Next1.pod = q /\ Next1.model = n)
                      => AwaitsDrop(q, n)'
<1>1. Next1 = todo[1] /\ Len(todo) \in Nat \ {0} /\ todo \in Seq(Ops) /\ Next1 \in Ops
    BY NextOperation DEF HandlerTypes
<1>2. /\ Len(todo') = Len(todo) - 1
      /\ \A i \in 1..Len(todo') : todo'[i] = todo[i + 1]
    BY <1>1, RestOf
<1>3. \A i \in 1..Len(todo') : i + 1 \in 2..Len(todo) /\ todo'[i] = todo[i + 1]
    BY <1>1, <1>2
<1>4. \A j \in 2..Len(todo) : j - 1 \in 1..Len(todo') /\ todo'[j - 1] = todo[j]
    BY <1>1, <1>2
<1>5. \A j \in 2..Len(todo) : j \in 1..Len(todo) /\ todo[j].op \notin {"put", "drop"}
    BY <1>1 DEF TodoForm
<1>6. TodoForm'
  <2> SUFFICES ASSUME NEW i \in 1..Len(todo')
               PROVE  /\ todo'[i].op \notin {"put", "drop"}
                      /\ todo'[i].op \in {"create", "delete"} => metaPods'[todo'[i].pod] = Absent
                      /\ todo'[i].op = "create" =>
                           /\ cluster'[todo'[i].pod] # Absent
                           /\ \A j \in (i + 1)..Len(todo') :
                                todo'[j].op \notin {"create", "delete"}
      BY DEF TodoForm
  <2>1. /\ todo'[i].op \notin {"put", "drop"}
        /\ todo'[i].op \in {"create", "delete"} => metaPods'[todo'[i].pod] = Absent
      BY <1>3, <1>5
  <2>2. ASSUME todo'[i].op = "create"
        PROVE  /\ cluster'[todo'[i].pod] # Absent
               /\ \A j \in (i + 1)..Len(todo') : todo'[j].op \notin {"create", "delete"}
    <3>1. /\ cluster[todo[i + 1].pod] # Absent
          /\ \A j \in (i + 2)..Len(todo) : todo[j].op \notin {"create", "delete"}
        BY <1>1, <1>3, <2>2 DEF TodoForm
    <3>2. ASSUME NEW j \in (i + 1)..Len(todo')
          PROVE  todo'[j].op \notin {"create", "delete"}
      <4>1. j \in 1..Len(todo') /\ j + 1 \in (i + 2)..Len(todo)
          BY <1>1, <1>2
      <4> QED BY <1>3, <3>1, <4>1
    <3> QED BY <1>3, <3>1, <3>2
  <2> QED BY <2>1, <2>2
<1>7. \A q, n : ~AwaitsPut(q, n)'
    BY <1>3, <1>5 DEF AwaitsPut
<1>8. ASSUME NEW q, NEW n, AwaitsDrop(q, n),
             ~(Next1.op \in {"delete", "drop"} /\ Next1.pod = q /\ Next1.model = n)
      PROVE  AwaitsDrop(q, n)'
  <2>1. PICK j \in 1..Len(todo) :
          todo[j].op \in {"delete", "drop"} /\ todo[j].pod = q /\ todo[j].model = n
      BY <1>8 DEF AwaitsDrop
  <2>2. j \in 2..Len(todo)
      BY <1>1, <1>8, <2>1
  <2> QED BY <1>4, <2>1, <2>2 DEF AwaitsDrop
<1> QED BY <1>6, <1>7, <1>8

\* Only the head of the agenda is an operation on a registry.
LEMMA HeadIsPut ==
  ASSUME HandlerTypes, TodoForm
  PROVE  /\ \A q, n : AwaitsPut(q, n) =>
              todo # <<>> /\ Next1.op = "put" /\ Next1.pod = q /\ Next1.model = n
         /\ todo = <<>> => \A q, n : ~AwaitsDrop(q, n)
<1>1. todo = <<>> => Len(todo) = 0
    OBVIOUS
<1>2. todo # <<>> => Next1 = todo[1]
    BY NextOperation
<1> QED BY <1>1, <1>2 DEF AwaitsPut, AwaitsDrop, TodoForm

\* The head of the agenda becomes an operation on a registry.
LEMMA HeadIsReplaced ==
  ASSUME HandlerTypes, TodoForm, todo # <<>>, UNCHANGED cluster,
         NEW p \in Pods, NEW m \in Names, Next1.pod = p, Next1.model = m,
         NEW x \in {"put", "drop"}, todo' = <<Op(x, p, m)>> \o Tail(todo),
         metaModels'[m] # Absent,
         x = "put" => m \in ModelsOf(p)',
         x = "drop" => m \notin ModelsOf(p)',
         \A q \in Pods : (metaPods'[q] = Absent) <=> (metaPods[q] = Absent)
  PROVE  /\ todo' \in Seq(Ops) /\ TodoForm'
         /\ x = "put" => AwaitsPut(p, m)'
         /\ x = "drop" => AwaitsDrop(p, m)'
         /\ \A q, n : AwaitsDrop(q, n) /\ ~(p = q /\ m = n)
                       => AwaitsDrop(q, n)'
<1> DEFINE e == Op(x, p, m)
<1>1. /\ Next1 = todo[1] /\ Len(todo) \in Nat \ {0} /\ todo \in Seq(Ops)
    BY NextOperation DEF HandlerTypes
<1>2. e \in Ops /\ e.op = x /\ e.pod = p /\ e.model = m
    BY OpsAreOps
<1>3. todo' = <<e>> \o Tail(todo)
    OBVIOUS
<1> HIDE DEF e
<1>4. /\ todo' \in Seq(Ops) /\ Len(todo') = Len(todo) /\ todo'[1] = e
      /\ \A i \in 2..Len(todo) : todo'[i] = todo[i]
    BY <1>1, <1>2, <1>3, RestOf
<1>o. \A i \in 2..Len(todo) : i \in 1..Len(todo) /\ todo[i] \in Ops /\ i # 1
    BY <1>1
<1>5. \A i \in 2..Len(todo) : /\ i \in 1..Len(todo) /\ todo[i].op \notin {"put", "drop"}
                              /\ todo[i].pod \in Pods
    BY <1>o DEF TodoForm, Ops
<1>6. TodoForm'
  <2> SUFFICES ASSUME NEW i \in 1..Len(todo')
               PROVE  /\ todo'[i].op \in {"put", "drop"} =>
                           i = 1 /\ metaModels'[todo'[i].model] # Absent
                      /\ todo'[i].op = "put" => todo'[i].model \in ModelsOf(todo[i].pod)'
                      /\ todo'[i].op = "drop" => todo'[i].model \notin ModelsOf(todo[i].pod)'
                      /\ todo'[i].op \in {"create", "delete"} => metaPods'[todo'[i].pod] = Absent
                      /\ todo'[i].op = "create" =>
                           /\ cluster'[todo'[i].pod] # Absent
                           /\ \A j \in (i + 1)..Len(todo') :
                                todo'[j].op \notin {"create", "delete"}
      BY DEF TodoForm
  <2>1. CASE i = 1
    <3>1. e.op # "create" /\ e.op # "delete"
        BY <1>2
    <3> QED BY <1>2, <1>4, <2>1, <3>1
  <2>2. CASE i \in 2..Len(todo)
    <3>1. /\ todo[i].op \in {"create", "delete"} => metaPods[todo[i].pod] = Absent
          /\ todo[i].op = "create" =>
               /\ cluster[todo[i].pod] # Absent
               /\ \A j \in (i + 1)..Len(todo) : todo[j].op \notin {"create", "delete"}
        BY <1>5, <2>2 DEF TodoForm
    <3>2. todo'[i] = todo[i] /\ todo[i].pod \in Pods /\ todo[i].op \notin {"put", "drop"}
        BY <1>4, <1>5, <2>2
    <3>3. \A j \in (i + 1)..Len(todo) : todo'[j] = todo[j]
        BY <1>1, <1>4, <2>2
    <3> QED BY <1>4, <3>1, <3>2, <3>3
  <2> QED BY <1>1, <1>4, <2>1, <2>2
<1>7. 1 \in 1..Len(todo')
    BY <1>1, <1>4
<1>8. ASSUME NEW q, NEW n, AwaitsDrop(q, n), ~(p = q /\ m = n)
      PROVE  AwaitsDrop(q, n)'
  <2>1. PICK j \in 1..Len(todo) :
          todo[j].op \in {"delete", "drop"} /\ todo[j].pod = q /\ todo[j].model = n
      BY <1>8 DEF AwaitsDrop
  <2>2. j \in 2..Len(todo)
      BY <1>1, <1>8, <2>1
  <2> QED BY <1>4, <2>1, <2>2 DEF AwaitsDrop
<1>9. /\ x = "put" => AwaitsPut(p, m)'
      /\ x = "drop" => AwaitsDrop(p, m)'
    BY <1>2, <1>4, <1>7 DEF AwaitsPut, AwaitsDrop
<1> QED BY <1>4, <1>6, <1>8, <1>9

\* The handler leaves the requests alone.
LEMMA RequestsStay ==
  ASSUME Types, StoreTypes', UNCHANGED requests, Len(object') >= Len(object)
  PROVE  RequestTypes'
<1>1. Len(object) \in Nat /\ Len(object') \in Nat
    BY LenProperties DEF Types, StoreTypes
<1>2. 1..Len(object) \subseteq 1..Len(object')
    BY <1>1
<1> QED BY <1>2 DEF Types, RequestTypes, requests

-----------------------------------------------------------------------------
(* Every step keeps the invariant.                                         *)

\* An event comes when the two directions agree; what it takes from the pods is on
\* the agenda to be taken from the registries.
LEMMA EventStep ==
  ASSUME IInv, HandleEvent
  PROVE  IInv'
<1>1. EventEffect
    BY EventsHaveEffect DEF IInv
<1>2. todo = <<>> /\ UNCHANGED <<metaModels, object, pc, model, held, target>>
    BY <1>1 DEF EventEffect
<1>3. \A p \in Pods, m \in Names : /\ m \in ModelsOf(p) <=> InRegistry(p, m)
                                   /\ InRegistry(p, m)' = InRegistry(p, m)
    BY <1>2, HeadIsPut DEF IInv, Account, Types, InRegistry
<1>4. Types' /\ KnownPods'
    BY <1>1, <1>2 DEF EventEffect, IInv, Types, RequestTypes, OwnObjects
<1>5. TodoForm'
    BY <1>1 DEF EventEffect, Agenda, TodoForm
<1>6. ASSUME NEW p \in Pods, NEW m \in Names
      PROVE  /\ m \in ModelsOf(p)' /\ ~InRegistry(p, m)' => AwaitsPut(p, m)'
             /\ InRegistry(p, m)' /\ m \notin ModelsOf(p)' => AwaitsDrop(p, m)'
  <2>1. CASE metaPods'[p] = metaPods[p]
      BY <1>3, <2>1 DEF ModelsOf
  <2>2. CASE /\ metaPods'[p] = Absent
             /\ \A n \in ModelsOf(p) : \E i \in 1..Len(todo') : todo'[i] = Op("delete", p, n)
    <3>1. ModelsOf(p)' = {}
        BY <2>2 DEF ModelsOf
    <3>2. InRegistry(p, m) => AwaitsDrop(p, m)'
        BY <1>3, <2>2, OpsAreOps DEF AwaitsDrop
    <3> QED BY <1>3, <3>1, <3>2
  <2> QED BY <1>1, <2>1, <2>2 DEF EventEffect
<1>7. \A m \in Names : metaModels'[m] # Absent => object'[metaModels'[m]].pods # {}
    BY <1>2, HeadIsPut DEF IInv, Account, Types
<1> QED BY <1>4, <1>5, <1>6, <1>7 DEF IInv, Account

\* addPodLocked: the pod was not cached, and has no models yet.
LEMMA CreateStep ==
  ASSUME IInv, CreatePod
  PROVE  IInv'
<1> DEFINE p == Next1.pod
<1>0. Types /\ HandlerTypes /\ StoreTypes
    BY DEF IInv, Types
<1>1. /\ todo # <<>> /\ Next1.op = "create" /\ todo' = Tail(todo)
      /\ metaPods' = [metaPods EXCEPT ![p] = NewPod]
      /\ UNCHANGED <<cluster, instances, metaModels, object, pc, model, held, target>>
    BY DEF CreatePod, informers, requests
<1>2. /\ p \in Pods /\ Next1 = todo[1] /\ Len(todo) \in Nat \ {0} /\ Tail(todo) \in Seq(Ops)
    BY <1>0, <1>1, NextOperation
<1>3. /\ metaPods[p] = Absent /\ cluster[p] # Absent
      /\ \A i \in 2..Len(todo) : todo[i].op \notin {"create", "delete"}
  <2>1. 1 \in 1..Len(todo) /\ 1 + 1 = 2
      BY <1>2
  <2> QED BY <1>1, <1>2, <2>1 DEF IInv, TodoForm
<1>4. NewPod \in PodEntry /\ NewPod.models = {} /\ NewPod # Absent
  <2>1. NewPod \in PodEntry /\ NewPod.models = {}
      BY DEF NewPod, PodEntry
  <2> QED BY <2>1, CacheStoreConstants
<1>5. /\ metaPods' \in [Pods -> PodEntry \cup {Absent}] /\ metaPods'[p] = NewPod
      /\ \A q \in Pods : q # p => metaPods'[q] = metaPods[q]
    BY <1>0, <1>1, <1>2, <1>4 DEF StoreTypes
<1>6. \A q \in Pods : ModelsOf(q)' = ModelsOf(q)
    BY <1>3, <1>4, <1>5 DEF ModelsOf
<1>7. /\ TodoForm' /\ \A q, n : ~AwaitsPut(q, n)'
      /\ \A q, n : AwaitsDrop(q, n) => AwaitsDrop(q, n)'
    BY <1>0, <1>1, <1>3, HeadIsDone DEF IInv
<1>8. \A q, n : ~AwaitsPut(q, n)
    BY <1>0, <1>1, HeadIsPut DEF IInv
<1>9. Types'
  <2>1. HandlerTypes' /\ StoreTypes' /\ OwnObjects'
      BY <1>0, <1>1, <1>2, <1>5 DEF HandlerTypes, StoreTypes, Types, OwnObjects
  <2>2. RequestTypes'
      BY <1>0, <1>1 DEF Types, RequestTypes
  <2> QED BY <2>1, <2>2 DEF Types
<1>10. KnownPods'
    BY <1>1, <1>3, <1>5 DEF KnownPods, IInv
<1>11. \A q \in Pods, n \in Names : InRegistry(q, n)' = InRegistry(q, n)
    BY <1>1 DEF InRegistry
<1>12. Account'
  <2>1. \A q \in Pods, n \in Names :
          /\ n \in ModelsOf(q)' /\ ~InRegistry(q, n)' => AwaitsPut(q, n)'
          /\ InRegistry(q, n)' /\ n \notin ModelsOf(q)' => AwaitsDrop(q, n)'
      BY <1>6, <1>7, <1>8, <1>11 DEF IInv, Account
  <2>2. \A n \in Names : metaModels'[n] # Absent => object'[metaModels'[n]].pods # {}
      BY <1>1, <1>8 DEF IInv, Account
  <2> QED BY <2>1, <2>2 DEF Account
<1> QED BY <1>7, <1>9, <1>10, <1>12 DEF IInv

\* An operation on a pod or a model that is not cached.
LEMMA SkipStep ==
  ASSUME IInv, Skip
  PROVE  IInv'
<1> DEFINE p == Next1.pod
           m == Next1.model
<1>0. Types /\ HandlerTypes /\ StoreTypes
    BY DEF IInv, Types
<1>1. /\ todo # <<>> /\ todo' = Tail(todo) /\ MapPod(Next1.op, p, m)
      /\ UNCHANGED <<cluster, instances, metaModels, object, pc, model, held, target>>
      /\ \/ Next1.op = "store" /\ metaPods[p] = Absent
         \/ Next1.op \in {"remove", "delete"} /\ metaModels[m] = Absent
    BY DEF Skip, informers, requests
<1>2. /\ p \in Pods /\ m \in Names
      /\ Next1 = todo[1] /\ Len(todo) \in Nat \ {0} /\ Tail(todo) \in Seq(Ops)
    BY <1>0, <1>1, NextOperation
<1>3. /\ metaPods' \in [Pods -> PodEntry \cup {Absent}]
      /\ \A q \in Pods : (metaPods'[q] = Absent) <=> (metaPods[q] = Absent)
      /\ \A q \in Pods, n \in Names :
           n \in ModelsOf(q)' <=>
             \/ n \in ModelsOf(q) /\ ~(Next1.op = "remove" /\ q = p /\ n = m)
             \/ Next1.op = "store" /\ metaPods[q] # Absent /\ q = p /\ n = m
    BY <1>0, <1>1, <1>2, ModelsEffect
<1>4. \A q \in Pods, n \in Names :
        n \in ModelsOf(q)' <=> n \in ModelsOf(q) /\ ~(Next1.op = "remove" /\ q = p /\ n = m)
    BY <1>1, <1>3
<1>5. \A i \in 2..Len(todo) :
        todo[i].op \in {"create", "delete"} => metaPods'[todo[i].pod] = Absent
  <2> SUFFICES ASSUME NEW i \in 2..Len(todo), todo[i].op \in {"create", "delete"}
               PROVE  metaPods'[todo[i].pod] = Absent
      OBVIOUS
  <2>1. i \in 1..Len(todo) /\ todo[i] \in Ops
      BY <1>0, <1>2 DEF HandlerTypes
  <2>2. todo[i].pod \in Pods /\ metaPods[todo[i].pod] = Absent
      BY <2>1 DEF IInv, TodoForm, Ops
  <2> QED BY <1>3, <2>2
<1>6. /\ TodoForm' /\ \A q, n : ~AwaitsPut(q, n)'
      /\ \A q, n : /\ AwaitsDrop(q, n)
                   /\ ~(Next1.op \in {"delete", "drop"} /\ p = q /\ m = n)
                   => AwaitsDrop(q, n)'
    BY <1>0, <1>1, <1>5, HeadIsDone DEF IInv
<1>7. \A q, n : ~AwaitsPut(q, n)
    BY <1>0, <1>1, HeadIsPut DEF IInv
<1>8. Types'
  <2>1. HandlerTypes' /\ StoreTypes' /\ OwnObjects'
      BY <1>0, <1>1, <1>2, <1>3 DEF HandlerTypes, StoreTypes, Types, OwnObjects
  <2>2. RequestTypes'
      BY <1>0, <1>1 DEF Types, RequestTypes
  <2> QED BY <2>1, <2>2 DEF Types
<1>9. KnownPods'
    BY <1>1, <1>3 DEF KnownPods, IInv
<1>10. \A q \in Pods, n \in Names : /\ InRegistry(q, n)' = InRegistry(q, n)
                                    /\ metaModels[n] = Absent => ~InRegistry(q, n)
    BY <1>1 DEF InRegistry
<1>11. Account'
  <2>1. ASSUME NEW q \in Pods, NEW n \in Names
        PROVE  /\ n \in ModelsOf(q)' /\ ~InRegistry(q, n)' => AwaitsPut(q, n)'
               /\ InRegistry(q, n)' /\ n \notin ModelsOf(q)' => AwaitsDrop(q, n)'
      BY <1>1, <1>4, <1>6, <1>7, <1>10 DEF IInv, Account
  <2>2. \A n \in Names : metaModels'[n] # Absent => object'[metaModels'[n]].pods # {}
      BY <1>1, <1>7 DEF IInv, Account
  <2> QED BY <2>1, <2>2 DEF Account
<1> QED BY <1>6, <1>8, <1>9, <1>11 DEF IInv

\* The reset of an array: the pod's models change now, the registry next.
LEMMA ResetStep ==
  ASSUME IInv, ResetArray
  PROVE  IInv'
<1>0. Types /\ HandlerTypes /\ StoreTypes
    BY DEF IInv, Types
<1>n. todo # <<>> /\ Next1.op \in {"store", "remove", "delete"}
    BY DEF ResetArray
<1>p. PICK p \in Pods, m \in Names : Next1.pod = p /\ Next1.model = m
    BY <1>0, <1>n, NextOperation
<1>x. PICK x \in {"put", "drop"} : x = IF Next1.op = "store" THEN "put" ELSE "drop"
    OBVIOUS
<1>1. /\ MapPod(Next1.op, p, m) /\ todo' = <<Op(x, p, m)>> \o Tail(todo)
      /\ Next1.op = "store" => metaPods[p] # Absent
      /\ UNCHANGED <<cluster, instances, pc, model, held, target>>
    BY <1>p, <1>x DEF ResetArray, informers, requests
<1>2. Next1 = todo[1] /\ Len(todo) \in Nat \ {0}
    BY <1>0, <1>n, NextOperation
<1>3. /\ metaPods' \in [Pods -> PodEntry \cup {Absent}]
      /\ \A q \in Pods : (metaPods'[q] = Absent) <=> (metaPods[q] = Absent)
      /\ \A q \in Pods, n \in Names :
           n \in ModelsOf(q)' <=>
             \/ n \in ModelsOf(q) /\ ~(Next1.op = "remove" /\ q = p /\ n = m)
             \/ Next1.op = "store" /\ metaPods[q] # Absent /\ q = p /\ n = m
  <2>1. MapPod(Next1.op, p, m)
      BY <1>1
  <2> QED BY <1>0, <2>1, ModelsEffect
<1>4. Next1.op = "delete" => m \notin ModelsOf(p)
  <2>1. 1 \in 1..Len(todo)
      BY <1>2
  <2> QED BY <1>2, <1>p, <2>1 DEF IInv, TodoForm, ModelsOf
<1>5. /\ (x = "put") <=> (Next1.op = "store")
      /\ x = "put" => m \in ModelsOf(p)'
      /\ x = "drop" => m \notin ModelsOf(p)'
    BY <1>1, <1>3, <1>4, <1>n, <1>x
<1>6. /\ StoreTypes' /\ OwnObjects' /\ Len(object') >= Len(object)
      /\ \A n \in Names : metaModels[n] # Absent =>
           /\ metaModels'[n] = metaModels[n]
           /\ object'[metaModels[n]].pods = object[metaModels[n]].pods
      /\ \A n \in Names : metaModels[n] = Absent /\ metaModels'[n] # Absent =>
           n = m /\ Next1.op = "store" /\ object'[metaModels'[n]] = Empty
      /\ metaModels'[m] # Absent
    BY <1>0, <1>p, ResetEffect
<1>7. /\ todo' \in Seq(Ops) /\ TodoForm'
      /\ x = "put" => AwaitsPut(p, m)'
      /\ x = "drop" => AwaitsDrop(p, m)'
      /\ \A q, n : AwaitsDrop(q, n) /\ ~(p = q /\ m = n) => AwaitsDrop(q, n)'
    BY <1>0, <1>1, <1>3, <1>5, <1>6, <1>n, <1>p, HeadIsReplaced, ZenonT(60) DEF IInv
<1>8. Types'
  <2>1. HandlerTypes'
      BY <1>0, <1>1, <1>7 DEF HandlerTypes
  <2>2. RequestTypes'
      BY <1>0, <1>1, <1>6, RequestsStay DEF requests
  <2> QED BY <1>6, <2>1, <2>2 DEF Types
<1>9. KnownPods'
    BY <1>1, <1>3 DEF KnownPods, IInv
<1>10. \A q, n : ~AwaitsPut(q, n)
    BY <1>0, <1>n, HeadIsPut DEF IInv
<1>11. \A q \in Pods, n \in Names : InRegistry(q, n)' <=> InRegistry(q, n)
    BY <1>6 DEF InRegistry, Empty
<1>12. Account'
  <2>1. ASSUME NEW q \in Pods, NEW n \in Names
        PROVE  /\ n \in ModelsOf(q)' /\ ~InRegistry(q, n)' => AwaitsPut(q, n)'
               /\ InRegistry(q, n)' /\ n \notin ModelsOf(q)' => AwaitsDrop(q, n)'
    <3>1. /\ n \in ModelsOf(q) => InRegistry(q, n)
          /\ InRegistry(q, n) /\ n \notin ModelsOf(q) => AwaitsDrop(q, n)
        BY <1>10 DEF IInv, Account
    <3>2. CASE q = p /\ n = m
        BY <1>5, <1>7, <3>2
    <3>3. CASE ~(q = p /\ n = m)
        BY <1>3, <1>7, <1>11, <3>1, <3>3
    <3> QED BY <3>2, <3>3
  <2>2. ASSUME NEW n \in Names, metaModels'[n] # Absent
        PROVE  object'[metaModels'[n]].pods # {} \/ \E q \in Pods : AwaitsPut(q, n)'
    <3>1. CASE metaModels[n] = Absent
        BY <1>5, <1>6, <1>7, <2>2, <3>1
    <3>2. CASE metaModels[n] # Absent
        BY <1>6, <1>10, <3>2 DEF IInv, Account
    <3> QED BY <3>1, <3>2
  <2> QED BY <2>1, <2>2 DEF Account
<1> QED BY <1>7, <1>8, <1>9, <1>12 DEF IInv

\* The registry follows.
LEMMA ChangeStep ==
  ASSUME IInv, ChangeRegistry
  PROVE  IInv'
<1> DEFINE p == Next1.pod
           m == Next1.model
<1>0. Types /\ HandlerTypes /\ StoreTypes
    BY DEF IInv, Types
<1>1. /\ todo # <<>> /\ Next1.op \in {"put", "drop"} /\ todo' = Tail(todo)
      /\ UNCHANGED <<cluster, instances, pc, model, held, target>>
    BY DEF ChangeRegistry, informers, requests
<1>2. /\ p \in Pods /\ m \in Names /\ Next1 = todo[1]
      /\ Len(todo) \in Nat \ {0} /\ Tail(todo) \in Seq(Ops)
    BY <1>0, <1>1, NextOperation
<1>3. /\ metaModels[m] # Absent
      /\ Next1.op = "put" => m \in ModelsOf(p)
      /\ Next1.op = "drop" => m \notin ModelsOf(p)
  <2>1. 1 \in 1..Len(todo)
      BY <1>2
  <2> QED BY <1>1, <1>2, <2>1 DEF IInv, TodoForm
<1>4. /\ StoreTypes' /\ OwnObjects' /\ Len(object') = Len(object)
      /\ metaPods' = metaPods
      /\ \A n \in Names :
           /\ n # m => metaModels'[n] = metaModels[n]
           /\ metaModels[n] # Absent =>
                object'[metaModels[n]].pods =
                  IF n # m THEN object[metaModels[n]].pods
                  ELSE IF Next1.op = "put" THEN object[metaModels[n]].pods \cup {p}
                       ELSE object[metaModels[n]].pods \ {p}
      /\ metaModels'[m] = IF Next1.op = "put" \/ object[metaModels[m]].pods \ {p} # {}
                          THEN metaModels[m] ELSE Absent
    BY <1>0, <1>3, ChangeEffect
<1>5. \A i \in 2..Len(todo) :
        todo[i].op \in {"create", "delete"} => metaPods'[todo[i].pod] = Absent
    BY <1>2, <1>4 DEF IInv, TodoForm
<1>6. /\ TodoForm' /\ \A q, n : ~AwaitsPut(q, n)'
      /\ \A q, n : /\ AwaitsDrop(q, n)
                   /\ ~(Next1.op \in {"delete", "drop"} /\ p = q /\ m = n)
                   => AwaitsDrop(q, n)'
    BY <1>0, <1>1, <1>5, HeadIsDone DEF IInv
<1>7. Types'
  <2>1. HandlerTypes'
      BY <1>0, <1>1, <1>2 DEF HandlerTypes
  <2>2. Len(object') >= Len(object)
      BY <1>0, <1>4, LenProperties DEF StoreTypes
  <2>3. RequestTypes'
      BY <1>0, <1>1, <1>4, <2>2, RequestsStay DEF requests
  <2> QED BY <1>4, <2>1, <2>3 DEF Types
<1>8. KnownPods'
    BY <1>1, <1>4 DEF KnownPods, IInv
<1>9. /\ \A q \in Pods : ModelsOf(q)' = ModelsOf(q)
      /\ \A q, n : AwaitsPut(q, n) => Next1.op = "put" /\ q = p /\ n = m
    BY <1>0, <1>4, HeadIsPut DEF IInv, ModelsOf
<1>10. \A q \in Pods, n \in Names :
         InRegistry(q, n)' <=> IF q = p /\ n = m THEN Next1.op = "put" ELSE InRegistry(q, n)
  <2> SUFFICES ASSUME NEW q \in Pods, NEW n \in Names
               PROVE  InRegistry(q, n)' <=>
                        IF q = p /\ n = m THEN Next1.op = "put" ELSE InRegistry(q, n)
      OBVIOUS
  <2>1. CASE n # m
      BY <1>4, <2>1 DEF InRegistry
  <2>2. CASE n = m /\ Next1.op = "put"
    <3>1. /\ metaModels'[m] = metaModels[m]
          /\ object'[metaModels[m]].pods = object[metaModels[m]].pods \cup {p}
        BY <1>2, <1>3, <1>4, <2>2
    <3> QED BY <1>3, <2>2, <3>1 DEF InRegistry
  <2>3. CASE n = m /\ Next1.op = "drop"
      BY <1>2, <1>3, <1>4, <2>3 DEF InRegistry
  <2> QED BY <1>1, <2>1, <2>2, <2>3
<1>11. Account'
  <2>1. ASSUME NEW q \in Pods, NEW n \in Names
        PROVE  /\ n \in ModelsOf(q)' /\ ~InRegistry(q, n)' => AwaitsPut(q, n)'
               /\ InRegistry(q, n)' /\ n \notin ModelsOf(q)' => AwaitsDrop(q, n)'
    <3>1. CASE q = p /\ n = m
        BY <1>1, <1>3, <1>9, <1>10, <3>1
    <3>2. CASE ~(q = p /\ n = m)
        BY <1>6, <1>9, <1>10, <3>2 DEF IInv, Account
    <3> QED BY <3>1, <3>2
  <2>2. ASSUME NEW n \in Names, metaModels'[n] # Absent
        PROVE  object'[metaModels'[n]].pods # {}
    <3>1. CASE n # m
      <4>1. /\ metaModels'[n] = metaModels[n] /\ metaModels[n] # Absent
            /\ object'[metaModels[n]].pods = object[metaModels[n]].pods
          BY <1>4, <2>2, <3>1
      <4>2. \A q \in Pods : ~AwaitsPut(q, n)
          BY <1>9, <3>1
      <4>3. object[metaModels[n]].pods # {}
          BY <4>1, <4>2, Zenon DEF IInv, Account
      <4> HIDE DEF m
      <4> QED BY <4>1, <4>3
    <3>2. CASE n = m
        BY <1>1, <1>2, <1>3, <1>4, <2>2, <3>2
    <3> QED BY <3>1, <3>2
  <2> QED BY <2>1, <2>2 DEF Account
<1> QED BY <1>6, <1>7, <1>8, <1>11 DEF IInv

\* AddRequestCount and DoneRequest, d being 1 or -1.
LEMMA CountStep ==
  ASSUME Types, NEW r \in Requests, AddRequestCount(r) \/ DoneRequest(r)
  PROVE  /\ UNCHANGED <<cluster, instances, metaModels, todo, model, held, target>>
         /\ StoreTypes' /\ RequestTypes' /\ target[r] \in Pods /\ model[r] \in Names
         /\ \E d \in {1, -1} :
              /\ pc[r] = IF d = 1 THEN "routed" ELSE "counted"
              /\ pc' = [pc EXCEPT ![r] = IF d = 1 THEN "counted" ELSE "ended"]
              /\ CountOn(r, d) /\ RunOn(r, d)
<1>1. UNCHANGED <<cluster, instances, metaModels, todo, model, held, target>>
    BY DEF AddRequestCount, DoneRequest, informers
<1>2. PICK d \in {1, -1} :
        /\ pc[r] = IF d = 1 THEN "routed" ELSE "counted"
        /\ pc' = [pc EXCEPT ![r] = IF d = 1 THEN "counted" ELSE "ended"]
        /\ CountOn(r, d) /\ RunOn(r, d)
    BY DEF AddRequestCount, DoneRequest
<1>3. pc[r] \in {"routed", "counted"} /\ d \in Int
    BY <1>2
<1>4. StoreTypes' /\ Len(object') = Len(object) /\ target[r] \in Pods
    BY <1>1, <1>2, <1>3, CountEffect
<1>5. RequestTypes'
    BY <1>1, <1>2, <1>4 DEF Types, RequestTypes
<1> QED BY <1>1, <1>2, <1>4, <1>5 DEF Types, RequestTypes

\* The requests change no mapping.
LEMMA RequestKeeps ==
  ASSUME IInv, NEW r \in Requests, RequestStep(r)
  PROVE  IInv'
<1>0. Types
    BY DEF IInv
<1>1. /\ StoreTypes' /\ RequestTypes'
      /\ UNCHANGED <<cluster, instances, metaModels, todo>>
      /\ \A n \in Names : metaModels[n] # Absent =>
           object'[metaModels[n]].pods = object[metaModels[n]].pods
      /\ \A q \in Pods : /\ (metaPods'[q] = Absent) <=> (metaPods[q] = Absent)
                         /\ metaPods[q] # Absent => metaPods'[q].models = metaPods[q].models
  <2>1. CASE LoadModel(r) \/ ReadArray(r) \/ RebuildArray(r)
    <3>1. /\ StoreTypes' /\ RequestTypes'
          /\ UNCHANGED <<metaPods, cluster, instances, metaModels, todo>>
          /\ \A i \in 1..Len(object) : object'[i].pods = object[i].pods
        BY <1>0, <2>1, ReadEffect
    <3> QED BY <1>0, <3>1 DEF Types, StoreTypes
  <2>2. CASE AddRequestCount(r) \/ DoneRequest(r)
    <3>1. /\ StoreTypes' /\ RequestTypes'
          /\ UNCHANGED <<cluster, instances, metaModels, todo>>
        BY <1>0, <2>2, CountStep
    <3>2. PICK d \in {1, -1} : /\ pc[r] = IF d = 1 THEN "routed" ELSE "counted"
                               /\ CountOn(r, d) /\ RunOn(r, d)
        BY <1>0, <2>2, CountStep
    <3>3. pc[r] \in {"routed", "counted"} /\ d \in Int
        BY <3>2
    <3>4. /\ \A n \in Names : metaModels[n] # Absent =>
               object'[metaModels[n]].pods = object[metaModels[n]].pods
          /\ \A q \in Pods :
               /\ (metaPods'[q] = Absent) <=> (metaPods[q] = Absent)
               /\ metaPods[q] # Absent => metaPods'[q].models = metaPods[q].models
        BY <1>0, <3>1, <3>2, <3>3, CountEffect
    <3> QED BY <3>1, <3>4
  <2> QED BY <2>1, <2>2 DEF RequestStep
<1>2. /\ \A q \in Pods : ModelsOf(q)' = ModelsOf(q)
      /\ \A q \in Pods, n \in Names : InRegistry(q, n)' <=> InRegistry(q, n)
      /\ \A q, n : AwaitsPut(q, n)' <=> AwaitsPut(q, n)
      /\ \A q, n : AwaitsDrop(q, n)' <=> AwaitsDrop(q, n)
    BY <1>1 DEF ModelsOf, InRegistry, AwaitsPut, AwaitsDrop
<1>3. Types' /\ KnownPods'
    BY <1>0, <1>1 DEF IInv, Types, HandlerTypes, OwnObjects, KnownPods
<1>4. TodoForm'
  <2>0. \A i \in 1..Len(todo) : todo[i] \in Ops
      BY <1>0 DEF Types, HandlerTypes
  <2>1. \A i \in 1..Len(todo) : todo[i].pod \in Pods
      BY <2>0 DEF Ops
  <2> QED BY <1>1, <1>2, <2>1 DEF IInv, TodoForm
<1>5. Account'
  <2>1. \A p \in Pods, m \in Names :
          /\ m \in ModelsOf(p)' /\ ~InRegistry(p, m)' => AwaitsPut(p, m)'
          /\ InRegistry(p, m)' /\ m \notin ModelsOf(p)' => AwaitsDrop(p, m)'
      BY <1>2 DEF IInv, Account
  <2>2. \A m \in Names : metaModels'[m] # Absent =>
          object'[metaModels'[m]].pods # {} \/ \E p \in Pods : AwaitsPut(p, m)'
      BY <1>1, <1>2 DEF IInv, Account
  <2> QED BY <2>1, <2>2 DEF Account
<1> QED BY <1>3, <1>4, <1>5 DEF IInv

LEMMA InitIInv ==
  ASSUME Init
  PROVE  IInv
<1>1. todo = <<>> /\ todo \in Seq(Ops) /\ Len(todo) = 0 /\ 1..Len(todo) = {}
    BY DEF Init
<1>2. object = <<>> /\ object \in Seq(Object)
    BY DEF Init
<1>3. /\ cluster = [p \in Pods |-> Absent] /\ instances = [a \in Adapters |-> Absent]
      /\ metaPods = [p \in Pods |-> Absent] /\ metaModels = [m \in Names |-> Absent]
      /\ pc = [r \in Requests |-> "start"] /\ model \in [Requests -> Names]
      /\ held = [r \in Requests |-> Absent] /\ target = [r \in Requests |-> Absent]
    BY DEF Init
<1>4. HandlerTypes /\ StoreTypes /\ OwnObjects
    BY <1>1, <1>2, <1>3 DEF HandlerTypes, StoreTypes, OwnObjects
<1>5. RequestTypes
    BY <1>3 DEF RequestTypes
<1>6. KnownPods /\ TodoForm
    BY <1>1, <1>3 DEF KnownPods, TodoForm
<1>7. Account
    BY <1>3 DEF Account, ModelsOf, InRegistry
<1> QED BY <1>4, <1>5, <1>6, <1>7 DEF IInv, Types

LEMMA NextIInv ==
  ASSUME IInv, [Next]_vars
  PROVE  IInv'
<1>1. CASE Next
  <2>1. CASE HandleEvent
      BY <2>1, EventStep
  <2>2. CASE CreatePod \/ Skip \/ ResetArray \/ ChangeRegistry
      BY <2>2, CreateStep, SkipStep, ResetStep, ChangeStep
  <2>3. CASE \E r \in Requests : RequestStep(r)
      BY <2>3, RequestKeeps
  <2> QED BY <1>1, <2>1, <2>2, <2>3 DEF Next, Handler, HandleEvent
<1>2. CASE UNCHANGED vars
  <2>1. UNCHANGED <<cluster, instances, metaPods, metaModels, object, todo, pc, model, held,
                    target>>
      BY <1>2 DEF vars, informers, store, requests
  <2>2. Types' /\ KnownPods' /\ TodoForm'
      BY <2>1 DEF IInv, Types, HandlerTypes, StoreTypes, RequestTypes, OwnObjects, KnownPods,
                  TodoForm, ModelsOf
  <2>3. Account'
      BY <2>1 DEF IInv, Account, ModelsOf, InRegistry, AwaitsPut, AwaitsDrop
  <2> QED BY <2>2, <2>3 DEF IInv
<1> QED BY <1>1, <1>2

\* The inductive invariant: wherever a pod and the registry of a model disagree, the
\* handler that holds the lock has the repair on its agenda (informers.go:91-325).
THEOREM IInvAlways == Spec => []IInv
BY InitIInv, NextIInv, PTL DEF Spec

\* Between two handlers the agenda is empty, so the two directions of the mapping
\* agree, for any pods, models and adapters and any events (informers.go:91-325).
THEOREM MappingsAgreeAlways == Spec => []MappingsAgree
<1>1. IInv => MappingsAgree
  <2> SUFFICES ASSUME IInv, Quiet, NEW m \in Names
               PROVE  IF metaModels[m] = Absent
                      THEN \A p \in Pods : m \notin ModelsOf(p)
                      ELSE /\ object[metaModels[m]].pods = {p \in Pods : m \in ModelsOf(p)}
                           /\ object[metaModels[m]].pods # {}
      BY DEF MappingsAgree
  <2>1. \A p, n : ~AwaitsPut(p, n) /\ ~AwaitsDrop(p, n)
      BY HeadIsPut DEF IInv, Types, Quiet
  <2>2. \A p \in Pods : m \in ModelsOf(p) <=> InRegistry(p, m)
      BY <2>1 DEF IInv, Account
  <2>3. CASE metaModels[m] = Absent
      BY <2>2, <2>3 DEF InRegistry
  <2>4. CASE metaModels[m] # Absent
    <3>0. object[metaModels[m]] \in Object
        BY <2>4 DEF IInv, Types, StoreTypes
    <3>1. object[metaModels[m]].pods \subseteq Pods
        BY <3>0 DEF Object
    <3>2. object[metaModels[m]].pods # {}
        BY <2>1, <2>4 DEF IInv, Account
    <3> QED BY <2>2, <2>4, <3>1, <3>2 DEF InRegistry
  <2> QED BY <2>3, <2>4
<1> QED BY <1>1, IInvAlways, PTL

-----------------------------------------------------------------------------
(* The counts.                                                             *)

OnPod(p) == {r \in Requests : Counted(r) /\ target[r] = p}

OnModel(m) == {r \in Requests : Counted(r) /\ model[r] = m}

PodCount(p) == metaPods[p] # Absent => metaPods[p].running <= Cardinality(OnPod(p))

ModelCount(m) ==
  metaModels[m] # Absent => object[metaModels[m]].pending <= Cardinality(OnModel(m))

LEMMA Overcounts ==
  NeverOvercounts <=> (\A p \in Pods : PodCount(p)) /\ (\A m \in Names : ModelCount(m))
BY DEF NeverOvercounts, PodCount, ModelCount, OnPod, OnModel

\* The requests counted are finitely many.
LEMMA CountedFinite ==
  ASSUME NEW S, S \subseteq Requests
  PROVE  IsFiniteSet(S) /\ Cardinality(S) \in Nat
BY FS_Subset, FS_CardinalityType, CacheStoreConstants

\* A step that counts no request keeps the counts of those pods and models it keeps;
\* a pod or a model that is new counts 0.
LEMMA SameCounts ==
  ASSUME Types, Types', NeverOvercounts, UNCHANGED model,
         \A r \in Requests : /\ Counted(r)' <=> Counted(r)
                             /\ Counted(r) => target'[r] = target[r],
         \A p \in Pods : metaPods'[p] # Absent =>
           \/ metaPods[p] # Absent /\ metaPods'[p].running = metaPods[p].running
           \/ metaPods'[p].running = 0,
         \A m \in Names : metaModels'[m] # Absent =>
           \/ /\ metaModels[m] # Absent
              /\ object'[metaModels'[m]].pending = object[metaModels[m]].pending
           \/ object'[metaModels'[m]].pending = 0
  PROVE  NeverOvercounts'
<1>1. ASSUME NEW p \in Pods PROVE PodCount(p)'
  <2>1. OnPod(p)' = OnPod(p)
      BY DEF OnPod
  <2>2. Cardinality(OnPod(p)) \in Nat
      BY CountedFinite DEF OnPod
  <2>3. PodCount(p)
      BY Overcounts
  <2> QED BY <2>1, <2>2, <2>3 DEF PodCount
<1>2. ASSUME NEW m \in Names PROVE ModelCount(m)'
  <2>1. OnModel(m)' = OnModel(m)
      BY DEF OnModel
  <2>2. Cardinality(OnModel(m)) \in Nat
      BY CountedFinite DEF OnModel
  <2>3. ModelCount(m)
      BY Overcounts
  <2> QED BY <2>1, <2>2, <2>3 DEF ModelCount
<1>3. (\A p \in Pods : PodCount(p)') /\ (\A m \in Names : ModelCount(m)')
    BY <1>1, <1>2
<1> QED BY <1>3 DEF NeverOvercounts, PodCount, ModelCount, OnPod, OnModel

\* The steps of the handlers.
LEMMA HandlerCounts ==
  ASSUME IInv, IInv', NeverOvercounts, Handler
  PROVE  NeverOvercounts'
<1>0. Types /\ Types' /\ HandlerTypes /\ StoreTypes
    BY DEF IInv, Types
<1>1. CASE HandleEvent
  <2>1. /\ UNCHANGED <<metaModels, object, pc, model, target>>
        /\ \A p \in Pods : metaPods'[p] = metaPods[p] \/ metaPods'[p] = Absent
      BY <1>0, <1>1, EventsHaveEffect DEF IInv, EventEffect
  <2> QED BY <1>0, <2>1, SameCounts DEF Counted
<1>2. CASE CreatePod
  <2>1. /\ UNCHANGED <<metaModels, object, pc, model, target>>
        /\ metaPods' = [metaPods EXCEPT ![Next1.pod] = NewPod]
      BY <1>2 DEF CreatePod, requests
  <2>2. \A p \in Pods : metaPods'[p] = metaPods[p] \/ metaPods'[p] = NewPod
      BY <1>0, <2>1 DEF StoreTypes
  <2>3. \A p \in Pods : metaPods'[p] = metaPods[p] \/ metaPods'[p].running = 0
      BY <2>2 DEF NewPod
  <2> QED BY <1>0, <2>1, <2>3, SameCounts DEF Counted
<1>3. ASSUME todo # <<>>, MapPod(Next1.op, Next1.pod, Next1.model)
      PROVE  \A p \in Pods : /\ (metaPods'[p] = Absent) <=> (metaPods[p] = Absent)
                             /\ metaPods[p] # Absent => metaPods'[p].running = metaPods[p].running
  <2>1. Next1.pod \in Pods /\ Next1.model \in Names
      BY <1>0, <1>3, NextOperation
  <2> QED BY <1>0, <1>3, <2>1, MapPodEffect
<1>4. CASE Skip
  <2>1. /\ UNCHANGED <<metaModels, object, pc, model, target>>
        /\ todo # <<>> /\ MapPod(Next1.op, Next1.pod, Next1.model)
      BY <1>4 DEF Skip, requests
  <2> QED BY <1>0, <1>3, <2>1, SameCounts DEF Counted
<1>5. CASE ResetArray
  <2>1. /\ UNCHANGED <<pc, model, target>>
        /\ todo # <<>> /\ MapPod(Next1.op, Next1.pod, Next1.model)
      BY <1>5 DEF ResetArray, requests
  <2>2. \A m \in Names : metaModels'[m] # Absent =>
          \/ /\ metaModels[m] # Absent
             /\ object'[metaModels'[m]].pending = object[metaModels[m]].pending
          \/ object'[metaModels'[m]].pending = 0
      BY <1>0, <1>5, ResetEffect DEF Empty
  <2> QED BY <1>0, <1>3, <2>1, <2>2, SameCounts DEF Counted
<1>6. CASE ChangeRegistry
  <2>1. UNCHANGED <<pc, model, target>> /\ todo # <<>> /\ Next1.op \in {"put", "drop"}
      BY <1>6 DEF ChangeRegistry, requests
  <2>2. Next1.model \in Names /\ metaModels[Next1.model] # Absent
    <3>1. Next1 = todo[1] /\ 1 \in 1..Len(todo) /\ Next1.model \in Names
        BY <1>0, <2>1, NextOperation
    <3> QED BY <2>1, <3>1 DEF IInv, TodoForm
  <2>3. /\ metaPods' = metaPods
        /\ \A n \in Names : /\ n # Next1.model => metaModels'[n] = metaModels[n]
                            /\ metaModels[n] # Absent =>
                                 object'[metaModels[n]].pending = object[metaModels[n]].pending
        /\ metaModels'[Next1.model] \in {metaModels[Next1.model], Absent}
      BY <1>0, <1>6, <2>2, ChangeEffect
  <2>4. \A n \in Names : metaModels'[n] # Absent =>
          /\ metaModels[n] # Absent
          /\ object'[metaModels'[n]].pending = object[metaModels[n]].pending
    <3> SUFFICES ASSUME NEW n \in Names, metaModels'[n] # Absent
                 PROVE  /\ metaModels[n] # Absent
                        /\ object'[metaModels'[n]].pending = object[metaModels[n]].pending
        OBVIOUS
    <3>1. metaModels'[n] = metaModels[n]
        BY <2>3
    <3> QED BY <2>3, <3>1
  <2> QED BY <1>0, <2>1, <2>3, <2>4, SameCounts DEF Counted
<1> QED BY <1>1, <1>2, <1>4, <1>5, <1>6 DEF Handler, HandleEvent

\* A request that joins or leaves a set of requests.
LEMMA OneMoreOrLess ==
  ASSUME NEW S \in SUBSET Requests, NEW r \in Requests
  PROVE  /\ r \notin S => Cardinality(S \cup {r}) = Cardinality(S) + 1
         /\ r \in S => Cardinality(S \ {r}) = Cardinality(S) - 1
BY CountedFinite, FS_AddElement, FS_RemoveElement

\* A request that counts itself joins those of its pod and of its model; one that is
\* done leaves them.
LEMMA CountCounts ==
  ASSUME Types, Types', NeverOvercounts, NEW r \in Requests,
         AddRequestCount(r) \/ DoneRequest(r)
  PROVE  NeverOvercounts'
<1>1. /\ UNCHANGED <<metaModels, model, target>>
      /\ target[r] \in Pods /\ model[r] \in Names
    BY CountStep
<1>2. PICK d \in {1, -1} :
        /\ pc[r] = IF d = 1 THEN "routed" ELSE "counted"
        /\ pc' = [pc EXCEPT ![r] = IF d = 1 THEN "counted" ELSE "ended"]
        /\ CountOn(r, d) /\ RunOn(r, d)
    BY CountStep
<1>3. pc[r] \in {"routed", "counted"} /\ d \in Int
    BY <1>2
<1>4. /\ \A m \in Names : metaModels[m] # Absent =>
           object'[metaModels[m]].pending =
             IF m = model[r] THEN object[metaModels[m]].pending + d
             ELSE object[metaModels[m]].pending
      /\ \A p \in Pods :
           /\ (metaPods'[p] = Absent) <=> (metaPods[p] = Absent)
           /\ metaPods[p] # Absent =>
                metaPods'[p].running = IF p = target[r] THEN metaPods[p].running + d
                                       ELSE metaPods[p].running
    BY <1>1, <1>2, <1>3, CountEffect
<1>5. /\ pc \in [Requests -> {"start", "list", "rebuild", "routed", "counted", "ended"}]
      /\ \A q \in Requests : q # r => (Counted(q)' <=> Counted(q))
      /\ Counted(r) <=> d = -1
      /\ Counted(r)' <=> d = 1
    BY <1>2 DEF Types, RequestTypes, Counted
<1>6. ASSUME NEW S \in SUBSET Requests, NEW T, (r \in S) <=> (d = -1),
             T = IF d = 1 THEN S \cup {r} ELSE S \ {r}
      PROVE  Cardinality(T) = Cardinality(S) + d /\ Cardinality(S) \in Nat
    BY <1>6, OneMoreOrLess, CountedFinite
<1>7. ASSUME NEW p \in Pods PROVE PodCount(p)'
  <2>1. PodCount(p)
      BY Overcounts
  <2>2. CASE p = target[r]
    <3>1. /\ OnPod(p) \in SUBSET Requests
          /\ (r \in OnPod(p)) <=> (d = -1)
          /\ OnPod(p)' = IF d = 1 THEN OnPod(p) \cup {r} ELSE OnPod(p) \ {r}
        BY <1>1, <1>5, <2>2 DEF OnPod
    <3>2. Cardinality(OnPod(p)') = Cardinality(OnPod(p)) + d /\ Cardinality(OnPod(p)) \in Nat
        BY <1>6, <3>1
    <3>3. metaPods[p] # Absent => metaPods[p].running \in Int
        BY DEF Types, StoreTypes, PodEntry
    <3> QED BY <1>4, <2>1, <2>2, <3>2, <3>3 DEF PodCount
  <2>3. CASE p # target[r]
    <3>1. OnPod(p)' = OnPod(p)
        BY <1>1, <1>5, <2>3 DEF OnPod
    <3> QED BY <1>4, <2>1, <2>3, <3>1 DEF PodCount
  <2> QED BY <2>2, <2>3
<1>8. ASSUME NEW m \in Names PROVE ModelCount(m)'
  <2>1. ModelCount(m)
      BY Overcounts
  <2>2. CASE m = model[r]
    <3>1. /\ OnModel(m) \in SUBSET Requests
          /\ (r \in OnModel(m)) <=> (d = -1)
          /\ OnModel(m)' = IF d = 1 THEN OnModel(m) \cup {r} ELSE OnModel(m) \ {r}
        BY <1>1, <1>5, <2>2 DEF OnModel
    <3>2. /\ Cardinality(OnModel(m)') = Cardinality(OnModel(m)) + d
          /\ Cardinality(OnModel(m)) \in Nat
        BY <1>6, <3>1
    <3>3. metaModels[m] # Absent => object[metaModels[m]] \in Object
        BY DEF Types, StoreTypes
    <3>4. metaModels[m] # Absent => object[metaModels[m]].pending \in Int
        BY <3>3 DEF Object
    <3> QED BY <1>1, <1>4, <2>1, <2>2, <3>2, <3>4 DEF ModelCount
  <2>3. CASE m # model[r]
    <3>1. OnModel(m)' = OnModel(m)
        BY <1>1, <1>5, <2>3 DEF OnModel
    <3> QED BY <1>1, <1>4, <2>1, <2>3, <3>1 DEF ModelCount
  <2> QED BY <2>2, <2>3
<1>9. (\A p \in Pods : PodCount(p)') /\ (\A m \in Names : ModelCount(m)')
    BY <1>7, <1>8
<1> QED BY <1>9 DEF NeverOvercounts, PodCount, ModelCount, OnPod, OnModel

\* However the updates of the pods and of the adapters interleave with the requests,
\* neither a pod's nor a model's count exceeds the requests that are counted on it
\* (informers.go:130-154, cache_trace.go:46-81, cache_impl.go:168-245).
THEOREM NeverOvercountsAlways == Spec => []NeverOvercounts
<1>1. Init => NeverOvercounts
    BY DEF Init, NeverOvercounts
<1>2. IInv /\ IInv' /\ NeverOvercounts /\ [Next]_vars => NeverOvercounts'
  <2> SUFFICES ASSUME IInv, IInv', NeverOvercounts, [Next]_vars
               PROVE  NeverOvercounts'
      OBVIOUS
  <2>1. Types /\ Types'
      BY DEF IInv
  <2>2. CASE Handler
      BY <2>2, HandlerCounts
  <2>3. ASSUME NEW r \in Requests, LoadModel(r) \/ ReadArray(r) \/ RebuildArray(r)
        PROVE  NeverOvercounts'
    <3>1. /\ UNCHANGED <<metaPods, metaModels, model>>
          /\ \A i \in 1..Len(object) : object'[i].pending = object[i].pending
          /\ \A s \in Requests : /\ (pc'[s] = "counted") <=> (pc[s] = "counted")
                                 /\ pc[s] = "counted" => target'[s] = target[s]
        BY <2>1, <2>3, ReadEffect
    <3>2. \A m \in Names : metaModels'[m] # Absent =>
            /\ metaModels[m] # Absent
            /\ object'[metaModels'[m]].pending = object[metaModels[m]].pending
        BY <2>1, <3>1 DEF Types, StoreTypes
    <3> QED BY <2>1, <3>1, <3>2, SameCounts DEF Counted
  <2>4. ASSUME NEW r \in Requests, AddRequestCount(r) \/ DoneRequest(r)
        PROVE  NeverOvercounts'
      BY <2>1, <2>4, CountCounts
  <2>5. CASE UNCHANGED vars
    <3>1. UNCHANGED <<metaPods, metaModels, object, pc, model, target>>
        BY <2>5 DEF vars, store, requests
    <3> QED BY <3>1 DEF NeverOvercounts, Counted
  <2> QED BY <2>2, <2>3, <2>4, <2>5 DEF Next, RequestStep
<1> QED BY <1>1, <1>2, IInvAlways, PTL DEF Spec
=============================================================================
