----------------------------- MODULE FusionStore -----------------------------
(***************************************************************************)
(* The memory of the Fusion store (fusion/store/memory.go): one run, whose *)
(* struct holds references to maps.  Update changes those maps in place    *)
(* under the write lock and then stores a clone; Get takes the struct under*)
(* the read lock and clones its maps after the lock is released.  A thread *)
(* "at" a map is iterating over it or writing it.                          *)
(* An operator Op_Word is a plausible bug in Op; no specification uses it. *)
(***************************************************************************)
EXTENDS Naturals, FiniteSets

CONSTANTS
  Updates,    \* updates of the run, made once each
  Readers,    \* threads that call Get
  Objects,    \* places for the maps of a run
  NoObject,
  NoUpdate

\* Memory does not run out: every thread finds places for the maps it makes.
ASSUME StoreAssumption ==
  /\ NoObject \notin Objects /\ NoUpdate \notin Updates /\ Updates \cap Readers = {}
  /\ IsFiniteSet(Updates) /\ IsFiniteSet(Readers) /\ IsFiniteSet(Objects)
  /\ Cardinality(Objects) >= Cardinality(Updates) + 2 * Cardinality(Readers) + 2

VARIABLES
  heap,       \* what the two maps at a place hold: the updates they show
  current,    \* the place of the maps of Memory.runs[id]
  writer,     \* the update that holds the write lock
  at,         \* the map each thread is at
  ref,        \* the place of the run a thread works on
  result,     \* the place of the run an update or a reader was handed
  committed   \* the updates that reported success

storeVars == <<heap, current, writer, at, ref, result, committed>>
Threads == Updates \cup Readers
Maps == {"byID", "byKey"}
Run == [Maps -> SUBSET Updates]
Blank == [m \in Maps |-> {}]

Referenced == {current} \cup {ref[t] : t \in Threads} \cup {result[t] : t \in Threads}
Fresh(avoid) == CHOOSE o \in Objects : o \notin Referenced \cup avoid

StoreInit ==
  /\ heap = [o \in Objects |-> Blank]
  /\ current = CHOOSE o \in Objects : TRUE
  /\ writer = NoUpdate
  /\ at = [t \in Threads |-> "start"]
  /\ ref = [t \in Threads |-> NoObject]
  /\ result = [t \in Threads |-> NoObject]
  /\ committed = {}

\* Update: lock, and let mutate write the first of the maps.
Lock_Shared(u) ==
  /\ at[u] = "start"
  /\ writer' = u
  /\ ref' = [ref EXCEPT ![u] = current]
  /\ at' = [at EXCEPT ![u] = "byID"]
  /\ UNCHANGED <<heap, current, result, committed>>
Lock(u) ==
  /\ at[u] = "start" /\ writer = NoUpdate
  /\ writer' = u
  /\ ref' = [ref EXCEPT ![u] = current]
  /\ at' = [at EXCEPT ![u] = "byID"]
  /\ UNCHANGED <<heap, current, result, committed>>

\* The write of one map ends; mutate goes to the next map.
Write(u) ==
  /\ at[u] \in Maps
  /\ heap' = [heap EXCEPT ![ref[u]][at[u]] = @ \cup {u}]
  /\ at' = [at EXCEPT ![u] = IF @ = "byID" THEN "byKey" ELSE "commit"]
  /\ UNCHANGED <<current, writer, ref, result, committed>>

\* mutate fails after it wrote the first map: nothing is stored and nothing is
\* taken back.
Fail(u) ==
  /\ at[u] = "byKey"
  /\ at' = [at EXCEPT ![u] = "done"]
  /\ writer' = NoUpdate
  /\ ref' = [ref EXCEPT ![u] = NoObject]
  /\ UNCHANGED <<heap, current, result, committed>>

\* Store one clone and hand another to the caller.
Commit_HandsStored(u) ==
  /\ at[u] = "commit"
  /\ LET stored == Fresh({})
     IN  /\ heap' = [heap EXCEPT ![stored] = heap[ref[u]]]
         /\ current' = stored
         /\ result' = [result EXCEPT ![u] = stored]
  /\ committed' = committed \cup {u}
  /\ at' = [at EXCEPT ![u] = "done"]
  /\ writer' = NoUpdate
  /\ ref' = [ref EXCEPT ![u] = NoObject]
Commit(u) ==
  /\ at[u] = "commit"
  /\ LET stored == Fresh({})
         handed == Fresh({stored})
     IN  /\ heap' = [heap EXCEPT ![stored] = heap[ref[u]], ![handed] = heap[ref[u]]]
         /\ current' = stored
         /\ result' = [result EXCEPT ![u] = handed]
  /\ committed' = committed \cup {u}
  /\ at' = [at EXCEPT ![u] = "done"]
  /\ writer' = NoUpdate
  /\ ref' = [ref EXCEPT ![u] = NoObject]

\* Get: the struct is copied under the read lock ...
Take(t) ==
  /\ at[t] = "start" /\ writer = NoUpdate
  /\ ref' = [ref EXCEPT ![t] = current]
  /\ result' = [result EXCEPT ![t] = Fresh({})]
  /\ heap' = [heap EXCEPT ![Fresh({})] = Blank]
  /\ at' = [at EXCEPT ![t] = "byID"]
  /\ UNCHANGED <<current, writer, committed>>

\* ... and its maps are cloned, one after the other, without it.
Copy(t) ==
  /\ at[t] \in Maps
  /\ heap' = [heap EXCEPT ![result[t]][at[t]] = heap[ref[t]][at[t]]]
  /\ at' = [at EXCEPT ![t] = IF @ = "byID" THEN "byKey" ELSE "done"]
  /\ ref' = [ref EXCEPT ![t] = IF at[t] = "byKey" THEN NoObject ELSE @]
  /\ UNCHANGED <<current, writer, result, committed>>

StoreNext ==
  \/ \E u \in Updates : Lock(u) \/ Write(u) \/ Fail(u) \/ Commit(u)
  \/ \E t \in Readers : Take(t) \/ Copy(t)
StoreSpec == StoreInit /\ [][StoreNext]_storeVars

-----------------------------------------------------------------------------
\* The variables have their types.
StoreTypeOK ==
  /\ heap \in [Objects -> Run]
  /\ current \in Objects
  /\ writer \in Updates \cup {NoUpdate}
  /\ at \in [Threads -> {"start", "byID", "byKey", "commit", "done"}]
  /\ ref \in [Threads -> Objects \cup {NoObject}]
  /\ result \in [Threads -> Objects \cup {NoObject}]
  /\ committed \subseteq Updates

\* An update that reported success stays in the run, whatever other updates do
\* or fail to do, and the run shows it in both maps.
NothingLost == \A m \in Maps : committed \subseteq heap[current][m]

\* The run an update was handed is the caller's own: no later update, which
\* changes the stored maps in place, can be seen through it.
ResultIsOwn ==
  [][\A u \in committed : result'[u] = result[u] /\ heap'[result[u]] = heap[result[u]]]_storeVars

\* An update is kept by the run, and its answer by the caller.
StoreKeepsUpdates == []NothingLost /\ ResultIsOwn

\* What the code does not keep: see the findings.

\* "Package store owns the concurrency-safe in-memory state": no thread goes
\* over a map while another writes it.
NoConcurrentAccess ==
  \A t \in Readers, u \in Updates :
    ~(at[t] = at[u] /\ at[t] \in Maps /\ ref[t] = ref[u])
=============================================================================
