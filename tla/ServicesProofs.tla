---------------------------- MODULE ServicesProofs ----------------------------
(***************************************************************************)
(* What the services that surround an analysis promise: the runtime        *)
(* configuration (RuntimeConfig), the start of a live capture (LiveStart), *)
(* the runs in memory (FusionStore), uploads and sources (Intake), the     *)
(* reading of conclusions in pages (ConclusionPages), the choice of        *)
(* evidence and its confidence (Decision), and the event stream            *)
(* (EventStream).                                                          *)
(***************************************************************************)
EXTENDS RuntimeConfig, LiveStart, FusionStore, Intake, ConclusionPages, Decision, EventStream,
        FiniteSetTheorems, SequenceTheorems, TLAPS

----------------------------------------------------------------------------
\* The runtime configuration.

\* The goroutines tell complete configurations.
Tellings == [revision : 1..MaxRevision, values : [Settings -> Values], at : 1..Len(Setters)]
ConfigTypes == ConfigTypeOK /\ notifying \subseteq Tellings

\* Every goroutine tells one of the overlapping changes, and a service that all of
\* them have passed works with one of these.
ToldOverlapping ==
  /\ \A n \in notifying : n.values \in overlapping
  /\ \A k \in 1..Len(Setters) :
       (\A n \in notifying : n.at > k) => \E values \in overlapping : consumer[Setters[k]] = values[Setters[k]]

ConfigInv == ConfigTypes /\ ToldOverlapping

LEMMA SettersAreSettings ==
  /\ Len(Setters) \in Nat \ {0} /\ DOMAIN Setters = 1..Len(Setters)
  /\ \A k \in 1..Len(Setters) : Setters[k] \in Settings
  /\ \A s \in Settings : \E k \in 1..Len(Setters) : s = Setters[k]
<1>1. Setters \in Seq(Settings) /\ Setters # <<>>
  BY ConfigConstants
<1>2. Len(Setters) \in Nat /\ DOMAIN Setters = 1..Len(Setters)
  BY <1>1
<1> QED
  BY <1>1, <1>2 DEF Settings

LEMMA ConfigInitInv == ConfigInit => ConfigInv
<1> SUFFICES ASSUME ConfigInit PROVE ConfigInv
  OBVIOUS
<1>1. ConfigTypes
  <2>1. 0 \in 0..MaxRevision /\ Default \in Values
    BY ConfigConstants
  <2>2. config \in [revision : 0..MaxRevision, values : [Settings -> Values]] /\ consumer \in [Settings -> Values]
    BY <2>1 DEF ConfigInit
  <2>3. overlapping \subseteq [Settings -> Values] /\ notifying = {}
    BY <2>2 DEF ConfigInit
  <2> QED
    BY <2>2, <2>3 DEF ConfigTypes, ConfigTypeOK
<1>2. ToldOverlapping
  <2>1. \A k \in 1..Len(Setters) : consumer[Setters[k]] = config.values[Setters[k]]
    BY SettersAreSettings DEF ConfigInit
  <2> QED
    BY <2>1 DEF ConfigInit, ToldOverlapping
<1> QED
  BY <1>1, <1>2 DEF ConfigInv

LEMMA AcceptInv ==
  ASSUME ConfigInv, NEW values \in [Settings -> Values], Accept(values)
  PROVE  ConfigInv'
<1> DEFINE n == [revision |-> config.revision + 1, values |-> values, at |-> 1]
<1>1. n \in Tellings /\ config.revision + 1 \in 0..MaxRevision
  BY SettersAreSettings, ConfigConstants DEF Accept, Tellings, ConfigInv, ConfigTypes, ConfigTypeOK
<1>2. /\ config' = [revision |-> config.revision + 1, values |-> values]
      /\ notifying' = notifying \cup {n} /\ consumer' = consumer
      /\ overlapping' = {values} \cup (IF notifying = {} THEN {} ELSE overlapping)
  BY DEF Accept
<1>3. n.values = values /\ n.at = 1
  OBVIOUS
<1> HIDE DEF n
<1>4. ConfigTypes'
  <2>1. notifying' \subseteq Tellings
    BY <1>1, <1>2 DEF ConfigInv, ConfigTypes
  <2>2. \A m \in notifying' : m.revision \in 1..MaxRevision /\ m.at \in DOMAIN Setters
    BY <2>1, SettersAreSettings DEF Tellings
  <2>3. config' \in [revision : 0..MaxRevision, values : [Settings -> Values]]
    BY <1>1, <1>2
  <2>4. consumer' \in [Settings -> Values] /\ overlapping' \subseteq [Settings -> Values]
    BY <1>2 DEF ConfigInv, ConfigTypes, ConfigTypeOK
  <2> QED
    BY <2>1, <2>2, <2>3, <2>4 DEF ConfigTypes, ConfigTypeOK
<1>5. ToldOverlapping'
  <2>1. \A m \in notifying' : m.values \in overlapping'
    BY <1>2, <1>3 DEF ConfigInv, ToldOverlapping
  <2>2. n \in notifying' /\ \A k \in 1..Len(Setters) : ~(n.at > k)
    BY <1>2, <1>3, SettersAreSettings
  <2> QED
    BY <2>1, <2>2 DEF ToldOverlapping
<1> QED
  BY <1>4, <1>5 DEF ConfigInv

LEMMA NotifyInv ==
  ASSUME ConfigInv, NEW n \in notifying, Notify(n)
  PROVE  ConfigInv'
<1> DEFINE s == Setters[n.at]
           m == [n EXCEPT !.at = @ + 1]
<1>1. /\ n \in Tellings /\ n.at \in 1..Len(Setters) /\ n.values \in [Settings -> Values]
      /\ s \in Settings /\ n.values[s] \in Values /\ n.values[s] # 0
  BY SettersAreSettings, ConfigConstants DEF ConfigInv, ConfigTypes, Tellings
<1>2. /\ config' = config /\ overlapping' = overlapping
      /\ consumer' = [consumer EXCEPT ![s] = n.values[s]]
      /\ notifying' = (notifying \ {n}) \cup (IF n.at = Len(Setters) THEN {} ELSE {m})
  BY <1>1 DEF Notify
<1>3. n.at # Len(Setters) => m \in Tellings
  BY <1>1, SettersAreSettings DEF Tellings
<1>4. m.values = n.values /\ m.at = n.at + 1
  BY <1>1 DEF Tellings
<1>5. consumer \in [Settings -> Values]
  BY DEF ConfigInv, ConfigTypes, ConfigTypeOK
<1> HIDE DEF m, s
<1>6. ConfigTypes'
  <2>1. notifying' \subseteq Tellings
    BY <1>2, <1>3 DEF ConfigInv, ConfigTypes
  <2>2. \A x \in notifying' : x.revision \in 1..MaxRevision /\ x.at \in DOMAIN Setters
    BY <2>1, SettersAreSettings DEF Tellings
  <2>3. consumer' \in [Settings -> Values]
    BY <1>1, <1>2, <1>5
  <2> QED
    BY <1>2, <2>1, <2>2, <2>3 DEF ConfigInv, ConfigTypes, ConfigTypeOK
<1>7. n.values \in overlapping
  BY DEF ConfigInv, ToldOverlapping
<1>8. ToldOverlapping'
  <2>1. \A x \in notifying' : x.values \in overlapping'
    BY <1>2, <1>4, <1>7 DEF ConfigInv, ToldOverlapping
  <2>2. ASSUME NEW k \in 1..Len(Setters), \A x \in notifying' : x.at > k
        PROVE  \E values \in overlapping' : consumer'[Setters[k]] = values[Setters[k]]
    <3>1. Setters[k] \in Settings
      BY SettersAreSettings
    <3>2. CASE Setters[k] = s
      BY <1>1, <1>2, <1>5, <1>7, <3>2
    <3>3. CASE Setters[k] # s
      <4>1. n.at # k
        BY <3>3 DEF s
      <4>2. \A x \in notifying : x.at > k
        <5>1. \A x \in notifying \ {n} : x.at > k
          BY <1>2, <2>2
        <5>2. n.at > k
          <6>1. CASE n.at = Len(Setters)
            BY <1>1, <4>1, <6>1
          <6>2. CASE n.at # Len(Setters)
            <7>1. m.at > k
              BY <1>2, <2>2, <6>2
            <7> QED
              BY <1>1, <1>4, <4>1, <7>1
          <6> QED
            BY <6>1, <6>2
        <5> QED
          BY <5>1, <5>2
      <4>3. PICK values \in overlapping : consumer[Setters[k]] = values[Setters[k]]
        BY <4>2 DEF ConfigInv, ToldOverlapping
      <4>4. consumer'[Setters[k]] = consumer[Setters[k]]
        BY <1>2, <1>5, <3>1, <3>3
      <4> QED
        BY <1>2, <4>3, <4>4
    <3> QED
      BY <3>2, <3>3
  <2> QED
    BY <2>1, <2>2 DEF ToldOverlapping
<1> QED
  BY <1>6, <1>8 DEF ConfigInv

LEMMA ConfigStep == ConfigInv /\ [ConfigNext]_configVars => ConfigInv'
<1> SUFFICES ASSUME ConfigInv, [ConfigNext]_configVars PROVE ConfigInv'
  OBVIOUS
<1>1. ASSUME NEW mask \in SUBSET Settings, NEW wanted \in [mask -> Values \cup {0}], UpdateConfig(mask, wanted)
      PROVE  ConfigInv'
  <2> DEFINE changed == [s \in Settings |-> IF s \in mask THEN wanted[s] ELSE config.values[s]]
  <2>1. changed \in [Settings -> Values] /\ Accept(changed)
    BY <1>1 DEF UpdateConfig
  <2> QED
    BY <2>1, AcceptInv
<1>2. CASE RestoreDefaults
  <2>1. [s \in Settings |-> Default] \in [Settings -> Values]
    BY ConfigConstants
  <2> QED
    BY <1>2, <2>1, AcceptInv DEF RestoreDefaults
<1>3. ASSUME NEW n \in notifying, Notify(n) PROVE ConfigInv'
  BY <1>3, NotifyInv
<1>4. CASE UNCHANGED configVars
  BY <1>4 DEF configVars, ConfigInv, ConfigTypes, ConfigTypeOK, ToldOverlapping
<1> QED
  BY <1>1, <1>2, <1>3, <1>4 DEF ConfigNext

LEMMA ConfigInvariance == ConfigSpec => []ConfigInv
<1>1. ConfigInit => ConfigInv
  BY ConfigInitInv
<1>2. ConfigInv /\ [ConfigNext]_configVars => ConfigInv'
  BY ConfigStep
<1> QED
  BY <1>1, <1>2, PTL DEF ConfigSpec

\* The configuration, what each service works with and the goroutines' work keep
\* their types, for any settings and any number of changes.
THEOREM ConfigTypeIsOK == ConfigSpec => []ConfigTypeOK
<1>1. ConfigInv => ConfigTypeOK
  BY DEF ConfigInv, ConfigTypes
<1> QED
  BY <1>1, ConfigInvariance, PTL

\* Once the goroutines of Service.Notify are done, every service works with a
\* setting of the last change or of one that overlapped with it, and with nothing
\* older.
THEOREM ConsumersStayCurrent == ConfigSpec => []ConsumersAreCurrent
<1>1. ConfigInv => ConsumersAreCurrent
  <2> SUFFICES ASSUME ConfigInv, notifying = {}, NEW s \in Settings
               PROVE  \E values \in overlapping : consumer[s] = values[s]
    BY DEF ConsumersAreCurrent
  <2>1. PICK k \in 1..Len(Setters) : s = Setters[k]
    BY SettersAreSettings
  <2> QED
    BY <2>1 DEF ConfigInv, ToldOverlapping
<1> QED
  BY <1>1, ConfigInvariance, PTL

----------------------------------------------------------------------------
\* The start of a live capture.

\* The slot holds one capture.
OneCapture == \A p, q \in Starts : capturing[p] = "running" /\ capturing[q] = "running" => p = q

\* What a request has done where it is, and to whom the workspace can belong.
Reached(q) ==
  /\ step[q] \in {"none", "create", "start"} <=> step[q] # "refused" /\ capturing[q] = "none"
  /\ step[q] \in {"own", "bind", "answered"} => q \in analysed
  /\ step[q] \in {"none", "create"} => owner # q
  /\ step[q] = "bind" /\ owner = q => token[q] = q

StartInv == LiveStartTypeOK /\ OneCapture /\ (\A q \in Starts : Reached(q)) /\ CapturesAreWatched

LEMMA LiveStartInitInv == LiveStartInit => StartInv
BY LiveStartConstants
   DEF LiveStartInit, StartInv, LiveStartTypeOK, OneCapture, Reached, CapturesAreWatched, NoUnwatchedCapture, AnsweredIsShown

\* The steps of a request.
LEMMA HandlerSteps ==
  ASSUME StartInv, NEW q \in Starts, Handles(q)
  PROVE  StartInv'
<1> USE LiveStartConstants
    DEF StartInv, LiveStartTypeOK, OneCapture, Reached, CapturesAreWatched, NoUnwatchedCapture, AnsweredIsShown, Active, Goes
<1>1. CASE CheckSlot(q)
  BY <1>1 DEF CheckSlot
<1>2. CASE CreateWorkspace(q)
  BY <1>2 DEF CreateWorkspace
<1>3. CASE StartsCapture(q)
  BY <1>3 DEF StartsCapture
<1>4. CASE CaptureRefused(q)
  BY <1>4 DEF CaptureRefused
<1>5. CASE ReadStatus(q)
  BY <1>5 DEF ReadStatus
<1>6. CASE StartAnalysis(q)
  BY <1>6 DEF StartAnalysis
<1>7. CASE AnalysisRefused(q)
  BY <1>7 DEF AnalysisRefused
<1>8. CASE Undo(q)
  BY <1>8 DEF Undo
<1>9. CASE ReadOwner(q)
  BY <1>9 DEF ReadOwner
<1>10. CASE BindOwn(q)
  BY <1>10 DEF BindOwn
<1> QED
  BY <1>1, <1>2, <1>3, <1>4, <1>5, <1>6, <1>7, <1>8, <1>9, <1>10 DEF Handles

\* What clients and captures do.
LEMMA OutsideSteps ==
  ASSUME StartInv, NEW q \in Starts, LeaveRequest(q) \/ StopCapture(q) \/ CaptureEnds(q)
  PROVE  StartInv'
<1> USE LiveStartConstants
    DEF StartInv, LiveStartTypeOK, OneCapture, Reached, CapturesAreWatched, NoUnwatchedCapture, AnsweredIsShown
<1>1. CASE LeaveRequest(q)
  BY <1>1 DEF LeaveRequest
<1>2. CASE StopCapture(q)
  BY <1>2 DEF StopCapture
<1>3. CASE CaptureEnds(q)
  BY <1>3 DEF CaptureEnds
<1> QED
  BY <1>1, <1>2, <1>3

LEMMA LiveStartInvariance == LiveStartSpec => []StartInv
<1>1. ASSUME StartInv, [LiveStartNext]_liveStartVars PROVE StartInv'
  <2>1. CASE UNCHANGED liveStartVars
    BY <1>1, <2>1 DEF liveStartVars, StartInv, LiveStartTypeOK, OneCapture, Reached, CapturesAreWatched, NoUnwatchedCapture, AnsweredIsShown
  <2> QED
    BY <1>1, <2>1, HandlerSteps, OutsideSteps DEF LiveStartNext
<1> QED
  BY <1>1, LiveStartInitInv, PTL DEF LiveStartSpec

\* Every variable of a start keeps its type, for any number of requests.
THEOREM LiveStartTypes == LiveStartSpec => []LiveStartTypeOK
<1>1. StartInv => LiveStartTypeOK
  BY DEF StartInv
<1> QED
  BY <1>1, LiveStartInvariance, PTL

\* However many requests start captures at once, are refused, or lose their client:
\* no capture runs on unwatched, and the workspace shows the one it was made for.
THEOREM CapturesStayWatched == LiveStartSpec => []CapturesAreWatched
<1>1. StartInv => CapturesAreWatched
  BY DEF StartInv
<1> QED
  BY <1>1, LiveStartInvariance, PTL

----------------------------------------------------------------------------
\* The runs in memory.

\* The writer is the one update that is under way, and works on the run itself.
Writing(u) ==
  /\ at[u] \in Maps \cup {"commit"} <=> writer = u
  /\ writer = u => ref[u] = current /\ result[u] = NoObject
  /\ at[u] = "byKey" => u \in heap[current]["byID"]
  /\ at[u] = "commit" => u \in heap[current]["byID"] /\ u \in heap[current]["byKey"]
  /\ writer # u => ref[u] = NoObject
  /\ u \in committed => at[u] = "done" /\ result[u] # NoObject

\* A reader has a run to copy and a place to copy it to.
Copying(t) ==
  /\ at[t] # "commit"
  /\ at[t] \in Maps => ref[t] # NoObject /\ result[t] # NoObject

\* Nobody has made anything before it starts, and what was made is its maker's own.
Own ==
  /\ \A t \in Threads : at[t] = "start" => result[t] = NoObject
  /\ \A t \in Threads : result[t] # current
  /\ \A s, t \in Threads : s # t /\ result[s] = result[t] => result[s] = NoObject

MemoryInv ==
  /\ StoreTypeOK /\ NothingLost /\ Own
  /\ (\A u \in Updates : Writing(u)) /\ (\A t \in Readers : Copying(t))

\* The values of a function are no more than its arguments.
LEMMA Images ==
  ASSUME NEW S, IsFiniteSet(S), NEW f
  PROVE  /\ IsFiniteSet({f[x] : x \in S}) /\ Cardinality(S) \in Nat
         /\ Cardinality({f[x] : x \in S}) \in Nat /\ Cardinality({f[x] : x \in S}) <= Cardinality(S)
<1> DEFINE g == [x \in S |-> f[x]]
           T == {f[x] : x \in S}
<1>1. g \in Surjection(S, T)
  <2>1. g \in [S -> T]
    OBVIOUS
  <2>2. \A t \in T : \E x \in S : g[x] = t
    OBVIOUS
  <2> HIDE DEF g, T
  <2> QED
    BY <2>1, <2>2 DEF Surjection
<1> HIDE DEF g, T
<1>2. IsFiniteSet(T) /\ Cardinality(T) <= Cardinality(S)
  BY <1>1, FS_Surjection
<1> QED
  BY <1>2, FS_CardinalityType DEF T

\* The union of two finite sets is no larger than both together.
LEMMA Unions ==
  ASSUME NEW S, NEW T, IsFiniteSet(S), IsFiniteSet(T)
  PROVE  /\ IsFiniteSet(S \cup T) /\ Cardinality(S \cup T) \in Nat
         /\ Cardinality(S \cup T) <= Cardinality(S) + Cardinality(T)
<1>1. IsFiniteSet(S \cup T) /\ Cardinality(S \cup T) = Cardinality(S) + Cardinality(T) - Cardinality(S \cap T)
  BY FS_Union
<1>2. IsFiniteSet(S \cap T)
  BY FS_Subset
<1>3. /\ Cardinality(S) \in Nat /\ Cardinality(T) \in Nat
      /\ Cardinality(S \cap T) \in Nat /\ Cardinality(S \cup T) \in Nat
  BY <1>1, <1>2, FS_CardinalityType
<1> QED
  BY <1>1, <1>3

\* A thread that has made nothing yet finds a place for what it makes.
LEMMA Room ==
  ASSUME MemoryInv, NEW t \in Threads, result[t] = NoObject, NEW o
  PROVE  /\ Fresh({}) \in Objects /\ Fresh({}) \notin Referenced
         /\ Fresh({o}) \in Objects /\ Fresh({o}) \notin Referenced /\ Fresh({o}) # o
<1> DEFINE Others == Threads \ {t}
           Read == {ref[r] : r \in Readers}
           Made == {result[r] : r \in Others}
           Taken == ({current} \cup {o}) \cup (Read \cup Made)
<1>1. /\ IsFiniteSet(Updates) /\ IsFiniteSet(Readers) /\ IsFiniteSet(Objects) /\ Updates \cap Readers = {}
      /\ Cardinality(Objects) >= Cardinality(Updates) + 2 * Cardinality(Readers) + 2
  BY StoreAssumption
<1>2. /\ Cardinality(Updates) \in Nat /\ Cardinality(Readers) \in Nat /\ Cardinality(Objects) \in Nat
  BY <1>1, FS_CardinalityType
<1>3. IsFiniteSet(Threads) /\ Cardinality(Threads) <= Cardinality(Updates) + Cardinality(Readers)
      /\ Cardinality(Threads) \in Nat
  BY <1>1, Unions DEF Threads
<1>4. IsFiniteSet(Others) /\ Cardinality(Others) = Cardinality(Threads) - 1
  <2>1. /\ IsFiniteSet(Threads \ {t})
        /\ Cardinality(Threads \ {t}) = IF t \in Threads THEN Cardinality(Threads) - 1 ELSE Cardinality(Threads)
    BY <1>3, FS_RemoveElement, Zenon
  <2> QED
    BY <2>1
<1> HIDE DEF Others
<1>5. IsFiniteSet(Read) /\ Cardinality(Read) \in Nat /\ Cardinality(Read) <= Cardinality(Readers)
  BY <1>1, Images
<1>6. IsFiniteSet(Made) /\ Cardinality(Made) \in Nat /\ Cardinality(Made) <= Cardinality(Threads) - 1
  BY <1>4, Images
<1>7. IsFiniteSet(Read \cup Made) /\ Cardinality(Read \cup Made) \in Nat
      /\ Cardinality(Read \cup Made) <= Cardinality(Read) + Cardinality(Made)
  <2> HIDE DEF Read, Made
  <2> QED
    BY <1>5, <1>6, Unions
<1>8. IsFiniteSet({current} \cup {o}) /\ Cardinality({current} \cup {o}) \in Nat /\ Cardinality({current} \cup {o}) <= 2
  <2>1. /\ IsFiniteSet({current}) /\ Cardinality({current}) = 1
        /\ IsFiniteSet({o}) /\ Cardinality({o}) = 1
    BY FS_Singleton
  <2> QED
    BY <2>1, Unions
<1>9. IsFiniteSet(Taken) /\ Cardinality(Taken) < Cardinality(Objects)
  <2> HIDE DEF Read, Made
  <2>1. IsFiniteSet(Taken) /\ Cardinality(Taken) \in Nat
        /\ Cardinality(Taken) <= Cardinality({current} \cup {o}) + Cardinality(Read \cup Made)
    BY <1>7, <1>8, Unions
  <2> HIDE DEF Taken
  <2>2. Cardinality(Read \cup Made) <= Cardinality(Readers) + (Cardinality(Updates) + Cardinality(Readers) - 1)
    BY <1>2, <1>3, <1>5, <1>6, <1>7
  <2>3. Cardinality(Taken) <= Cardinality(Updates) + 2 * Cardinality(Readers) + 1
    <3>1. Cardinality(Taken) <= 2 + Cardinality(Read \cup Made)
      BY <1>7, <1>8, <2>1
    <3> QED
      BY <1>2, <1>7, <2>1, <2>2, <3>1
  <2> QED
    BY <1>1, <1>2, <2>1, <2>3
<1>10. PICK x \in Objects : x \notin Taken
  <2> HIDE DEF Taken
  <2>1. ASSUME Objects \subseteq Taken PROVE FALSE
    <3>1. Cardinality(Objects) <= Cardinality(Taken) /\ Cardinality(Taken) \in Nat
      BY <1>9, <2>1, FS_Subset, FS_CardinalityType
    <3> QED
      BY <1>2, <1>9, <3>1
  <2> QED
    BY <2>1
<1>11. x \notin Referenced \cup {} /\ x \notin Referenced \cup {o}
  <2>1. x # NoObject /\ x # current /\ x # o
    BY <1>10, StoreAssumption
  <2>2. ASSUME NEW r \in Threads PROVE x # ref[r]
    <3>1. CASE r \in Readers
      BY <1>10, <3>1
    <3>2. CASE r \in Updates
      BY <2>1, <3>2 DEF MemoryInv, Writing
    <3> QED
      BY <3>1, <3>2 DEF Threads
  <2>3. ASSUME NEW r \in Threads PROVE x # result[r]
    BY <1>10, <2>1 DEF Others
  <2> QED
    BY <2>1, <2>2, <2>3 DEF Referenced
<1>12. Fresh({}) \in Objects /\ Fresh({}) \notin Referenced \cup {}
  BY <1>11 DEF Fresh
<1>13. Fresh({o}) \in Objects /\ Fresh({o}) \notin Referenced \cup {o}
  BY <1>11 DEF Fresh
<1> QED
  BY <1>12, <1>13

LEMMA StoreInitInv == StoreInit => MemoryInv
<1> SUFFICES ASSUME StoreInit PROVE MemoryInv
  OBVIOUS
<1>1. Objects # {}
  <2>1. Cardinality(Updates) \in Nat /\ Cardinality(Readers) \in Nat
    BY StoreAssumption, FS_CardinalityType
  <2>2. Cardinality(Objects) >= Cardinality(Updates) + 2 * Cardinality(Readers) + 2 /\ Cardinality({}) = 0
    BY StoreAssumption, FS_EmptySet
  <2>3. ASSUME Cardinality(Objects) = 0 PROVE FALSE
    BY <2>1, <2>2, <2>3
  <2> QED
    BY <2>2, <2>3
<1>2. current \in Objects
  BY <1>1 DEF StoreInit
<1>3. StoreTypeOK /\ NothingLost
  BY <1>2, StoreAssumption DEF StoreInit, StoreTypeOK, NothingLost, Run, Blank
<1>4. Own
  BY <1>2, StoreAssumption DEF StoreInit, Own
<1>5. \A u \in Updates : Writing(u)
  BY StoreAssumption DEF StoreInit, Writing, Maps, Threads
<1>6. \A t \in Readers : Copying(t)
  BY DEF StoreInit, Copying, Maps, Threads
<1> QED
  BY <1>3, <1>4, <1>5, <1>6 DEF MemoryInv

\* What ResultIsOwn says of one step.
Kept == \A u \in committed : result'[u] = result[u] /\ heap'[result[u]] = heap[result[u]]

LEMMA LockSteps ==
  ASSUME MemoryInv, NEW u \in Updates, Lock(u) \/ Fail(u)
  PROVE  MemoryInv' /\ Kept
<1> USE StoreAssumption DEF MemoryInv, StoreTypeOK, NothingLost, Own, Writing, Copying, Kept, Threads, Maps
<1>1. CASE Lock(u)
  BY <1>1 DEF Lock
<1>2. CASE Fail(u)
  BY <1>2 DEF Fail
<1> QED
  BY <1>1, <1>2

LEMMA WriteStep ==
  ASSUME MemoryInv, NEW u \in Updates, Write(u)
  PROVE  MemoryInv' /\ Kept
<1>1. PICK m \in Maps : at[u] = m
  BY DEF Write
<1>2. /\ ref[u] = current /\ current \in Objects /\ writer = u
      /\ heap' = [heap EXCEPT ![current] = [heap[current] EXCEPT ![m] = heap[current][m] \cup {u}]]
      /\ at' = [at EXCEPT ![u] = IF m = "byID" THEN "byKey" ELSE "commit"]
      /\ UNCHANGED <<current, writer, ref, result, committed>>
  BY <1>1 DEF Write, MemoryInv, StoreTypeOK, Writing
<1>3. heap[current] \in [Maps -> SUBSET Updates] /\ heap \in [Objects -> Run]
  BY <1>2 DEF MemoryInv, StoreTypeOK, Run
<1>4. /\ heap'[current] \in Run /\ heap'[current][m] = heap[current][m] \cup {u}
      /\ \A n \in Maps : n # m => heap'[current][n] = heap[current][n]
      /\ \A o \in Objects : o # current => heap'[o] = heap[o]
  BY <1>2, <1>3 DEF Run
<1>5. StoreTypeOK'
  <2>1. heap' \in [Objects -> Run]
    BY <1>2, <1>3, <1>4
  <2> QED
    BY <1>2, <2>1 DEF MemoryInv, StoreTypeOK, Threads
<1>6. NothingLost'
  BY <1>2, <1>4 DEF MemoryInv, NothingLost
<1>7. \A n \in Maps : heap[current][n] \subseteq heap'[current][n]
  BY <1>4
<1>8. \A v \in Updates : Writing(v)'
  BY <1>1, <1>2, <1>4, <1>7 DEF MemoryInv, StoreTypeOK, Writing, Maps, Threads
<1>9. Own' /\ \A t \in Readers : Copying(t)'
  BY <1>2, StoreAssumption DEF MemoryInv, StoreTypeOK, Own, Copying, Threads
<1>10. Kept
  BY <1>2, <1>4, StoreAssumption DEF MemoryInv, StoreTypeOK, Writing, Own, Kept, Threads
<1> QED
  BY <1>5, <1>6, <1>8, <1>9, <1>10 DEF MemoryInv

LEMMA CommitStep ==
  ASSUME MemoryInv, NEW u \in Updates, Commit(u)
  PROVE  MemoryInv' /\ Kept
<1>1. /\ at[u] = "commit" /\ writer = u /\ ref[u] = current /\ result[u] = NoObject /\ current \in Objects
      /\ u \in heap[current]["byID"] /\ u \in heap[current]["byKey"]
  BY DEF Commit, MemoryInv, StoreTypeOK, Writing, Threads
<1>2. PICK stored \in Objects, handed \in Objects :
        /\ stored \notin Referenced /\ handed \notin Referenced /\ stored # handed
        /\ heap' = [heap EXCEPT ![stored] = heap[current], ![handed] = heap[current]]
        /\ current' = stored /\ result' = [result EXCEPT ![u] = handed]
  <2>1. /\ Fresh({}) \in Objects /\ Fresh({}) \notin Referenced
        /\ Fresh({Fresh({})}) \in Objects /\ Fresh({Fresh({})}) \notin Referenced /\ Fresh({Fresh({})}) # Fresh({})
    BY <1>1, Room DEF Threads
  <2> QED
    BY <1>1, <2>1 DEF Commit
<1>3. /\ committed' = committed \cup {u} /\ at' = [at EXCEPT ![u] = "done"]
      /\ writer' = NoUpdate /\ ref' = [ref EXCEPT ![u] = NoObject]
  BY DEF Commit
<1>4. /\ heap \in [Objects -> Run] /\ heap'[stored] = heap[current] /\ heap'[handed] = heap[current]
      /\ \A o \in Objects : o \notin {stored, handed} => heap'[o] = heap[o]
  BY <1>2 DEF MemoryInv, StoreTypeOK
<1>5. /\ stored # current /\ handed # current
      /\ \A t \in Threads : result[t] \notin {stored, handed} /\ ref[t] \notin {stored, handed}
  BY <1>2 DEF Referenced
<1>6. StoreTypeOK'
  <2>1. heap' \in [Objects -> Run]
    BY <1>1, <1>2, <1>4
  <2> QED
    BY <1>2, <1>3, <2>1 DEF MemoryInv, StoreTypeOK, Threads
<1>7. NothingLost'
  BY <1>1, <1>2, <1>3, <1>4 DEF MemoryInv, NothingLost, Maps
<1>8. \A v \in Updates : Writing(v)'
  BY <1>1, <1>2, <1>3, <1>5, StoreAssumption DEF MemoryInv, StoreTypeOK, Writing, Maps, Threads
<1>9. Own'
  BY <1>1, <1>2, <1>3, <1>5, StoreAssumption DEF MemoryInv, StoreTypeOK, Own, Threads
<1>10. \A t \in Readers : Copying(t)'
  BY <1>2, <1>3, StoreAssumption DEF MemoryInv, StoreTypeOK, Copying, Threads
<1>11. Kept
  <2> SUFFICES ASSUME NEW v \in committed PROVE result'[v] = result[v] /\ heap'[result[v]] = heap[result[v]]
    BY DEF Kept
  <2>1. v \in Updates /\ v # u /\ result[v] \in Objects
    BY <1>1 DEF MemoryInv, StoreTypeOK, Writing, Threads
  <2> QED
    BY <1>2, <1>4, <1>5, <2>1 DEF MemoryInv, StoreTypeOK, Threads
<1> QED
  BY <1>6, <1>7, <1>8, <1>9, <1>10, <1>11 DEF MemoryInv

LEMMA TakeStep ==
  ASSUME MemoryInv, NEW t \in Readers, Take(t)
  PROVE  MemoryInv' /\ Kept
<1>1. at[t] = "start" /\ result[t] = NoObject /\ t \in Threads /\ t \notin Updates /\ current \in Objects
  BY StoreAssumption DEF Take, MemoryInv, StoreTypeOK, Own, Threads
<1>2. PICK made \in Objects :
        /\ made \notin Referenced
        /\ heap' = [heap EXCEPT ![made] = Blank] /\ result' = [result EXCEPT ![t] = made]
  BY <1>1, Room DEF Take
<1>3. /\ ref' = [ref EXCEPT ![t] = current] /\ at' = [at EXCEPT ![t] = "byID"]
      /\ UNCHANGED <<current, writer, committed>>
  BY DEF Take
<1>4. Blank \in Run /\ heap \in [Objects -> Run] /\ \A o \in Objects : o # made => heap'[o] = heap[o]
  BY <1>2 DEF Blank, Run, MemoryInv, StoreTypeOK
<1>5. made # current /\ made # NoObject /\ \A s \in Threads : result[s] # made
  BY <1>2, StoreAssumption DEF Referenced
<1>6. StoreTypeOK'
  <2>1. heap' \in [Objects -> Run]
    BY <1>2, <1>4
  <2> QED
    BY <1>1, <1>2, <1>3, <2>1 DEF MemoryInv, StoreTypeOK, Threads
<1>7. heap'[current] = heap[current]
  BY <1>1, <1>4, <1>5
<1>8. NothingLost' /\ \A u \in Updates : Writing(u)'
  BY <1>1, <1>2, <1>3, <1>7, StoreAssumption DEF MemoryInv, StoreTypeOK, NothingLost, Writing, Threads
<1>9. Own'
  BY <1>1, <1>2, <1>3, <1>5 DEF MemoryInv, StoreTypeOK, Own, Threads
<1>10. \A s \in Readers : Copying(s)'
  BY <1>1, <1>2, <1>3, <1>5, StoreAssumption DEF MemoryInv, StoreTypeOK, Copying, Threads
<1>11. Kept
  <2> SUFFICES ASSUME NEW v \in committed PROVE result'[v] = result[v] /\ heap'[result[v]] = heap[result[v]]
    BY DEF Kept
  <2>1. v \in Updates /\ v # t /\ result[v] \in Objects
    BY <1>1 DEF MemoryInv, StoreTypeOK, Writing, Threads
  <2> QED
    BY <1>1, <1>2, <1>4, <1>5, <2>1 DEF MemoryInv, StoreTypeOK, Threads
<1> QED
  BY <1>6, <1>8, <1>9, <1>10, <1>11 DEF MemoryInv

LEMMA CopyStep ==
  ASSUME MemoryInv, NEW t \in Readers, Copy(t)
  PROVE  MemoryInv' /\ Kept
<1>1. PICK m \in Maps : at[t] = m
  BY DEF Copy
<1>2. PICK own \in Objects : result[t] = own /\ own # current /\ own # NoObject
  BY <1>1, StoreAssumption DEF MemoryInv, StoreTypeOK, Own, Copying, Threads
<1>3. t \in Threads /\ t \notin Updates /\ current \in Objects /\ ref[t] \in Objects
  BY <1>1, StoreAssumption DEF MemoryInv, StoreTypeOK, Copying, Threads
<1>4. /\ heap' = [heap EXCEPT ![own] = [heap[own] EXCEPT ![m] = heap[ref[t]][m]]]
      /\ at' = [at EXCEPT ![t] = IF m = "byID" THEN "byKey" ELSE "done"]
      /\ ref' = [ref EXCEPT ![t] = IF m = "byKey" THEN NoObject ELSE ref[t]]
      /\ UNCHANGED <<current, writer, result, committed>>
  BY <1>1, <1>2, <1>3 DEF Copy, MemoryInv, StoreTypeOK
<1>5. heap \in [Objects -> Run] /\ heap[own] \in [Maps -> SUBSET Updates] /\ heap[ref[t]] \in [Maps -> SUBSET Updates]
  BY <1>2, <1>3 DEF MemoryInv, StoreTypeOK, Run
<1>6. heap'[own] \in Run /\ \A o \in Objects : o # own => heap'[o] = heap[o]
  BY <1>4, <1>5 DEF Run
<1>7. StoreTypeOK'
  <2>1. heap' \in [Objects -> Run]
    BY <1>4, <1>5, <1>6
  <2> QED
    BY <1>3, <1>4, <2>1, StoreAssumption DEF MemoryInv, StoreTypeOK, Threads
<1>8. heap'[current] = heap[current]
  BY <1>2, <1>3, <1>6
<1>9. NothingLost' /\ \A u \in Updates : Writing(u)'
  BY <1>3, <1>4, <1>8, StoreAssumption DEF MemoryInv, StoreTypeOK, NothingLost, Writing, Threads
<1>10. Own'
  BY <1>2, <1>3, <1>4 DEF MemoryInv, StoreTypeOK, Own, Threads
<1>11. \A s \in Readers : Copying(s)'
  BY <1>1, <1>2, <1>3, <1>4, StoreAssumption DEF MemoryInv, StoreTypeOK, Copying, Threads, Maps
<1>12. Kept
  <2> SUFFICES ASSUME NEW v \in committed PROVE result'[v] = result[v] /\ heap'[result[v]] = heap[result[v]]
    BY DEF Kept
  <2>1. v \in Threads /\ v # t /\ result[v] \in Objects
    BY <1>3 DEF MemoryInv, StoreTypeOK, Writing, Threads
  <2>2. result[v] # own
    BY <1>2, <1>3, <2>1 DEF MemoryInv, Own
  <2> QED
    BY <1>4, <1>6, <2>1, <2>2
<1> QED
  BY <1>7, <1>9, <1>10, <1>11, <1>12 DEF MemoryInv

LEMMA StoreStep ==
  ASSUME MemoryInv, [StoreNext]_storeVars
  PROVE  MemoryInv' /\ Kept
<1>1. CASE UNCHANGED storeVars
  BY <1>1 DEF storeVars, MemoryInv, StoreTypeOK, NothingLost, Own, Writing, Copying, Kept
<1>2. ASSUME NEW u \in Updates, Lock(u) \/ Write(u) \/ Fail(u) \/ Commit(u)
      PROVE  MemoryInv' /\ Kept
  BY <1>2, LockSteps, WriteStep, CommitStep
<1>3. ASSUME NEW t \in Readers, Take(t) \/ Copy(t)
      PROVE  MemoryInv' /\ Kept
  BY <1>3, TakeStep, CopyStep
<1> QED
  BY <1>1, <1>2, <1>3 DEF StoreNext

LEMMA StoreInvariance == StoreSpec => []MemoryInv /\ [][Kept]_storeVars
<1>1. MemoryInv /\ [StoreNext]_storeVars => MemoryInv'
  BY StoreStep
<1>2. MemoryInv /\ [StoreNext]_storeVars => [Kept]_storeVars
  BY StoreStep
<1> QED
  BY <1>1, <1>2, StoreInitInv, PTL DEF StoreSpec

\* Every variable of the store keeps its type: places for maps never run out.
THEOREM StoreTypes == StoreSpec => []StoreTypeOK
<1>1. MemoryInv => StoreTypeOK
  BY DEF MemoryInv
<1> QED
  BY <1>1, StoreInvariance, PTL

\* Whatever updates fail and however many readers copy the run: an update that
\* reported success stays, and the run it was handed is its caller's own.
THEOREM UpdatesAreKept == StoreSpec => StoreKeepsUpdates
<1>1. MemoryInv => NothingLost
  BY DEF MemoryInv
<1>2. [Kept]_storeVars <=> [\A u \in committed : result'[u] = result[u] /\ heap'[result[u]] = heap[result[u]]]_storeVars
  BY DEF Kept
<1> QED
  BY <1>1, <1>2, StoreInvariance, PTL DEF StoreKeepsUpdates, ResultIsOwn

----------------------------------------------------------------------------
\* Uploads and sources.

\* A file is written in order, until a write fails half-way.
Failed(u) == 0 \in {content[u][i] : i \in DOMAIN content[u]}
Ordered(u) == Len(content[u]) = next[u] - 1 /\ \A i \in 1..Len(content[u]) : content[u][i] = i

\* An upload is taken out of the map before it is completed, and makes its source then.
Uploading(u) ==
  /\ Failed(u) \/ Ordered(u)
  /\ complete[u] # "none" => upload[u] = "gone"
  /\ complete[u] \in {"reading", "done"} => Exact(u) \/ (u \notin hashed /\ Failed(u))
  /\ complete[u] # "done" => source[u] = "none" /\ removal[u] = "none"
  /\ u \in discarding => upload[u] # "none"

\* A stop that is under way when its source is deleted has been overtaken, and is
\* not the one that the removal made itself.
Stopping(s) ==
  /\ \A c \in Callers : stop[s][c] \in {"stopping", "stopped"} /\ source[s] = "none" => s \in overlapped
  /\ removal[s] = "none" => stop[s]["remove"] = "none"
  /\ removal[s] \in {"past", "unlinked", "done"} => stop[s]["remove"] \in {"none", "ended"}

IntakeInv ==
  /\ IntakeTypeOK /\ FilesAreOwned /\ BreaksOnlyByRemoval
  /\ (\A u \in Uploads : Uploading(u)) /\ (\A s \in Lives : Stopping(s))

LEMMA IntakeInitInv == IntakeInit => IntakeInv
<1> SUFFICES ASSUME IntakeInit PROVE IntakeInv
  OBVIOUS
<1> USE IntakeConstants DEF IntakeInit, Sources
<1>1. IntakeTypeOK
  <2>1. /\ content \in [Uploads -> Seq(0..Chunks)] /\ next \in [Uploads -> 1..(Chunks + 1)]
        /\ sends \in [Uploads -> 0..MaxSends]
    <3>1. <<>> \in Seq(0..Chunks) /\ 1 \in 1..(Chunks + 1) /\ 0 \in 0..MaxSends
      OBVIOUS
    <3> QED
      BY <3>1
  <2>2. {http, hashed, discarding, file, kept} \subseteq SUBSET Uploads
    OBVIOUS
  <2>3. /\ stop \in [Lives -> [Callers -> {"none", "stopping", "stopped", "ended"}]]
        /\ broken \in BOOLEAN /\ overlapped \subseteq Lives
    OBVIOUS
  <2>4. /\ upload \in [Uploads -> {"none", "open", "gone"}]
        /\ complete \in [Uploads -> {"none", "checking", "reading", "failed", "done"}]
        /\ source \in [Uploads \cup Lives -> {"none", "CAPTURING", "STOPPED", "SOURCE_READY"}]
        /\ removal \in [Uploads \cup Lives -> {"none", "got", "past", "unlinked", "done"}]
    OBVIOUS
  <2> QED
    BY <2>1, <2>2, <2>3, <2>4 DEF IntakeTypeOK
<1>2. FilesAreOwned /\ BreaksOnlyByRemoval
  BY DEF FilesAreOwned, BreaksOnlyByRemoval
<1>3. ASSUME NEW u \in Uploads PROVE Uploading(u)
  <2>1. content[u] = <<>> /\ next[u] = 1 /\ Len(content[u]) = 0
    OBVIOUS
  <2>2. Ordered(u)
    BY <2>1 DEF Ordered
  <2> QED
    BY <2>2 DEF Uploading
<1>4. \A s \in Lives : Stopping(s)
  BY DEF Stopping, Callers
<1> QED
  BY <1>1, <1>2, <1>3, <1>4 DEF IntakeInv

\* A chunk that is written, whole or in part.
LEMMA Written ==
  ASSUME IntakeInv, NEW u \in Uploads, NEW x \in 0..Chunks, content' = [content EXCEPT ![u] = Append(@, x)]
  PROVE  /\ content' \in [Uploads -> Seq(0..Chunks)]
         /\ \A v \in Uploads : v # u => content'[v] = content[v]
         /\ Failed(u) \/ x = 0 => Failed(u)'
         /\ x = next[u] /\ next'[u] = x + 1 /\ Ordered(u) => Ordered(u)'
<1>1. content \in [Uploads -> Seq(0..Chunks)] /\ content[u] \in Seq(0..Chunks) /\ next[u] \in 1..(Chunks + 1)
  BY DEF IntakeInv, IntakeTypeOK
<1>2. content'[u] = Append(content[u], x) /\ content' \in [Uploads -> Seq(0..Chunks)]
  BY <1>1
<1>3. /\ Len(content'[u]) = Len(content[u]) + 1 /\ content'[u][Len(content[u]) + 1] = x
      /\ \A i \in 1..Len(content[u]) : content'[u][i] = content[u][i]
      /\ DOMAIN content'[u] = 1..(Len(content[u]) + 1) /\ DOMAIN content[u] = 1..Len(content[u])
      /\ Len(content[u]) \in Nat
  BY <1>1, <1>2
<1>4. Failed(u) \/ x = 0 => Failed(u)'
  BY <1>3 DEF Failed
<1>5. x = next[u] /\ next'[u] = x + 1 /\ Ordered(u) => Ordered(u)'
  BY <1>1, <1>3 DEF Ordered
<1> QED
  BY <1>1, <1>2, <1>4, <1>5

\* A file of all chunks in order is what the source should be.
LEMMA WholeIsExact ==
  ASSUME IntakeInv, NEW u \in Uploads, Ordered(u), next[u] > Chunks
  PROVE  Exact(u)
<1>1. content[u] \in Seq(0..Chunks) /\ next[u] = Chunks + 1
  BY IntakeConstants DEF IntakeInv, IntakeTypeOK
<1>2. Len(content[u]) = Chunks /\ \A i \in 1..Chunks : content[u][i] = i
  BY <1>1, IntakeConstants DEF Ordered
<1>3. content[u] = [i \in 1..Len(content[u]) |-> content[u][i]]
  BY <1>1
<1> QED
  BY <1>2, <1>3 DEF Exact

\* Chunks.
LEMMA ChunkSteps ==
  ASSUME IntakeInv, NEW u \in Uploads, (\E i \in 1..Chunks : UploadChunk(u, i)) \/ WriteFails(u)
  PROVE  IntakeInv'
<1>1. /\ upload[u] = "open" /\ sends[u] < MaxSends
      /\ sends' = [sends EXCEPT ![u] = @ + 1]
      /\ UNCHANGED <<upload, http, hashed, complete, file, kept, source, liveVars>>
      /\ discarding' \subseteq discarding \cup {u}
  BY DEF UploadChunk, WriteFails, Section, ways
<1>2. \/ content' = content /\ next' = next
      \/ content' = [content EXCEPT ![u] = Append(@, next[u])] /\ next' = [next EXCEPT ![u] = @ + 1] /\ next[u] <= Chunks
      \/ content' = [content EXCEPT ![u] = Append(@, 0)] /\ next' = next
  BY DEF UploadChunk, WriteFails, Section
<1>3. next \in [Uploads -> 1..(Chunks + 1)] /\ Chunks \in Nat /\ next[u] \in Nat
  BY IntakeConstants DEF IntakeInv, IntakeTypeOK
<1>4. /\ content' \in [Uploads -> Seq(0..Chunks)] /\ next' \in [Uploads -> 1..(Chunks + 1)]
      /\ \A v \in Uploads \ {u} : content'[v] = content[v] /\ next'[v] = next[v]
      /\ (Failed(u) \/ Ordered(u))'
  <2>1. CASE content' = content /\ next' = next
    BY <2>1, <1>3 DEF IntakeInv, IntakeTypeOK, Uploading, Failed, Ordered
  <2>2. CASE content' = [content EXCEPT ![u] = Append(@, next[u])] /\ next' = [next EXCEPT ![u] = @ + 1] /\ next[u] <= Chunks
    <3>1. next[u] \in 0..Chunks /\ next'[u] = next[u] + 1 /\ next' \in [Uploads -> 1..(Chunks + 1)]
      BY <1>3, <2>2
    <3> QED
      BY <2>2, <3>1, <1>3, Written DEF IntakeInv, Uploading
  <2>3. CASE content' = [content EXCEPT ![u] = Append(@, 0)] /\ next' = next
    <3>1. 0 \in 0..Chunks
      BY <1>3
    <3> QED
      BY <2>3, <3>1, <1>3, Written DEF IntakeInv, Uploading
  <2> QED
    BY <1>2, <2>1, <2>2, <2>3
<1>5. IntakeTypeOK'
  <2>1. sends' \in [Uploads -> 0..MaxSends]
    BY <1>1, IntakeConstants DEF IntakeInv, IntakeTypeOK
  <2> QED
    BY <1>1, <1>4, <2>1 DEF IntakeInv, IntakeTypeOK, liveVars
<1>6. FilesAreOwned' /\ BreaksOnlyByRemoval'
  BY <1>1 DEF IntakeInv, FilesAreOwned, BreaksOnlyByRemoval, liveVars
<1>7. ASSUME NEW v \in Uploads PROVE Uploading(v)'
  <2>1. CASE v = u
    BY <1>1, <1>4, <2>1 DEF IntakeInv, Uploading, liveVars
  <2>2. CASE v # u
    <3>1. content'[v] = content[v] /\ next'[v] = next[v] /\ (v \in discarding' => v \in discarding)
      BY <1>1, <1>4, <2>2
    <3>2. (Failed(v)' <=> Failed(v)) /\ (Ordered(v)' <=> Ordered(v)) /\ (Exact(v)' <=> Exact(v))
      BY <3>1 DEF Failed, Ordered, Exact
    <3> QED
      BY <1>1, <3>1, <3>2 DEF IntakeInv, Uploading, liveVars
  <2> QED
    BY <2>1, <2>2
<1>8. \A s \in Lives : Stopping(s)'
  BY <1>1 DEF IntakeInv, Stopping, liveVars
<1> QED
  BY <1>5, <1>6, <1>7, <1>8 DEF IntakeInv

\* Every other step of an upload leaves what was written.
LEMMA UploadSteps ==
  ASSUME IntakeInv, NEW u \in Uploads,
         \/ \E isHttp, isHashed \in BOOLEAN : BeginUpload(u, isHttp, isHashed)
         \/ DiscardUpload(u) \/ GiveUp(u) \/ TakeUpload(u) \/ Completes(u)
  PROVE  IntakeInv'
<1>1. UNCHANGED <<content, next, sends, liveVars>>
  BY DEF BeginUpload, DiscardUpload, GiveUp, TakeUpload, Completes, FailUpload, ReadPCAP, StoreUpload, Section
<1>2. \A v \in Uploads : (Failed(v)' <=> Failed(v)) /\ (Ordered(v)' <=> Ordered(v)) /\ (Exact(v)' <=> Exact(v))
  BY <1>1 DEF Failed, Ordered, Exact
<1> USE IntakeConstants DEF liveVars, ways, Section, Sources
<1>3. IntakeTypeOK' /\ BreaksOnlyByRemoval'
  <2> USE DEF IntakeInv, IntakeTypeOK, BreaksOnlyByRemoval
  <2>1. CASE \E isHttp, isHashed \in BOOLEAN : BeginUpload(u, isHttp, isHashed)
    BY <1>1, <2>1 DEF BeginUpload
  <2>2. CASE DiscardUpload(u)
    BY <1>1, <2>2 DEF DiscardUpload
  <2>3. CASE GiveUp(u)
    BY <1>1, <2>3 DEF GiveUp
  <2>4. CASE TakeUpload(u)
    BY <1>1, <2>4 DEF TakeUpload
  <2>5. CASE FailUpload(u)
    BY <1>1, <2>5 DEF FailUpload
  <2>6. CASE ReadPCAP(u)
    BY <1>1, <2>6 DEF ReadPCAP
  <2>7. CASE StoreUpload(u)
    BY <1>1, <2>7 DEF StoreUpload
  <2> QED
    BY <2>1, <2>2, <2>3, <2>4, <2>5, <2>6, <2>7 DEF Completes
<1>4. FilesAreOwned'
  <2> USE DEF IntakeInv, IntakeTypeOK, FilesAreOwned, Uploading
  <2>1. CASE \E isHttp, isHashed \in BOOLEAN : BeginUpload(u, isHttp, isHashed)
    BY <1>1, <2>1 DEF BeginUpload
  <2>2. CASE DiscardUpload(u)
    BY <1>1, <2>2 DEF DiscardUpload
  <2>3. CASE GiveUp(u)
    BY <1>1, <2>3 DEF GiveUp
  <2>4. CASE TakeUpload(u)
    BY <1>1, <2>4 DEF TakeUpload
  <2>5. CASE FailUpload(u)
    BY <1>1, <2>5 DEF FailUpload
  <2>6. CASE ReadPCAP(u)
    BY <1>1, <2>6 DEF ReadPCAP
  <2>7. CASE StoreUpload(u)
    BY <1>1, <2>7 DEF StoreUpload
  <2> QED
    BY <2>1, <2>2, <2>3, <2>4, <2>5, <2>6, <2>7 DEF Completes
<1>5. \A v \in Uploads : Uploading(v)'
  <2> USE DEF IntakeInv, IntakeTypeOK, Uploading
  <2>1. CASE \E isHttp, isHashed \in BOOLEAN : BeginUpload(u, isHttp, isHashed)
    BY <1>1, <1>2, <2>1 DEF BeginUpload
  <2>2. CASE DiscardUpload(u)
    BY <1>1, <1>2, <2>2 DEF DiscardUpload
  <2>3. CASE GiveUp(u)
    BY <1>1, <1>2, <2>3 DEF GiveUp
  <2>4. CASE TakeUpload(u)
    BY <1>1, <1>2, <2>4 DEF TakeUpload
  <2>5. CASE FailUpload(u) \/ StoreUpload(u)
    BY <1>1, <1>2, <2>5 DEF FailUpload, StoreUpload
  <2>6. CASE ReadPCAP(u)
    <3>1. Exact(u) \/ (u \notin hashed /\ Failed(u))
      BY <2>6, WholeIsExact DEF ReadPCAP, Accepted
    <3> QED
      BY <1>1, <1>2, <2>6, <3>1 DEF ReadPCAP
  <2> QED
    BY <2>1, <2>2, <2>3, <2>4, <2>5, <2>6 DEF Completes
<1>6. \A s \in Lives : Stopping(s)'
  <2>1. \A s \in Lives : source'[s] = source[s]
    BY DEF BeginUpload, DiscardUpload, GiveUp, TakeUpload, Completes, FailUpload, ReadPCAP, StoreUpload, IntakeInv, IntakeTypeOK
  <2> QED
    BY <1>1, <2>1 DEF IntakeInv, Stopping
<1> QED
  BY <1>3, <1>4, <1>5, <1>6 DEF IntakeInv

\* The steps of live sources, and of removals.
LEMMA SourceSteps ==
  ASSUME IntakeInv,
         \/ \E s \in Sources : RemoveGet(s) \/ RemoveSource(s) \/ \E deleteFile \in BOOLEAN : RemoveFile(s, deleteFile)
         \/ \E s \in Lives : \/ StartLive(s) \/ RemoveStopped(s)
                             \/ \E c \in Callers : StopGet(s, c) \/ StopSession(s, c) \/ StopStore(s, c)
  PROVE  IntakeInv'
<1>1. UNCHANGED <<upload, http, hashed, content, next, sends, discarding, complete>>
  BY DEF RemoveGet, RemoveSource, RemoveFile, StartLive, RemoveStopped, StopGet, StopSession, StopStore, Section, uploadVars, ways
<1>2. \A v \in Uploads : (Failed(v)' <=> Failed(v)) /\ (Ordered(v)' <=> Ordered(v)) /\ (Exact(v)' <=> Exact(v))
  BY <1>1 DEF Failed, Ordered, Exact
<1>0. Uploads \cap Lives = {}
  BY IntakeConstants
<1> USE <1>0 DEF liveVars, uploadVars, ways, Section, Sources, Callers, IntakeInv, IntakeTypeOK, BreaksOnlyByRemoval, FilesAreOwned,
        Uploading, Stopping
<1>3. ASSUME NEW s \in Sources, RemoveGet(s) PROVE IntakeInv'
  BY <1>1, <1>2, <1>3 DEF RemoveGet
<1>4. ASSUME NEW s \in Sources, RemoveSource(s) PROVE IntakeInv'
  BY <1>1, <1>2, <1>4 DEF RemoveSource
<1>5. ASSUME NEW s \in Sources, NEW deleteFile \in BOOLEAN, RemoveFile(s, deleteFile) PROVE IntakeInv'
  <2>1. /\ removal[s] = "past" /\ removal' = [removal EXCEPT ![s] = "unlinked"]
        /\ UNCHANGED <<source, stop, broken, overlapped>>
    BY <1>5 DEF RemoveFile
  <2>2. \/ file' = file \ {s} /\ kept' = kept
        \/ file' = file /\ kept' = kept \cup ({s} \cap Uploads)
    BY <1>5 DEF RemoveFile
  <2>3. CASE file' = file \ {s} /\ kept' = kept
    <3>1. IntakeTypeOK'
      BY <1>1, <2>1, <2>3
    <3>2. s \in Uploads => complete[s] = "done" /\ upload[s] = "gone"
      BY <2>1
    <3>3. FilesAreOwned'
      BY <1>1, <2>1, <2>3, <3>2
    <3>4. BreaksOnlyByRemoval' /\ \A v \in Lives : Stopping(v)'
      BY <2>1
    <3>5. \A v \in Uploads : Uploading(v)'
      BY <1>1, <1>2, <2>1
    <3> QED
      BY <3>1, <3>3, <3>4, <3>5
  <2>4. CASE file' = file /\ kept' = kept \cup ({s} \cap Uploads)
    BY <1>1, <1>2, <2>1, <2>4
  <2> QED
    BY <2>2, <2>3, <2>4
<1>6. ASSUME NEW s \in Lives, StartLive(s) PROVE IntakeInv'
  BY <1>1, <1>2, <1>6 DEF StartLive
<1>7. ASSUME NEW s \in Lives, RemoveStopped(s) PROVE IntakeInv'
  BY <1>1, <1>2, <1>7 DEF RemoveStopped
<1>8. ASSUME NEW s \in Lives, NEW c \in Callers, StopGet(s, c) PROVE IntakeInv'
  BY <1>1, <1>2, <1>8 DEF StopGet
<1>9. ASSUME NEW s \in Lives, NEW c \in Callers, StopSession(s, c) PROVE IntakeInv'
  BY <1>1, <1>2, <1>9 DEF StopSession
<1>10. ASSUME NEW s \in Lives, NEW c \in Callers, StopStore(s, c) PROVE IntakeInv'
  <2>1. /\ stop[s][c] = "stopped" /\ stop' = [stop EXCEPT ![s][c] = "ended"]
        /\ UNCHANGED <<file, kept, removal, overlapped>>
    BY <1>10 DEF StopStore
  <2>2. \/ source[s] = "none" /\ broken' = TRUE /\ source' = source
        \/ source[s] # "none" /\ broken' = broken /\ source' = [source EXCEPT ![s] = "STOPPED"]
    BY <1>10 DEF StopStore
  <2>3. s \notin Uploads
    OBVIOUS
  <2>4. CASE source[s] = "none" /\ broken' = TRUE /\ source' = source
    BY <1>1, <1>2, <2>1, <2>4
  <2>5. CASE source[s] # "none" /\ broken' = broken /\ source' = [source EXCEPT ![s] = "STOPPED"]
    BY <1>1, <1>2, <2>1, <2>3, <2>5
  <2> QED
    BY <2>2, <2>4, <2>5
<1> HIDE DEF liveVars, uploadVars, ways, Section, Sources, Callers, IntakeInv
<1>11. CASE \E s \in Sources : RemoveGet(s) \/ RemoveSource(s) \/ \E deleteFile \in BOOLEAN : RemoveFile(s, deleteFile)
  BY <1>3, <1>4, <1>5, <1>11, Zenon
<1>12. CASE \E s \in Lives : \/ StartLive(s) \/ RemoveStopped(s)
                             \/ \E c \in Callers : StopGet(s, c) \/ StopSession(s, c) \/ StopStore(s, c)
  BY <1>6, <1>7, <1>8, <1>9, <1>10, <1>12, Zenon
<1> QED
  BY <1>11, <1>12

LEMMA IntakeStep == IntakeInv /\ [IntakeNext]_intakeVars => IntakeInv'
<1> SUFFICES ASSUME IntakeInv, [IntakeNext]_intakeVars PROVE IntakeInv'
  OBVIOUS
<1>1. CASE UNCHANGED intakeVars
  BY <1>1 DEF intakeVars, uploadVars, ways, liveVars, IntakeInv, IntakeTypeOK, FilesAreOwned, BreaksOnlyByRemoval,
     Uploading, Stopping, Failed, Ordered, Exact
<1>2. CASE IntakeNext
  BY <1>2, ChunkSteps, UploadSteps, SourceSteps DEF IntakeNext
<1> QED
  BY <1>1, <1>2

LEMMA IntakeInvariance == IntakeSpec => []IntakeInv
BY IntakeInitInv, IntakeStep, PTL DEF IntakeSpec

\* Every variable of the intake keeps its type.
THEOREM IntakeTypes == IntakeSpec => []IntakeTypeOK
<1>1. IntakeInv => IntakeTypeOK
  BY DEF IntakeInv
<1> QED
  BY <1>1, IntakeInvariance, PTL

\* A source is what was sent, owns its file, and the service breaks only where a
\* source is removed while it is being stopped, for any uploads and chunks.
THEOREM SourcesStayExact == IntakeSpec => []SourcesAreExact
<1>1. IntakeInv => SourcesAreExact
  BY DEF IntakeInv, Uploading, Failed, SourceIsExact, SourcesAreExact
<1> QED
  BY <1>1, IntakeInvariance, PTL

----------------------------------------------------------------------------
\* The reading of conclusions in pages.

\* The rank of a place among some places.
Upto(S, p) == {q \in S : q <= p}
Rank(S) == [p \in S |-> Cardinality(Upto(S, p))]

LEMMA SomePlaces ==
  ASSUME NEW S \in SUBSET Places
  PROVE  S \subseteq Nat /\ IsFiniteSet(S) /\ Cardinality(S) \in Nat
BY PageConstants, FS_Subset, FS_CardinalityType

\* Ranks number the places of a set in their order, without a gap.
LEMMA Ranks ==
  ASSUME NEW S \in SUBSET Places
  PROVE  /\ Rank(S) \in Bijection(S, 1..Cardinality(S))
         /\ \A p, q \in S : p < q <=> Rank(S)[p] < Rank(S)[q]
<1>1. S \subseteq Nat /\ IsFiniteSet(S) /\ Cardinality(S) \in Nat
  BY SomePlaces
<1>2. ASSUME NEW p \in S
      PROVE  /\ Cardinality(Upto(S, p)) \in 1..Cardinality(S)
             /\ IsFiniteSet(Upto(S, p))
  <2>1. Upto(S, p) \in SUBSET S /\ p \in Upto(S, p)
    BY <1>1 DEF Upto
  <2>2. IsFiniteSet(Upto(S, p)) /\ Cardinality(Upto(S, p)) <= Cardinality(S)
    BY <1>1, <2>1, FS_Subset
  <2>3. Cardinality(Upto(S, p)) \in Nat /\ Cardinality(Upto(S, p)) # 0
    BY <2>1, <2>2, FS_CardinalityType, FS_EmptySet
  <2> QED
    BY <1>1, <2>2, <2>3
<1>3. ASSUME NEW p \in S, NEW q \in S, p < q
      PROVE  Rank(S)[p] < Rank(S)[q]
  <2>1. Upto(S, p) \in SUBSET Upto(S, q) /\ q \in Upto(S, q) /\ q \notin Upto(S, p)
    <3>1. p \in Nat /\ q \in Nat /\ \A r \in S : r \in Nat
      BY <1>1
    <3>2. q <= q /\ ~(q <= p) /\ \A r \in S : r <= p => r <= q
      BY <1>3, <3>1
    <3> QED
      BY <3>2 DEF Upto
  <2>2. Cardinality(Upto(S, p)) <= Cardinality(Upto(S, q)) /\ Cardinality(Upto(S, p)) # Cardinality(Upto(S, q))
    BY <1>2, <2>1, FS_Subset
  <2> QED
    BY <1>1, <1>2, <2>2 DEF Rank
<1>4. Rank(S) \in [S -> 1..Cardinality(S)]
  BY <1>2 DEF Rank
<1>5. \A p, q \in S : p < q <=> Rank(S)[p] < Rank(S)[q]
  BY <1>1, <1>3, <1>4
<1>6. Rank(S) \in Injection(S, 1..Cardinality(S))
  <2>1. \A p, q \in S : Rank(S)[p] = Rank(S)[q] => p = q
    BY <1>1, <1>3, <1>4
  <2> QED
    BY <1>4, <2>1 DEF Injection, IsInjective
<1>7. IsFiniteSet(1..Cardinality(S)) /\ Cardinality(1..Cardinality(S)) = Cardinality(S)
  BY <1>1, FS_Interval
<1>8. Rank(S) \in Surjection(S, 1..Cardinality(S))
  BY <1>6, <1>7, FS_Injection
<1> QED
  BY <1>5, <1>6, <1>8 DEF Bijection

PagesShape == PagesTypeOK /\ got \in Seq(Identifiers)

\* A page lists the conclusions of its places in their order.
LEMMA Listing ==
  ASSUME PagesShape, NEW S \in SUBSET Places, \A p \in S : listed[p] # NoToken
  PROVE  /\ InOrder(S) \in Seq(Identifiers) /\ Len(InOrder(S)) = Cardinality(S)
         /\ \A k \in 1..Cardinality(S) : \E p \in S : Rank(S)[p] = k /\ InOrder(S)[k] = listed[p]
<1>1. Cardinality(S) \in Nat
  BY SomePlaces
<1>2. ASSUME NEW k \in 1..Cardinality(S)
      PROVE  \E p \in S : Rank(S)[p] = k /\ InOrder(S)[k] = listed[p]
  <2>1. \E p \in S : Rank(S)[p] = k
    BY Ranks DEF Bijection, Surjection
  <2>2. \E p \in S : Cardinality({q \in S : q <= p}) = k
    BY <2>1 DEF Rank, Upto
  <2> DEFINE place == CHOOSE p \in S : Cardinality({q \in S : q <= p}) = k
  <2>3. place \in S /\ Cardinality({q \in S : q <= place}) = k
    BY <2>2
  <2>4. InOrder(S)[k] = listed[place]
    BY DEF InOrder
  <2> QED
    BY <2>3, <2>4 DEF Rank, Upto
<1>3. \A k \in 1..Cardinality(S) : InOrder(S)[k] \in Identifiers
  BY <1>2 DEF PagesShape, PagesTypeOK
<1>4. InOrder(S) = [k \in 1..Cardinality(S) |-> InOrder(S)[k]]
  BY DEF InOrder
<1>5. InOrder(S) \in [1..Cardinality(S) -> Identifiers]
  BY <1>3, <1>4
<1>6. InOrder(S) \in Seq(Identifiers) /\ Len(InOrder(S)) = Cardinality(S)
  BY <1>1, <1>5
<1> QED
  BY <1>2, <1>6

Once(id) == \E k \in DOMAIN got : got[k] = id /\ \A l \in DOMAIN got : got[l] = id => l = k
Never(id) == \A k \in DOMAIN got : got[k] # id

\* An identifier is in one place.
Placed == \A p, q \in Places : listed[p] = listed[q] /\ listed[p] # NoToken => p = q

\* What stayed is listed.
Stays == stayed \subseteq Held(listed)

\* A read has what stayed up to its token, once, and nothing of it beyond.
Passed(q) ==
  \A held \in stayed : IF held[1] <= q THEN Once(held[2]) ELSE Never(held[2])
Progress ==
  /\ reading = "pages" /\ ~displaced =>
       \/ pageToken = NoToken /\ got = <<>>
       \/ pageToken # NoToken /\ \E q \in Places : listed[q] = pageToken /\ Passed(q)
  /\ reading = "whole" /\ ~displaced => \A held \in stayed : Once(held[2])

PagesInv == PagesShape /\ Placed /\ Stays /\ Progress

LEMMA PagesInitInv == PagesInit => PagesInv
<1> SUFFICES ASSUME PagesInit PROVE PagesInv
  OBVIOUS
<1>1. PagesShape
  <2>1. got \in Seq(Identifiers) /\ \A k \in DOMAIN got : got[k] \in Identifiers
    BY DEF PagesInit
  <2>2. listed \in [Places -> Identifiers \cup {NoToken}] /\ used \subseteq Identifiers /\ displaced \in BOOLEAN
    BY DEF PagesInit
  <2>3. pageToken \in Identifiers \cup {NoToken} /\ reading = "no" /\ stayed = {}
    BY DEF PagesInit
  <2> QED
    BY <2>1, <2>2, <2>3 DEF PagesShape, PagesTypeOK
<1>2. Placed /\ Stays /\ Progress
  BY DEF PagesInit, Placed, Stays, Progress
<1> QED
  BY <1>1, <1>2 DEF PagesInv

LEMMA RecomputeInv ==
  ASSUME PagesInv, NEW found \in [Places -> Identifiers \cup {NoToken}], Recompute(found)
  PROVE  PagesInv'
<1>1. /\ listed' = found /\ UNCHANGED <<reading, pageToken, got>>
      /\ used' = used \cup ({found[p] : p \in Places} \ {NoToken})
      /\ stayed' = stayed \cap Held(found)
      /\ displaced' = (displaced \/ (reading = "pages" /\ pageToken # NoToken /\ PlaceIn(pageToken, found) # PlaceIn(pageToken, listed)))
  BY DEF Recompute
<1>2. PagesShape'
  BY <1>1 DEF PagesInv, PagesShape, PagesTypeOK
<1>3. Placed'
  BY <1>1 DEF Recompute, Placed
<1>4. Stays'
  BY <1>1 DEF Stays
<1>5. Progress'
  <2>1. \A id : (Once(id)' <=> Once(id)) /\ (Never(id)' <=> Never(id))
    BY <1>1 DEF Once, Never
  <2>2. \A q : Passed(q) => Passed(q)'
    BY <1>1, <2>1 DEF Passed
  <2>3. ASSUME reading = "pages", ~displaced', pageToken # NoToken, NEW q \in Places, listed[q] = pageToken
        PROVE  found[q] = pageToken
    BY <1>1, <2>3 DEF PlaceIn
  <2>4. ~displaced' => ~displaced
    BY <1>1
  <2> QED
    BY <1>1, <2>1, <2>2, <2>3, <2>4 DEF PagesInv, Progress
<1> QED
  BY <1>2, <1>3, <1>4, <1>5 DEF PagesInv

\* What a page adds to what was got.
LEMMA Joined ==
  ASSUME PagesShape, NEW e \in Seq(Identifiers), got' = got \o e, NEW id
  PROVE  /\ Once(id) /\ (\A l \in 1..Len(e) : e[l] # id) => Once(id)'
         /\ Never(id) /\ (\A l \in 1..Len(e) : e[l] # id) => Never(id)'
         /\ Never(id) /\ (\E k \in 1..Len(e) : e[k] = id /\ \A l \in 1..Len(e) : e[l] = id => l = k) => Once(id)'
         /\ got' \in Seq(Identifiers) /\ Len(got') = Len(got) + Len(e)
         /\ Len(e) > 0 => got'[Len(got')] = e[Len(e)]
<1>1. got \in Seq(Identifiers) /\ Len(got) \in Nat /\ Len(e) \in Nat /\ DOMAIN got = 1..Len(got)
  BY DEF PagesShape
<1>2. /\ got' \in Seq(Identifiers) /\ Len(got') = Len(got) + Len(e) /\ DOMAIN got' = 1..(Len(got) + Len(e))
      /\ \A i \in 1..(Len(got) + Len(e)) : got'[i] = IF i <= Len(got) THEN got[i] ELSE e[i - Len(got)]
  BY <1>1
<1>3. /\ \A i \in 1..Len(got) : got'[i] = got[i] /\ i \in DOMAIN got'
      /\ \A l \in 1..Len(e) : got'[Len(got) + l] = e[l] /\ Len(got) + l \in DOMAIN got'
      /\ \A i \in DOMAIN got' : i \in 1..Len(got) \/ \E l \in 1..Len(e) : i = Len(got) + l
  <2>1. \A i \in 1..(Len(got) + Len(e)) : i > Len(got) => i - Len(got) \in 1..Len(e) /\ i = Len(got) + (i - Len(got))
    BY <1>1
  <2>2. \A l \in 1..Len(e) : Len(got) + l \in 1..(Len(got) + Len(e)) /\ ~(Len(got) + l <= Len(got)) /\ (Len(got) + l) - Len(got) = l
    BY <1>1
  <2>3. \A i \in 1..Len(got) : i \in 1..(Len(got) + Len(e)) /\ i <= Len(got)
    BY <1>1
  <2>4. \A i \in 1..(Len(got) + Len(e)) : i \in 1..Len(got) \/ i > Len(got)
    BY <1>1
  <2> QED
    BY <1>2, <2>1, <2>2, <2>3, <2>4
<1>4. Once(id) /\ (\A l \in 1..Len(e) : e[l] # id) => Once(id)'
  <2> SUFFICES ASSUME NEW k \in DOMAIN got, got[k] = id, \A l \in DOMAIN got : got[l] = id => l = k,
                      \A l \in 1..Len(e) : e[l] # id
               PROVE  Once(id)'
    BY DEF Once
  <2>1. k \in DOMAIN got' /\ got'[k] = id
    BY <1>1, <1>3
  <2>2. ASSUME NEW i \in DOMAIN got', got'[i] = id PROVE i = k
    <3>1. i \in 1..Len(got)
      BY <1>3, <2>2
    <3> QED
      BY <1>1, <1>3, <2>2, <3>1
  <2> QED
    BY <2>1, <2>2 DEF Once
<1>5. Never(id) /\ (\A l \in 1..Len(e) : e[l] # id) => Never(id)'
  BY <1>1, <1>3 DEF Never
<1>6. Never(id) /\ (\E k \in 1..Len(e) : e[k] = id /\ \A l \in 1..Len(e) : e[l] = id => l = k) => Once(id)'
  <2> SUFFICES ASSUME Never(id), NEW k \in 1..Len(e), e[k] = id, \A l \in 1..Len(e) : e[l] = id => l = k
               PROVE  Once(id)'
    OBVIOUS
  <2>1. got'[Len(got) + k] = id /\ Len(got) + k \in DOMAIN got'
    BY <1>3
  <2>2. ASSUME NEW i \in DOMAIN got', got'[i] = id PROVE i = Len(got) + k
    <3>1. i \notin 1..Len(got)
      BY <1>1, <1>3, <2>2 DEF Never
    <3>2. PICK l \in 1..Len(e) : i = Len(got) + l
      BY <1>3, <3>1
    <3>3. e[l] = id
      BY <1>3, <2>2, <3>2
    <3> QED
      BY <3>2, <3>3
  <2> QED
    BY <2>1, <2>2 DEF Once
<1>7. Len(e) > 0 => got'[Len(got')] = e[Len(e)]
  BY <1>1, <1>2, <1>3
<1> QED
  BY <1>2, <1>4, <1>5, <1>6, <1>7

\* A page holds the first of the places that follow, and at least one of them.
LEMMA PageOfAfter ==
  /\ Page \subseteq After /\ After \subseteq Places
  /\ \A p \in Page, q \in After : q < p => q \in Page
  /\ After # {} => Page # {}
<1>1. Page \subseteq After /\ After \subseteq Places
  BY DEF Page, After
<1>2. After \subseteq Nat /\ IsFiniteSet(After) /\ Cardinality(After) \in Nat /\ PageSize \in Nat \ {0}
  BY <1>1, SomePlaces, PageConstants
<1>3. \A p \in After : /\ IsFiniteSet({q \in After : q < p})
                        /\ Cardinality({q \in After : q < p}) \in Nat
  BY <1>2, FS_Subset, FS_CardinalityType
<1>4. ASSUME NEW p \in Page, NEW q \in After, q < p PROVE q \in Page
  <2>1. p \in After /\ Cardinality({r \in After : r < p}) < PageSize
    BY DEF Page
  <2>2. {r \in After : r < q} \in SUBSET {r \in After : r < p}
    <3>1. p \in Nat /\ q \in Nat /\ \A r \in After : r \in Nat
      BY <1>2, <2>1
    <3>2. \A r \in After : r < q => r < p
      BY <1>4, <3>1
    <3> QED
      BY <3>2
  <2>3. Cardinality({r \in After : r < q}) <= Cardinality({r \in After : r < p})
    BY <1>3, <2>1, <2>2, FS_Subset
  <2>4. Cardinality({r \in After : r < q}) < PageSize
    BY <1>2, <1>3, <2>1, <2>3
  <2> QED
    BY <2>4 DEF Page
<1>5. ASSUME After # {} PROVE Page # {}
  <2>1. Cardinality(After) # 0
    BY <1>2, <1>5, FS_EmptySet
  <2>2. 1 \in 1..Cardinality(After)
    BY <1>2, <2>1
  <2>3. PICK p \in After : Rank(After)[p] = 1
    BY <1>1, <2>2, Ranks DEF Bijection, Surjection
  <2>4. ASSUME NEW q \in After, q < p PROVE FALSE
    <3>1. Rank(After)[q] < 1 /\ Rank(After)[q] \in 1..Cardinality(After)
      BY <1>1, <2>3, <2>4, Ranks DEF Bijection, Surjection
    <3> QED
      BY <1>2, <3>1
  <2>5. {q \in After : q < p} = {}
    BY <2>4
  <2>6. Cardinality({q \in After : q < p}) < PageSize
    BY <1>2, <2>5, FS_EmptySet
  <2> QED
    BY <2>6 DEF Page
<1> QED
  BY <1>1, <1>4, <1>5

\* A page has the conclusion of each of its places once, and no other; its last one
\* is that of the last place.
LEMMA PageContents ==
  ASSUME PagesInv
  PROVE  LET e == InOrder(Page) IN
         /\ e \in Seq(Identifiers) /\ Len(e) \in Nat /\ (Page # {} => Len(e) > 0)
         /\ \A p \in Page : \E k \in 1..Len(e) : e[k] = listed[p] /\ \A l \in 1..Len(e) : e[l] = listed[p] => l = k
         /\ \A p \in Places \ Page : listed[p] # NoToken => \A l \in 1..Len(e) : e[l] # listed[p]
         /\ Len(e) > 0 => \E x \in Page : e[Len(e)] = listed[x] /\ \A y \in Page : y <= x
<1> DEFINE e == InOrder(Page)
<1>1. Page \in SUBSET Places /\ \A p \in Page : listed[p] # NoToken
  BY PageOfAfter DEF After
<1>2. /\ e \in Seq(Identifiers) /\ Len(e) = Cardinality(Page)
      /\ \A k \in 1..Len(e) : \E p \in Page : Rank(Page)[p] = k /\ e[k] = listed[p]
  BY <1>1, Listing DEF PagesInv
<1>3. /\ Len(e) \in Nat /\ Page \subseteq Nat /\ (Page # {} => Len(e) > 0)
  BY <1>1, <1>2, SomePlaces, FS_EmptySet
<1>4. /\ Rank(Page) \in [Page -> 1..Len(e)]
      /\ \A p, q \in Page : p < q <=> Rank(Page)[p] < Rank(Page)[q]
  BY <1>1, <1>2, Ranks DEF Bijection, Injection
<1>5. \A p, q \in Page : Rank(Page)[p] = Rank(Page)[q] => p = q
  BY <1>3, <1>4
<1>6. \A p, q \in Places : listed[p] = listed[q] /\ listed[p] # NoToken => p = q
  BY DEF PagesInv, Placed
<1> HIDE DEF e
<1>7. ASSUME NEW p \in Page
      PROVE  \E k \in 1..Len(e) : e[k] = listed[p] /\ \A l \in 1..Len(e) : e[l] = listed[p] => l = k
  <2>1. Rank(Page)[p] \in 1..Len(e)
    BY <1>4
  <2>2. e[Rank(Page)[p]] = listed[p]
    BY <1>2, <1>5, <2>1
  <2>3. \A l \in 1..Len(e) : e[l] = listed[p] => l = Rank(Page)[p]
    BY <1>1, <1>2, <1>6
  <2> QED
    BY <2>1, <2>2, <2>3
<1>8. ASSUME NEW p \in Places \ Page, listed[p] # NoToken, NEW l \in 1..Len(e) PROVE e[l] # listed[p]
  BY <1>1, <1>2, <1>6, <1>8
<1>9. ASSUME Len(e) > 0 PROVE \E x \in Page : e[Len(e)] = listed[x] /\ \A y \in Page : y <= x
  <2>1. Len(e) \in 1..Len(e)
    BY <1>3, <1>9
  <2>2. PICK x \in Page : Rank(Page)[x] = Len(e) /\ e[Len(e)] = listed[x]
    BY <1>2, <2>1
  <2>3. ASSUME NEW y \in Page PROVE y <= x
    <3>1. ~(Rank(Page)[x] < Rank(Page)[y])
      BY <1>3, <1>4, <2>2
    <3> QED
      BY <1>3, <1>4, <3>1
  <2> QED
    BY <2>2, <2>3
<1> QED
  BY <1>2, <1>3, <1>7, <1>8, <1>9 DEF e

LEMMA NextPageInv ==
  ASSUME PagesInv, NextPage
  PROVE  PagesInv'
<1> DEFINE e == InOrder(Page)
<1>1. reading = "pages" /\ UNCHANGED <<listed, used, stayed, displaced>> /\ Placed' /\ Stays'
  BY DEF NextPage, PagesInv, Placed, Stays
<1>2. CASE pageToken # NoToken /\ PlaceIn(pageToken, listed) = {}
  <2>1. reading' = "failed" /\ UNCHANGED <<pageToken, got>>
    BY <1>2 DEF NextPage
  <2>2. PagesShape' /\ Progress'
    BY <1>1, <2>1 DEF PagesInv, PagesShape, PagesTypeOK, Progress
  <2> QED
    BY <1>1, <2>2 DEF PagesInv
<1>3. CASE ~(pageToken # NoToken /\ PlaceIn(pageToken, listed) = {})
  <2>1. /\ got' = got \o e
        /\ reading' = IF Page = After THEN "whole" ELSE "pages"
        /\ pageToken' = IF Page = After THEN NoToken ELSE got'[Len(got')]
    BY <1>3 DEF NextPage
  <2>2. /\ e \in Seq(Identifiers) /\ Len(e) \in Nat /\ (Page # {} => Len(e) > 0)
        /\ \A p \in Page : \E k \in 1..Len(e) : e[k] = listed[p] /\ \A l \in 1..Len(e) : e[l] = listed[p] => l = k
        /\ \A p \in Places \ Page : listed[p] # NoToken => \A l \in 1..Len(e) : e[l] # listed[p]
        /\ Len(e) > 0 => \E x \in Page : e[Len(e)] = listed[x] /\ \A y \in Page : y <= x
    BY PageContents
  <2>3. /\ Page \subseteq After /\ After \subseteq Places /\ Places \subseteq Nat
        /\ \A p \in Page, q \in After : q < p => q \in Page
        /\ After # {} => Page # {}
    BY PageOfAfter, PageConstants
  <2> HIDE DEF e
  <2>4. \A id : /\ Once(id) /\ (\A l \in 1..Len(e) : e[l] # id) => Once(id)'
                /\ Never(id) /\ (\A l \in 1..Len(e) : e[l] # id) => Never(id)'
                /\ Never(id) /\ (\E k \in 1..Len(e) : e[k] = id /\ \A l \in 1..Len(e) : e[l] = id => l = k) => Once(id)'
    BY <2>1, <2>2, Joined DEF PagesInv
  <2>5. got' \in Seq(Identifiers) /\ Len(got') = Len(got) + Len(e) /\ (Len(e) > 0 => got'[Len(got')] = e[Len(e)])
    BY <2>1, <2>2, Joined DEF PagesInv
  <2>6. Page # After => \E x \in Page : pageToken' = listed[x] /\ listed[x] # NoToken /\ \A y \in Page : y <= x
    BY <2>1, <2>2, <2>3, <2>5 DEF After
  <2>7. PagesShape'
    <3>1. \A k \in DOMAIN got' : got'[k] \in Identifiers
      BY <2>5
    <3>2. pageToken' \in Identifiers \cup {NoToken}
      BY <2>1, <2>3, <2>6 DEF PagesInv, PagesShape, PagesTypeOK
    <3>3. reading' \in {"no", "pages", "whole", "failed"}
      BY <2>1
    <3> QED
      BY <1>1, <2>5, <3>1, <3>2, <3>3 DEF PagesInv, PagesShape, PagesTypeOK
  <2>8. ASSUME ~displaced, NEW held \in stayed
        PROVE  /\ held[1] \in Places /\ listed[held[1]] = held[2] /\ held[2] # NoToken
               /\ held[1] \in After => Never(held[2])
               /\ held[1] \notin After => Once(held[2]) /\ \A x \in After : held[1] <= x
    <3>1. held[1] \in Places /\ listed[held[1]] = held[2] /\ held[2] # NoToken
      BY DEF PagesInv, Stays, Held
    <3>2. CASE pageToken = NoToken /\ got = <<>>
      <4>1. Never(held[2]) /\ held[1] \in After
        BY <3>1, <3>2 DEF Never, After
      <4> QED
        BY <3>1, <4>1
    <3>3. CASE pageToken # NoToken /\ \E q \in Places : listed[q] = pageToken /\ Passed(q)
      <4>1. PICK q \in Places : listed[q] = pageToken /\ Passed(q)
        BY <3>3
      <4>2. PlaceIn(pageToken, listed) = {q}
        BY <3>3, <4>1 DEF PlaceIn, PagesInv, Placed
      <4>3. \A p \in Places : p \in After <=> listed[p] # NoToken /\ q < p
        BY <3>3, <4>2 DEF After
      <4>4. q \in Nat /\ held[1] \in Nat /\ \A x \in After : x \in Nat /\ q < x
        BY <2>3, <3>1, <4>1, <4>3
      <4>5. IF held[1] <= q THEN Once(held[2]) ELSE Never(held[2])
        BY <4>1 DEF Passed
      <4>6. held[1] \in After <=> ~(held[1] <= q)
        BY <3>1, <4>3, <4>4
      <4>7. held[1] \notin After => \A x \in After : held[1] <= x
        BY <4>4, <4>6
      <4> QED
        BY <3>1, <4>5, <4>6, <4>7
    <3> QED
      BY <1>1, <2>8, <3>2, <3>3 DEF PagesInv, Progress
  <2>9. ASSUME ~displaced, NEW held \in stayed
        PROVE  IF held[1] \in After \ Page THEN Never(held[2])' ELSE Once(held[2])'
    <3>1. CASE held[1] \in Page
      BY <2>2, <2>3, <2>4, <2>8, <2>9, <3>1
    <3>2. CASE held[1] \notin Page
      BY <2>2, <2>4, <2>8, <2>9, <3>2
    <3> QED
      BY <3>1, <3>2
  <2>10. Progress'
    <3>1. CASE Page = After
      BY <1>1, <2>1, <2>9, <3>1 DEF Progress
    <3>2. CASE Page # After
      <4>1. PICK x \in Page : pageToken' = listed[x] /\ listed[x] # NoToken /\ \A y \in Page : y <= x
        BY <2>6, <3>2
      <4>2. x \in Places /\ x \in After /\ x \in Nat
        BY <2>3
      <4>3. ASSUME ~displaced, NEW held \in stayed
            PROVE  IF held[1] <= x THEN Once(held[2])' ELSE Never(held[2])'
        <5>1. held[1] \in Nat
          BY <2>3, <2>8, <4>3
        <5>2. held[1] \in After \ Page => ~(held[1] <= x)
          BY <2>3, <4>2, <5>1
        <5>3. ~(held[1] \in After \ Page) => held[1] <= x
          BY <2>8, <4>1, <4>2, <4>3
        <5> QED
          BY <2>9, <4>3, <5>2, <5>3
      <4>4. ~displaced => Passed(x)'
        BY <1>1, <4>3 DEF Passed
      <4> QED
        BY <1>1, <2>1, <3>2, <4>1, <4>2, <4>4 DEF Progress
    <3> QED
      BY <3>1, <3>2
  <2> QED
    BY <1>1, <2>7, <2>10 DEF PagesInv
<1> QED
  BY <1>2, <1>3

LEMMA PagesStep == PagesInv /\ [PagesNext]_pageVars => PagesInv'
<1> SUFFICES ASSUME PagesInv, [PagesNext]_pageVars PROVE PagesInv'
  OBVIOUS
<1>1. CASE StartPages
  <2>1. PagesShape'
    <3>1. Held(listed) \subseteq Places \X Identifiers
      BY DEF Held, PagesInv, PagesShape, PagesTypeOK
    <3>2. got' \in Seq(Identifiers) /\ DOMAIN got' = {}
      BY <1>1 DEF StartPages
    <3> QED
      BY <1>1, <3>1, <3>2 DEF StartPages, PagesInv, PagesShape, PagesTypeOK
  <2>2. Placed' /\ Stays' /\ Progress'
    BY <1>1 DEF StartPages, PagesInv, Placed, Stays, Progress, Held
  <2> QED
    BY <2>1, <2>2 DEF PagesInv
<1>2. CASE UNCHANGED pageVars
  BY <1>2 DEF pageVars, PagesInv, PagesShape, PagesTypeOK, Placed, Stays, Held, Progress, Passed, Once, Never
<1> QED
  BY <1>1, <1>2, RecomputeInv, NextPageInv DEF PagesNext

LEMMA PagesInvariance == PagesSpec => []PagesInv
BY PagesInitInv, PagesStep, PTL DEF PagesSpec

\* Every variable of the reading keeps its type.
THEOREM PagesTypes == PagesSpec => []PagesTypeOK
<1>1. PagesInv => PagesTypeOK
  BY DEF PagesInv, PagesShape
<1> QED
  BY <1>1, PagesInvariance, PTL

\* For any pages, places and computations between them: a read that ends holds what
\* stayed, once, unless its token moved.
THEOREM ReadsAreWhole == PagesSpec => []ReadIsWhole
<1>1. ASSUME PagesInv PROVE ReadIsWhole
  <2> SUFFICES ASSUME reading = "whole", ~displaced, NEW held \in stayed
               PROVE  Cardinality({k \in DOMAIN got : got[k] = held[2]}) = 1
    BY DEF ReadIsWhole
  <2>1. PICK k \in DOMAIN got : got[k] = held[2] /\ \A l \in DOMAIN got : got[l] = held[2] => l = k
    BY <1>1 DEF PagesInv, Progress, Once
  <2>2. {l \in DOMAIN got : got[l] = held[2]} = {k}
    BY <2>1
  <2> QED
    BY <2>2, FS_Singleton
<1> QED
  BY <1>1, PagesInvariance, PTL

----------------------------------------------------------------------------
\* The choice of evidence and its confidence.

\* The items there may be on the topic.
TopicItems == DOMAIN EvidenceOf[topic]

LEMMA ItemTypes ==
  ASSUME topic \in Topics
  PROVE  /\ TopicItems \subseteq Nat \ {0} /\ IsFiniteSet(TopicItems)
         /\ Precedence[topic] \in Seq(SourceTypes)
         /\ \A i \in TopicItems :
              /\ Item(i).source \in SourceTypes
              /\ Item(i).status \in {"VERIFIED_GATEWAY", "OBSERVED", "DERIVED", "INFERRED", "UNKNOWN"}
              /\ Item(i).confidence \in 0..100 /\ Item(i).observed \in Int
<1>1. ASSUME NEW i \in TopicItems
      PROVE  /\ Item(i).source \in SourceTypes
             /\ \E k \in 1..5 : Item(i).status = Statuses[k]
             /\ Item(i).confidence \in 0..100 /\ Item(i).observed \in Int
  BY DecisionConstants DEF TopicItems, Item
<1>2. \A k \in 1..5 : Statuses[k] \in {"VERIFIED_GATEWAY", "OBSERVED", "DERIVED", "INFERRED", "UNKNOWN"}
  BY DEF Statuses
<1> QED
  BY <1>1, <1>2, DecisionConstants DEF TopicItems

LEMMA Trusts ==
  /\ \A s \in SourceTypes : SourceTrust(s) \in 70..100
  /\ \A s \in {"VERIFIED_GATEWAY", "OBSERVED", "DERIVED", "INFERRED", "UNKNOWN"} : StatusTrust(s) \in 25..100
BY DEF SourceTypes, SourceTrust, StatusTrust

LEMMA PlaceIsInt ==
  ASSUME NEW S, NEW list \in Seq(S), NEW x
  PROVE  Place(x, list) \in Int
<1>1. DOMAIN list \subseteq Int /\ Len(list) \in Nat
  OBVIOUS
<1>2. CASE \E k \in DOMAIN list : list[k] = x
  <2>1. Place(x, list) \in DOMAIN list
    BY <1>2 DEF Place
  <2> QED
    BY <1>1, <2>1
<1>3. CASE ~ \E k \in DOMAIN list : list[k] = x
  BY <1>1, <1>3 DEF Place
<1> QED
  BY <1>2, <1>3

LEMMA OrderIsInts ==
  ASSUME topic \in Topics, NEW i \in TopicItems, NEW t \in Nat
  PROVE  Order(i, t)[6] = 0 - i /\ \A k \in 1..6 : Order(i, t)[k] \in Int
<1>1. 0 - Place(Item(i).status, Statuses) \in Int
  <2>1. Statuses \in Seq({"VERIFIED_GATEWAY", "OBSERVED", "DERIVED", "INFERRED", "UNKNOWN"})
    BY DEF Statuses
  <2> QED
    BY <2>1, PlaceIsInt
<1>2. 0 - Place(Item(i).source, Precedence[topic]) \in Int
  BY ItemTypes, PlaceIsInt
<1>3. SourceTrust(Item(i).source) \in Int /\ Item(i).confidence \in Int
  <2>1. Item(i).source \in SourceTypes /\ Item(i).confidence \in 0..100
    BY ItemTypes
  <2>2. SourceTrust(Item(i).source) \in 70..100
    BY <2>1, Trusts
  <2> QED
    BY <2>1, <2>2
<1>4. SeenAt(i, t) \in Int /\ 0 - i \in Int
  BY ItemTypes DEF SeenAt
<1>5. /\ Order(i, t)[1] = 0 - Place(Item(i).status, Statuses)
      /\ Order(i, t)[2] = 0 - Place(Item(i).source, Precedence[topic])
      /\ Order(i, t)[3] = SourceTrust(Item(i).source)
      /\ Order(i, t)[4] = Item(i).confidence
      /\ Order(i, t)[5] = SeenAt(i, t)
      /\ Order(i, t)[6] = 0 - i
  BY DEF Order
<1>6. \A k \in 1..6 : k \in {1, 2, 3, 4, 5, 6}
  OBVIOUS
<1> QED
  BY <1>1, <1>2, <1>3, <1>4, <1>5, <1>6

\* The policy orders any two items.
LEMMA BetterIsOrder ==
  ASSUME topic \in Topics, NEW t \in Nat
  PROVE  /\ \A i, j \in TopicItems : i # j => Better(i, j, t) \/ Better(j, i, t)
         /\ \A i, j \in TopicItems : ~(Better(i, j, t) /\ Better(j, i, t))
         /\ \A i, j, k \in TopicItems : Better(i, j, t) /\ Better(j, k, t) => Better(i, k, t)
<1> DEFINE o(i) == Order(i, t)
<1>1. \A i \in TopicItems : o(i)[6] = 0 - i /\ \A k \in 1..6 : o(i)[k] \in Int
  BY OrderIsInts
<1>2. \A i, j : Better(i, j, t) <=> \E k \in 1..6 : o(i)[k] > o(j)[k] /\ \A l \in 1..(k - 1) : o(i)[l] = o(j)[l]
  BY DEF Better
<1>3. TopicItems \subseteq Nat
  BY ItemTypes
<1> HIDE DEF o
<1>4. ASSUME NEW i \in TopicItems, NEW j \in TopicItems, i # j
      PROVE  \E k \in 1..6 : o(i)[k] # o(j)[k] /\ \A l \in 1..(k - 1) : o(i)[l] = o(j)[l]
  <2>1. o(i)[6] # o(j)[6]
    BY <1>1, <1>3, <1>4
  <2> DEFINE P(k) == o(i)[k] # o(j)[k] /\ \A l \in 1..(k - 1) : o(i)[l] = o(j)[l]
  <2>2. CASE o(i)[1] # o(j)[1]
    BY <2>2
  <2>3. CASE o(i)[1] = o(j)[1] /\ o(i)[2] # o(j)[2]
    <3>1. \A l \in 1..(2 - 1) : l = 1
      OBVIOUS
    <3> QED
      BY <2>3, <3>1
  <2>4. CASE o(i)[1] = o(j)[1] /\ o(i)[2] = o(j)[2] /\ o(i)[3] # o(j)[3]
    <3>1. \A l \in 1..(3 - 1) : l = 1 \/ l = 2
      OBVIOUS
    <3> QED
      BY <2>4, <3>1
  <2>5. CASE o(i)[1] = o(j)[1] /\ o(i)[2] = o(j)[2] /\ o(i)[3] = o(j)[3] /\ o(i)[4] # o(j)[4]
    <3>1. \A l \in 1..(4 - 1) : l = 1 \/ l = 2 \/ l = 3
      OBVIOUS
    <3> QED
      BY <2>5, <3>1
  <2>6. CASE o(i)[1] = o(j)[1] /\ o(i)[2] = o(j)[2] /\ o(i)[3] = o(j)[3] /\ o(i)[4] = o(j)[4] /\ o(i)[5] # o(j)[5]
    <3>1. \A l \in 1..(5 - 1) : l = 1 \/ l = 2 \/ l = 3 \/ l = 4
      OBVIOUS
    <3> QED
      BY <2>6, <3>1
  <2>7. CASE o(i)[1] = o(j)[1] /\ o(i)[2] = o(j)[2] /\ o(i)[3] = o(j)[3] /\ o(i)[4] = o(j)[4] /\ o(i)[5] = o(j)[5]
    <3>1. \A l \in 1..(6 - 1) : l = 1 \/ l = 2 \/ l = 3 \/ l = 4 \/ l = 5
      OBVIOUS
    <3> QED
      BY <2>1, <2>7, <3>1
  <2> QED
    BY <2>2, <2>3, <2>4, <2>5, <2>6, <2>7
<1>5. \A i, j \in TopicItems : i # j => Better(i, j, t) \/ Better(j, i, t)
  <2> SUFFICES ASSUME NEW i \in TopicItems, NEW j \in TopicItems, i # j PROVE Better(i, j, t) \/ Better(j, i, t)
    OBVIOUS
  <2>1. PICK k \in 1..6 : o(i)[k] # o(j)[k] /\ \A l \in 1..(k - 1) : o(i)[l] = o(j)[l]
    BY <1>4
  <2>2. o(i)[k] > o(j)[k] \/ o(j)[k] > o(i)[k]
    BY <1>1, <2>1
  <2> QED
    BY <1>2, <2>1, <2>2
<1>6. ASSUME NEW i \in TopicItems, NEW j \in TopicItems, Better(i, j, t), Better(j, i, t) PROVE FALSE
  <2>1. PICK k \in 1..6 : o(i)[k] > o(j)[k] /\ \A l \in 1..(k - 1) : o(i)[l] = o(j)[l]
    BY <1>2, <1>6
  <2>2. PICK m \in 1..6 : o(j)[m] > o(i)[m] /\ \A l \in 1..(m - 1) : o(j)[l] = o(i)[l]
    BY <1>2, <1>6
  <2>3. k < m \/ k = m \/ m < k
    OBVIOUS
  <2>4. /\ o(i)[k] \in Int /\ o(j)[k] \in Int /\ o(i)[m] \in Int /\ o(j)[m] \in Int
    BY <1>1
  <2>5. CASE k < m
    BY <2>1, <2>2, <2>4, <2>5
  <2>6. CASE m < k
    BY <2>1, <2>2, <2>4, <2>6
  <2> QED
    BY <2>1, <2>2, <2>3, <2>4, <2>5, <2>6
<1>7. ASSUME NEW h \in TopicItems, NEW i \in TopicItems, NEW j \in TopicItems, Better(h, i, t), Better(i, j, t) PROVE Better(h, j, t)
  <2>1. PICK k \in 1..6 : o(h)[k] > o(i)[k] /\ \A l \in 1..(k - 1) : o(h)[l] = o(i)[l]
    BY <1>2, <1>7
  <2>2. PICK m \in 1..6 : o(i)[m] > o(j)[m] /\ \A l \in 1..(m - 1) : o(i)[l] = o(j)[l]
    BY <1>2, <1>7
  <2>3. \A l \in 1..6 : o(h)[l] \in Int /\ o(i)[l] \in Int /\ o(j)[l] \in Int
    BY <1>1
  <2>4. CASE k < m
    <3>1. o(h)[k] > o(j)[k] /\ \A l \in 1..(k - 1) : o(h)[l] = o(j)[l]
      BY <2>1, <2>2, <2>3, <2>4
    <3> QED
      BY <1>2, <3>1
  <2>5. CASE ~(k < m)
    <3>1. o(h)[m] > o(j)[m] /\ \A l \in 1..(m - 1) : o(h)[l] = o(j)[l]
      BY <2>1, <2>2, <2>3, <2>5
    <3> QED
      BY <1>2, <3>1
  <2> QED
    BY <2>4, <2>5
<1> QED
  BY <1>5, <1>6, <1>7

\* Some items have one that the policy puts before all the others.
LEMMA WinnerIsBest ==
  ASSUME topic \in Topics, NEW t \in Nat, NEW S \in SUBSET TopicItems, S # {}
  PROVE  Winner(S, t) \in S /\ \A j \in S \ {Winner(S, t)} : Better(Winner(S, t), j, t)
<1> DEFINE Beating(i) == {j \in S : Better(j, i, t)}
           T == {Beating(i) : i \in S}
           Fewer == StrictSubsetOrdering(TopicItems)
<1>1. T \subseteq SUBSET TopicItems /\ T # {}
  OBVIOUS
<1>2. IsWellFoundedOn(Fewer, SUBSET TopicItems)
  BY ItemTypes, FS_StrictSubsetOrderingWellFounded, FS_FiniteSubsetsOfFinite
<1>3. PICK x \in T : \A y \in T : ~(<<y, x>> \in Fewer)
  <2> HIDE DEF T, Fewer
  <2> QED
    BY <1>1, <1>2, WFMin
<1>4. PICK i \in S : x = Beating(i)
  BY <1>3
<1>5. ASSUME NEW j \in S, Better(j, i, t) PROVE FALSE
  <2>1. Beating(j) \subseteq Beating(i) /\ j \in Beating(i) /\ j \notin Beating(j)
    BY <1>5, BetterIsOrder
  <2>2. <<Beating(j), x>> \in Fewer
    BY <1>4, <2>1 DEF StrictSubsetOrdering
  <2> QED
    BY <1>3, <2>2
<1>6. \A j \in S \ {i} : Better(i, j, t)
  BY <1>5, BetterIsOrder
<1> QED
  BY <1>6 DEF Winner

----------------------------------------------------------------------------
\* Arithmetic.

LEMMA ProductsGrow ==
  ASSUME NEW a \in Nat, NEW b \in Nat, NEW c \in Nat, a <= b
  PROVE  a * c <= b * c /\ c * a <= c * b /\ a * c \in Nat /\ b * c \in Nat /\ a * c = c * a
BY SMT

LEMMA DivBounds ==
  ASSUME NEW a \in Nat, NEW k \in Nat \ {0}
  PROVE  a \div k \in Nat /\ (a \div k) * k <= a /\ a < ((a \div k) + 1) * k
BY SMT

LEMMA DivLess ==
  ASSUME NEW a \in Nat, NEW k \in Nat \ {0}, NEW n \in Nat, a < n * k
  PROVE  a \div k < n
<1>1. a \div k \in Nat /\ (a \div k) * k <= a
  BY DivBounds
<1>2. ASSUME n <= a \div k PROVE FALSE
  <2>1. n * k <= (a \div k) * k
    BY <1>1, <1>2, ProductsGrow
  <2>2. n * k \in Nat /\ (a \div k) * k \in Nat
    BY <1>1, ProductsGrow
  <2> QED
    BY <1>1, <2>1, <2>2
<1> QED
  BY <1>1, <1>2

\* a / k <= b / m.
LEMMA DivMono ==
  ASSUME NEW a \in Nat, NEW b \in Nat, NEW k \in Nat \ {0}, NEW m \in Nat \ {0}, a * m <= b * k
  PROVE  a \div k <= b \div m
<1> DEFINE q == a \div k
           r == b \div m
<1>1. q \in Nat /\ q * k <= a /\ r \in Nat /\ b < (r + 1) * m
  BY DivBounds
<1> HIDE DEF q, r
<1>2. ASSUME r + 1 <= q PROVE FALSE
  <2>1. /\ (r + 1) * k <= q * k /\ (r + 1) * k \in Nat /\ q * k \in Nat
        /\ (r + 1) * m \in Nat /\ a * m \in Nat /\ b * k \in Nat
    BY <1>1, <1>2, ProductsGrow
  <2>2. (r + 1) * k <= a
    BY <1>1, <2>1
  <2>3. ((r + 1) * k) * m <= a * m
    BY <2>1, <2>2, ProductsGrow
  <2>4. b + 1 <= (r + 1) * m
    BY <1>1, <2>1
  <2>5. (b + 1) * k <= ((r + 1) * m) * k
    BY <2>1, <2>4, ProductsGrow
  <2>6. (b + 1) * k = b * k + k
    BY SMT
  <2>7. ((r + 1) * m) * k = ((r + 1) * k) * m
    BY <1>1, SMT
  <2>8. ((r + 1) * k) * m \in Nat
    BY <2>1, ProductsGrow
  <2> QED
    BY <2>1, <2>3, <2>5, <2>6, <2>7, <2>8
<1> QED
  BY <1>1, <1>2 DEF q, r

----------------------------------------------------------------------------
\* Confidence and its bounds.

\* The known items of S that say what w says.
Agreeing(S, w) == {i \in Known(S) : Item(i).value = Item(w).value}

LEMMA KnownSets ==
  ASSUME topic \in Topics, NEW S \in SUBSET TopicItems, NEW w
  PROVE  /\ IsFiniteSet(S) /\ IsFiniteSet(Known(S)) /\ IsFiniteSet(Agreeing(S, w))
         /\ Cardinality(S) \in Nat /\ Cardinality(Known(S)) \in Nat /\ Cardinality(Agreeing(S, w)) \in Nat
         /\ Cardinality(Agreeing(S, w)) <= Cardinality(Known(S))
         /\ Known(S) # {} => Cardinality(Known(S)) \in Nat \ {0}
<1>1. Agreeing(S, w) \in SUBSET Known(S) /\ Known(S) \in SUBSET S
  BY DEF Agreeing, Known
<1>2. IsFiniteSet(S)
  BY ItemTypes, FS_Subset
<1>3. IsFiniteSet(Known(S))
  BY <1>1, <1>2, FS_Subset
<1>4. IsFiniteSet(Agreeing(S, w)) /\ Cardinality(Agreeing(S, w)) <= Cardinality(Known(S))
  BY <1>1, <1>3, FS_Subset
<1> QED
  BY <1>2, <1>3, <1>4, FS_CardinalityType, FS_EmptySet

LEMMA AgreementBounds ==
  ASSUME topic \in Topics, NEW S \in SUBSET TopicItems, NEW w
  PROVE  /\ Agreement(S, w) \in 0..12
         /\ Known(S) # {} => Agreement(S, w) = (12 * Cardinality(Agreeing(S, w))) \div Cardinality(Known(S))
<1> DEFINE a == Cardinality(Agreeing(S, w))
           k == Cardinality(Known(S))
<1>1. CASE Known(S) = {}
  BY <1>1 DEF Agreement
<1>2. CASE Known(S) # {}
  <2>1. a \in Nat /\ k \in Nat \ {0} /\ a <= k
    BY <1>2, KnownSets
  <2>2. Agreement(S, w) = (12 * a) \div k
    BY <1>2 DEF Agreement, Agreeing
  <2> HIDE DEF a, k
  <2>3. 12 * a \in Nat /\ 12 * a < 13 * k
    BY <2>1
  <2>4. (12 * a) \div k \in Nat
    BY <2>1, <2>3, DivBounds
  <2>5. (12 * a) \div k < 13
    BY <2>1, <2>3, DivLess
  <2>6. Agreement(S, w) \in 0..12
    BY <2>2, <2>4, <2>5
  <2> QED
    BY <2>2, <2>6 DEF a, k
<1> QED
  BY <1>1, <1>2

LEMMA FreshnessBounds ==
  ASSUME topic \in Topics, NEW w \in TopicItems, NEW t \in Nat
  PROVE  Freshness(w, t) \in 0..12
<1> DEFINE age == t - Item(w).observed
<1>1. age \in Int /\ Window \in Nat \ {0}
  BY ItemTypes, DecisionConstants
<1>2. Freshness(w, t) = IF age <= 0 THEN 12 ELSE IF age >= Window THEN 0 ELSE (12 * (Window - age)) \div Window
  BY DEF Freshness
<1> HIDE DEF age
<1>3. CASE age > 0 /\ age < Window
  <2>1. 12 * (Window - age) \in Nat /\ 12 * (Window - age) < 13 * Window
    BY <1>1, <1>3
  <2>2. (12 * (Window - age)) \div Window \in Nat
    BY <1>1, <2>1, DivBounds
  <2>3. (12 * (Window - age)) \div Window < 13
    BY <1>1, <2>1, DivLess
  <2> QED
    BY <1>1, <1>2, <1>3, <2>2, <2>3
<1> QED
  BY <1>1, <1>2, <1>3

\* What a correlation may be worth.
Qualities == {70, 85, 100}

LEMMA QualityIsOne == ASSUME NEW group PROVE CorrelationQuality(group) \in Qualities
BY DEF CorrelationQuality, Qualities

LEMMA CommonBounds ==
  ASSUME topic \in Topics, NEW S \in SUBSET TopicItems, NEW w \in S, NEW t \in Nat, NEW q \in Qualities
  PROVE  Common(S, w, t, q) \in Nat /\ Common(S, w, t, q) <= 120000
<1>1. Item(w).source \in SourceTypes /\ Item(w).status \in {"VERIFIED_GATEWAY", "OBSERVED", "DERIVED", "INFERRED", "UNKNOWN"}
  BY ItemTypes
<1>2. SourceTrust(Item(w).source) \in 70..100 /\ StatusTrust(Item(w).status) \in 25..100
  BY <1>1, Trusts
<1>4. Agreement(S, w) \in 0..12 /\ Freshness(w, t) \in 0..12
  BY AgreementBounds, FreshnessBounds
<1> DEFINE bySource == SourceTrust(Item(w).source)
           byStatus == StatusTrust(Item(w).status)
           agreed == Agreement(S, w)
           fresh == Freshness(w, t)
<1>5. Common(S, w, t, q) = 12 * (30 * bySource + 25 * byStatus + 10 * q) + 2000 * agreed + 1500 * fresh
  BY DEF Common
<1>6. bySource \in 70..100 /\ byStatus \in 25..100 /\ q \in {70, 85, 100} /\ agreed \in 0..12 /\ fresh \in 0..12
  BY <1>2, <1>4 DEF Qualities
<1> HIDE DEF bySource, byStatus, agreed, fresh
<1>7. Common(S, w, t, q) \in Nat /\ Common(S, w, t, q) <= 120000
  BY <1>5, <1>6
<1> QED
  BY <1>7

\* Another correlation of the same evidence is worth a tenth of the difference.
LEMMA QualityCounts ==
  ASSUME topic \in Topics, NEW S \in SUBSET TopicItems, NEW w \in S, NEW t \in Nat,
         NEW q \in Qualities, NEW r \in Qualities
  PROVE  Common(S, w, t, r) = Common(S, w, t, q) + 120 * (r - q)
<1> DEFINE trust == 30 * SourceTrust(Item(w).source) + 25 * StatusTrust(Item(w).status)
           rest == 2000 * Agreement(S, w) + 1500 * Freshness(w, t)
<1>1. trust \in Nat
  <2>1. Item(w).source \in SourceTypes /\ Item(w).status \in {"VERIFIED_GATEWAY", "OBSERVED", "DERIVED", "INFERRED", "UNKNOWN"}
    BY ItemTypes
  <2>2. SourceTrust(Item(w).source) \in 70..100 /\ StatusTrust(Item(w).status) \in 25..100
    BY <2>1, Trusts
  <2> QED
    BY <2>2
<1>2. rest \in Nat
  <2>1. Agreement(S, w) \in 0..12 /\ Freshness(w, t) \in 0..12
    BY AgreementBounds, FreshnessBounds
  <2> QED
    BY <2>1
<1>3. \A x \in Qualities : Common(S, w, t, x) = 12 * (trust + 10 * x) + rest
  <2> SUFFICES ASSUME NEW x \in Qualities PROVE Common(S, w, t, x) = 12 * (trust + 10 * x) + rest
    OBVIOUS
  <2>1. Common(S, w, t, x) = 12 * (trust + 10 * x) + 2000 * Agreement(S, w) + 1500 * Freshness(w, t)
    BY DEF Common
  <2>2. Agreement(S, w) \in 0..12 /\ Freshness(w, t) \in 0..12
    BY AgreementBounds, FreshnessBounds
  <2>3. x \in Nat
    BY DEF Qualities
  <2> HIDE DEF trust
  <2> QED
    BY <1>1, <2>1, <2>2, <2>3
<1>4. q \in Nat /\ r \in Nat
  BY DEF Qualities
<1> HIDE DEF trust, rest
<1>5. Common(S, w, t, q) = 12 * (trust + 10 * q) + rest /\ Common(S, w, t, r) = 12 * (trust + 10 * r) + rest
  BY <1>3
<1> QED
  BY <1>1, <1>2, <1>4, <1>5

LEMMA CalculateBounds ==
  ASSUME topic \in Topics, NEW S \in SUBSET TopicItems, NEW w \in S, NEW t \in Nat, NEW q \in Qualities
  PROVE  /\ Calculate(S, w, t, q) \in Nat /\ Calculate(S, w, t, q) <= One
         /\ Calculate(S, w, t, q) <= Item(w).confidence * 120000
         /\ Calculate(S, w, t, q) <= 100 * Common(S, w, t, q)
<1> DEFINE c == Common(S, w, t, q)
           p == Item(w).confidence
<1>1. c \in Nat /\ c <= 120000 /\ p \in Nat /\ p <= 100
  <2>1. c \in Nat /\ c <= 120000
    BY CommonBounds
  <2>2. p \in 0..100
    BY ItemTypes
  <2> QED
    BY <2>1, <2>2
<1>2. Calculate(S, w, t, q) = IF IsML(Item(w).source) THEN (IF p * 1200 < c THEN p * 120000 ELSE 100 * c) ELSE c * p
  BY DEF Calculate
<1> HIDE DEF c, p
<1>3. c * p <= 120000 * p /\ c * p <= c * 100 /\ c * p \in Nat
  BY <1>1, ProductsGrow
<1>5. Calculate(S, w, t, q) \in Nat /\ Calculate(S, w, t, q) <= One /\ Calculate(S, w, t, q) <= p * 120000 /\ Calculate(S, w, t, q) <= 100 * c
  <2>1. CASE IsML(Item(w).source)
    <3>1. Calculate(S, w, t, q) = IF p * 1200 < c THEN p * 120000 ELSE 100 * c
      BY <1>2, <2>1
    <3> QED
      BY <1>1, <3>1 DEF One
  <2>2. CASE ~IsML(Item(w).source)
    <3>1. Calculate(S, w, t, q) = c * p
      BY <1>2, <2>2
    <3> QED
      BY <1>1, <1>3, <3>1 DEF One
  <2> QED
    BY <2>1, <2>2
<1> QED
  BY <1>5 DEF c, p

\* What makes more of the policy's factors never makes less of a conclusion, and
\* makes no more of it than it adds to them.
LEMMA CalculateMono ==
  ASSUME topic \in Topics, NEW S \in SUBSET TopicItems, NEW R \in SUBSET TopicItems, NEW w, w \in S, w \in R,
         NEW t \in Nat, NEW u \in Nat, NEW q \in Qualities, NEW r \in Qualities,
         NEW more \in Nat, Common(S, w, t, q) <= Common(R, w, u, r) + more
  PROVE  Calculate(S, w, t, q) <= Calculate(R, w, u, r) + 100 * more
<1> DEFINE c == Common(S, w, t, q)
           d == Common(R, w, u, r)
           p == Item(w).confidence
<1>1. c \in Nat /\ d \in Nat /\ c <= d + more /\ p \in Nat /\ p <= 100
  <2> HIDE DEF c, d, p
  <2>0. w \in TopicItems
    OBVIOUS
  <2>1. c \in Nat
    BY ONLY topic \in Topics, S \in SUBSET TopicItems, w \in S, t \in Nat, q \in Qualities, CommonBounds DEF c
  <2>3. d \in Nat
    BY ONLY topic \in Topics, R \in SUBSET TopicItems, w \in R, u \in Nat, r \in Qualities, CommonBounds DEF d
  <2>2. p \in 0..100
    BY <2>0, ItemTypes DEF p
  <2>4. c <= d + more
    BY DEF c, d
  <2> QED
    BY <2>1, <2>2, <2>3, <2>4
<1>2. /\ Calculate(S, w, t, q) = IF IsML(Item(w).source) THEN (IF p * 1200 < c THEN p * 120000 ELSE 100 * c) ELSE c * p
      /\ Calculate(R, w, u, r) = IF IsML(Item(w).source) THEN (IF p * 1200 < d THEN p * 120000 ELSE 100 * d) ELSE d * p
  BY DEF Calculate
<1> HIDE DEF c, d, p
<1>3. c * p <= d * p + 100 * more
  <2>1. c * p <= (d + more) * p
    BY <1>1, ProductsGrow
  <2>2. (d + more) * p = d * p + more * p
    BY <1>1, SMT
  <2>3. more * p <= more * 100 /\ more * p \in Nat
    BY <1>1, ProductsGrow
  <2>4. c * p \in Nat /\ d * p \in Nat
    BY <1>1, ProductsGrow
  <2> QED
    BY <2>1, <2>2, <2>3, <2>4
<1>4. CASE IsML(Item(w).source)
  <2>1. /\ Calculate(S, w, t, q) = IF p * 1200 < c THEN p * 120000 ELSE 100 * c
        /\ Calculate(R, w, u, r) = IF p * 1200 < d THEN p * 120000 ELSE 100 * d
    BY <1>2, <1>4
  <2> QED
    BY <1>1, <2>1
<1>5. CASE ~IsML(Item(w).source)
  BY <1>2, <1>3, <1>5
<1> QED
  BY <1>4, <1>5

\* Time takes freshness away.
LEMMA FreshnessFades ==
  ASSUME topic \in Topics, NEW w \in TopicItems, NEW t \in Nat
  PROVE  Freshness(w, t + 1) <= Freshness(w, t)
<1> DEFINE age == t - Item(w).observed
           older == (t + 1) - Item(w).observed
<1>1. age \in Int /\ older = age + 1 /\ Window \in Nat \ {0}
  BY ItemTypes, DecisionConstants
<1>2. /\ Freshness(w, t) = IF age <= 0 THEN 12 ELSE IF age >= Window THEN 0 ELSE (12 * (Window - age)) \div Window
      /\ Freshness(w, t + 1) = IF older <= 0 THEN 12 ELSE IF older >= Window THEN 0 ELSE (12 * (Window - older)) \div Window
  BY DEF Freshness
<1>3. Freshness(w, t) \in 0..12 /\ Freshness(w, t + 1) \in 0..12
  BY FreshnessBounds
<1> HIDE DEF age, older
<1>4. CASE age > 0 /\ older < Window
  <2> DEFINE a == 12 * (Window - older)
             b == 12 * (Window - age)
  <2>1. a \in Nat /\ b \in Nat /\ a <= b
    BY <1>1, <1>4
  <2> HIDE DEF a, b
  <2>2. a * Window <= b * Window
    BY <1>1, <2>1, ProductsGrow
  <2>3. a \div Window <= b \div Window
    BY <1>1, <2>1, <2>2, DivMono
  <2>4. ~(age <= 0) /\ ~(age >= Window) /\ ~(older <= 0) /\ ~(older >= Window)
    BY <1>1, <1>4
  <2> QED
    BY <1>2, <2>3, <2>4 DEF a, b
<1> QED
  BY <1>1, <1>2, <1>3, <1>4

LEMMA StatusPlace ==
  ASSUME NEW s \in {"VERIFIED_GATEWAY", "OBSERVED", "DERIVED", "INFERRED", "UNKNOWN"}
  PROVE  Place(s, Statuses) \in 1..5 /\ Statuses[Place(s, Statuses)] = s
<1>1. DOMAIN Statuses = 1..5 /\ \E k \in 1..5 : Statuses[k] = s
  <2>1. DOMAIN Statuses = 1..5
    BY DEF Statuses
  <2>2. /\ Statuses[1] = "VERIFIED_GATEWAY" /\ Statuses[2] = "OBSERVED" /\ Statuses[3] = "DERIVED"
        /\ Statuses[4] = "INFERRED" /\ Statuses[5] = "UNKNOWN"
    BY DEF Statuses
  <2>3. 1 \in 1..5 /\ 2 \in 1..5 /\ 3 \in 1..5 /\ 4 \in 1..5 /\ 5 \in 1..5
    OBVIOUS
  <2> QED
    BY <2>1, <2>2, <2>3
<1>2. Place(s, Statuses) = CHOOSE k \in DOMAIN Statuses : Statuses[k] = s
  BY <1>1 DEF Place
<1> QED
  BY <1>1, <1>2

\* Known evidence comes before unknown evidence, whatever its source.
LEMMA KnownWins ==
  ASSUME topic \in Topics, NEW w \in TopicItems, NEW i \in TopicItems, NEW t \in Nat,
         Better(w, i, t), Item(i).status # "UNKNOWN"
  PROVE  Item(w).status # "UNKNOWN"
<1> SUFFICES ASSUME Item(w).status = "UNKNOWN" PROVE FALSE
  OBVIOUS
<1>1. PICK k \in 1..6 : Order(w, t)[k] > Order(i, t)[k] /\ \A l \in 1..(k - 1) : Order(w, t)[l] = Order(i, t)[l]
  BY DEF Better
<1>2. Order(w, t)[1] = 0 - Place("UNKNOWN", Statuses) /\ Order(i, t)[1] = 0 - Place(Item(i).status, Statuses)
  BY DEF Order
<1>3. Item(i).status \in {"VERIFIED_GATEWAY", "OBSERVED", "DERIVED", "INFERRED", "UNKNOWN"}
  BY ItemTypes
<1>4. Place("UNKNOWN", Statuses) = 5
  <2>1. /\ Statuses[1] # "UNKNOWN" /\ Statuses[2] # "UNKNOWN" /\ Statuses[3] # "UNKNOWN" /\ Statuses[4] # "UNKNOWN"
    BY DEF Statuses
  <2>2. Place("UNKNOWN", Statuses) \in 1..5 /\ Statuses[Place("UNKNOWN", Statuses)] = "UNKNOWN"
    BY StatusPlace
  <2> QED
    BY <2>1, <2>2
<1>5. Place(Item(i).status, Statuses) \in 1..4
  <2>1. Statuses[5] = "UNKNOWN"
    BY DEF Statuses
  <2>2. Place(Item(i).status, Statuses) \in 1..5 /\ Statuses[Place(Item(i).status, Statuses)] = Item(i).status
    BY <1>3, StatusPlace
  <2> QED
    BY <2>1, <2>2
<1>6. Order(w, t)[1] < Order(i, t)[1] /\ Order(w, t)[1] \in Int /\ Order(i, t)[1] \in Int
  BY <1>2, <1>4, <1>5
<1>7. k = 1 \/ 1 \in 1..(k - 1)
  OBVIOUS
<1> QED
  BY <1>1, <1>6, <1>7

\* What the arrival of a known item does to agreement.
LEMMA AgreementChanges ==
  ASSUME topic \in Topics, NEW S \in SUBSET TopicItems, NEW w \in S, NEW i \in TopicItems \ S,
         Item(i).status # "UNKNOWN", Item(w).status # "UNKNOWN"
  PROVE  /\ Item(i).value = Item(w).value => Agreement(S, w) <= Agreement(S \cup {i}, w)
         /\ Item(i).value # Item(w).value => Agreement(S \cup {i}, w) <= Agreement(S, w)
<1> DEFINE R == S \cup {i}
           a == Cardinality(Agreeing(S, w))
           k == Cardinality(Known(S))
           b == Cardinality(Agreeing(R, w))
           m == Cardinality(Known(R))
<1>1. R \in SUBSET TopicItems /\ w \in R
  OBVIOUS
<1>2. w \in Known(S) /\ w \in Known(R)
  BY DEF Known
<1>3. /\ a \in Nat /\ k \in Nat \ {0} /\ a <= k /\ b \in Nat /\ m \in Nat \ {0} /\ b <= m
      /\ IsFiniteSet(Known(S)) /\ IsFiniteSet(Agreeing(S, w))
  BY <1>1, <1>2, KnownSets
<1>4. Agreement(S, w) = (12 * a) \div k /\ Agreement(R, w) = (12 * b) \div m
  BY <1>1, <1>2, AgreementBounds
<1>5. m = k + 1
  <2>1. Known(R) = Known(S) \cup {i} /\ i \notin Known(S)
    BY DEF Known
  <2> QED
    BY <1>3, <2>1, FS_AddElement
<1>6. Item(i).value = Item(w).value => b = a + 1
  <2>1. ASSUME Item(i).value = Item(w).value PROVE b = a + 1
    <3>1. Agreeing(R, w) = Agreeing(S, w) \cup {i} /\ i \notin Agreeing(S, w)
      BY <2>1 DEF Agreeing, Known
    <3> QED
      BY <1>3, <3>1, FS_AddElement
  <2> QED
    BY <2>1
<1>7. Item(i).value # Item(w).value => b = a
  <2>1. ASSUME Item(i).value # Item(w).value PROVE Agreeing(R, w) = Agreeing(S, w)
    BY <2>1 DEF Agreeing, Known
  <2> QED
    BY <2>1
<1> HIDE DEF R, a, b, k, m
<1>9. ASSUME b = a + 1 PROVE Agreement(S, w) <= Agreement(R, w)
  <2>1. 12 * a \in Nat /\ 12 * b \in Nat
    BY <1>3
  <2>2. (12 * a) * m <= (12 * b) * k
    <3>1. (12 * a) * m = 12 * (a * k) + 12 * a
      BY <1>3, <1>5, SMT
    <3>2. (12 * b) * k = 12 * (a * k) + 12 * k
      BY <1>3, <1>9, SMT
    <3>3. a * k \in Nat
      BY <1>3, ProductsGrow
    <3> QED
      BY <1>3, <3>1, <3>2, <3>3
  <2> QED
    BY <1>3, <1>4, <2>1, <2>2, DivMono
<1>10. ASSUME b = a PROVE Agreement(R, w) <= Agreement(S, w)
  <2>1. 12 * a \in Nat /\ 12 * b \in Nat /\ k \in Nat /\ m \in Nat /\ k <= m
    BY <1>3, <1>5
  <2>2. (12 * a) * k <= (12 * a) * m
    BY <2>1, ProductsGrow
  <2>3. (12 * b) * k <= (12 * a) * m
    BY <1>10, <2>2
  <2> QED
    BY <1>3, <1>4, <2>1, <2>3, DivMono
<1> QED
  BY <1>6, <1>7, <1>9, <1>10 DEF R

\* Known evidence for a conclusion never makes it less sure, known evidence
\* against it never surer, when the correlation is the same.
LEMMA DissentCosts ==
  ASSUME topic \in Topics, NEW S \in SUBSET TopicItems, NEW w \in S, NEW i \in TopicItems \ S, NEW t \in Nat,
         NEW q \in Qualities, Item(i).status # "UNKNOWN", Item(w).status # "UNKNOWN"
  PROVE  /\ Item(i).value = Item(w).value => Common(S, w, t, q) <= Common(S \cup {i}, w, t, q)
         /\ Item(i).value # Item(w).value => Common(S \cup {i}, w, t, q) <= Common(S, w, t, q)
<1> DEFINE R == S \cup {i}
           trust == 30 * SourceTrust(Item(w).source) + 25 * StatusTrust(Item(w).status)
           fresh == Freshness(w, t)
           a == Agreement(S, w)
           b == Agreement(R, w)
<1>1. R \in SUBSET TopicItems /\ w \in R /\ w \in TopicItems
  OBVIOUS
<1>2. trust \in Nat
  <2>1. Item(w).source \in SourceTypes /\ Item(w).status \in {"VERIFIED_GATEWAY", "OBSERVED", "DERIVED", "INFERRED", "UNKNOWN"}
    BY <1>1, ItemTypes
  <2>2. SourceTrust(Item(w).source) \in 70..100 /\ StatusTrust(Item(w).status) \in 25..100
    BY <2>1, Trusts
  <2> QED
    BY <2>2
<1>3. fresh \in 0..12 /\ a \in 0..12 /\ b \in 0..12 /\ q \in Nat
  BY <1>1, AgreementBounds, FreshnessBounds DEF Qualities
<1>4. /\ Common(S, w, t, q) = 12 * (trust + 10 * q) + 2000 * a + 1500 * fresh
      /\ Common(R, w, t, q) = 12 * (trust + 10 * q) + 2000 * b + 1500 * fresh
  BY DEF Common
<1>5. /\ Item(i).value = Item(w).value => a <= b
      /\ Item(i).value # Item(w).value => b <= a
  BY AgreementChanges
<1> HIDE DEF R, trust, fresh, a, b
<1> QED
  BY <1>2, <1>3, <1>4, <1>5 DEF R

----------------------------------------------------------------------------
\* The conclusion stored last is the one the policy makes of the evidence.

DecidedBy(S, t, c) ==
  /\ c.quality \in Qualities
  /\ IF S = {} THEN c = NothingConcluded
     ELSE /\ c.winner \in S /\ \A j \in S \ {c.winner} : Better(c.winner, j, t)
          /\ c.value = Item(c.winner).value /\ c.confidence = Calculate(S, c.winner, t, c.quality)

LEMMA ConclusionDecides ==
  ASSUME topic \in Topics, NEW S \in SUBSET TopicItems, NEW t \in Nat, NEW q \in Qualities
  PROVE  DecidedBy(S, t, Conclusion(S, t, q))
<1>1. CASE S = {}
  <2>1. NothingConcluded.quality \in Qualities
    BY DEF NothingConcluded, Qualities
  <2> QED
    BY <1>1, <2>1 DEF Conclusion, DecidedBy
<1>2. CASE S # {}
  <2> DEFINE w == Winner(S, t)
  <2>1. w \in S /\ \A j \in S \ {w} : Better(w, j, t)
    BY <1>2, WinnerIsBest
  <2> HIDE DEF w
  <2>2. Conclusion(S, t, q) = [winner |-> w, value |-> Item(w).value, confidence |-> Calculate(S, w, t, q),
                               band |-> Band(Calculate(S, w, t, q)), quality |-> q]
    BY <1>2 DEF Conclusion, w
  <2>3. /\ Conclusion(S, t, q).winner = w /\ Conclusion(S, t, q).value = Item(w).value
        /\ Conclusion(S, t, q).confidence = Calculate(S, w, t, q) /\ Conclusion(S, t, q).quality = q
    BY <2>2
  <2> QED
    BY <1>2, <2>1, <2>3 DEF DecidedBy
<1> QED
  BY <1>1, <1>2

\* The topic decides what the operators mean, and never changes.
LEMMA SameTopic ==
  ASSUME topic' = topic, NEW S, NEW w, NEW t, NEW q, NEW c
  PROVE  /\ TopicItems' = TopicItems /\ Item(w)' = Item(w) /\ Common(S, w, t, q)' = Common(S, w, t, q)
         /\ DecidedBy(S, t, c)' <=> DecidedBy(S, t, c)
<1>1. \A i : Item(i)' = Item(i)
  BY DEF Item
<1>2. \A i : SeenAt(i, t)' = SeenAt(i, t)
  BY <1>1 DEF SeenAt
<1>3. \A i : Order(i, t)' = Order(i, t)
  BY <1>1, <1>2 DEF Order
<1>4. \A i, j : Better(i, j, t)' <=> Better(i, j, t)
  BY <1>3 DEF Better
<1>5. Known(S)' = Known(S)
  BY <1>1 DEF Known
<1>6. \A i : Agreement(S, i)' = Agreement(S, i)
  BY <1>1, <1>5 DEF Agreement
<1>7. \A i : Freshness(i, t)' = Freshness(i, t)
  BY <1>1 DEF Freshness
<1>9. \A i, x : Common(S, i, t, x)' = Common(S, i, t, x)
  BY <1>1, <1>6, <1>7 DEF Common
<1>10. \A i, x : Calculate(S, i, t, x)' = Calculate(S, i, t, x)
  BY <1>1, <1>9 DEF Calculate
<1>11. DecidedBy(S, t, c)' <=> DecidedBy(S, t, c)
  BY <1>1, <1>4, <1>10 DEF DecidedBy
<1> QED
  BY <1>1, <1>9, <1>11 DEF TopicItems

DecisionInv ==
  /\ topic \in Topics /\ clock \in 0..Latest /\ present \subseteq TopicItems
  /\ DecidedBy(present, clock, concluded)

\* What a step of the specification is.
\* Every computation concludes with one of the qualities.
LEMMA ComputeConcludes ==
  ASSUME NEW S, NEW t, Compute(S, t)
  PROVE  \E q \in Qualities : concluded' = Conclusion(S, t, q)
BY QualityIsOne DEF Compute

\* What a step does to the evidence and the clock, and what it concludes.
LEMMA DecisionSteps ==
  ASSUME DecisionInv, [DecisionNext]_decisionVars
  PROVE  /\ topic' = topic /\ clock' \in 0..Latest /\ present' \subseteq TopicItems
         /\ \/ UNCHANGED decisionVars
            \/ /\ clock' = clock
               /\ \E i \in TopicItems :
                    \/ i \notin present /\ present' = present \cup {i}
                    \/ i \in present /\ present' = present \ {i}
            \/ clock' \in {clock, clock + 1} /\ present' = present
         /\ UNCHANGED decisionVars \/ \E q \in Qualities : concluded' = Conclusion(present', clock', q)
<1> USE DEF DecisionInv
<1>1. CASE UNCHANGED decisionVars
  BY <1>1 DEF decisionVars
<1>2. ASSUME NEW i \in TopicItems, Arrive(i) \/ Withdraw(i)
      PROVE  /\ topic' = topic /\ clock' = clock
             /\ present' \subseteq TopicItems
             /\ \/ i \notin present /\ present' = present \cup {i}
                \/ i \in present /\ present' = present \ {i}
             /\ \E q \in Qualities : concluded' = Conclusion(present', clock', q)
  <2>1. CASE Arrive(i)
    <3>1. i \notin present /\ present' = present \cup {i} /\ topic' = topic /\ clock' = clock /\ Compute(present \cup {i}, clock)
      BY <2>1 DEF Arrive, Evidence
    <3> QED
      BY <3>1, ComputeConcludes
  <2>2. CASE Withdraw(i)
    <3>1. i \in present /\ present' = present \ {i} /\ topic' = topic /\ clock' = clock /\ Compute(present \ {i}, clock)
      BY <2>2 DEF Withdraw, Evidence
    <3> QED
      BY <3>1, ComputeConcludes
  <2> QED
    BY <1>2, <2>1, <2>2
<1>3. CASE ComputeAgain
  <2>1. /\ topic' = topic /\ present' = present /\ clock' \in {clock, clock + 1} /\ clock' <= Latest
        /\ Compute(present, clock')
    BY <1>3 DEF ComputeAgain
  <2>2. clock' \in 0..Latest
    BY <2>1, DecisionConstants
  <2>3. PICK u : u = clock'
    OBVIOUS
  <2>4. \E q \in Qualities : concluded' = Conclusion(present, u, q)
    BY <2>1, <2>3, QualityIsOne DEF Compute
  <2> QED
    BY <2>1, <2>2, <2>3, <2>4
<1>4. DecisionNext => ComputeAgain \/ \E i \in TopicItems : Arrive(i) \/ Withdraw(i)
  BY DEF DecisionNext, TopicItems
<1> QED
  BY <1>1, <1>2, <1>3, <1>4

LEMMA DecisionInductive == DecisionInv /\ [DecisionNext]_decisionVars => DecisionInv'
<1> SUFFICES ASSUME DecisionInv, [DecisionNext]_decisionVars PROVE DecisionInv'
  OBVIOUS
<1>1. CASE UNCHANGED decisionVars
  <2>1. /\ topic' = topic /\ present' = present /\ clock' = clock /\ concluded' = concluded
    BY <1>1 DEF decisionVars
  <2>2. DecidedBy(present, clock, concluded)' <=> DecidedBy(present, clock, concluded)
    <3>1. PICK S, t, c : S = present /\ t = clock /\ c = concluded
      OBVIOUS
    <3>2. DecidedBy(S, t, c)' <=> DecidedBy(S, t, c)
      BY <2>1, SameTopic
    <3>3. DecidedBy(present, clock, concluded)' <=> DecidedBy(S, t, c)'
      BY <2>1, <3>1
    <3> QED
      BY <3>1, <3>2, <3>3
  <2>3. TopicItems' = TopicItems
    BY <2>1, SameTopic
  <2> QED
    BY <2>1, <2>2, <2>3 DEF DecisionInv
<1>2. CASE \E q \in Qualities : concluded' = Conclusion(present', clock', q)
  <2>1. topic' = topic /\ clock' \in 0..Latest /\ present' \subseteq TopicItems
    BY DecisionSteps
  <2>2. PICK S, t, c : S = present' /\ t = clock' /\ c = concluded'
    OBVIOUS
  <2>3. DecidedBy(S, t, c)
    <3>1. topic \in Topics /\ S \in SUBSET TopicItems /\ t \in Nat
      BY <2>1, <2>2, DecisionConstants DEF DecisionInv
    <3>2. PICK q \in Qualities : c = Conclusion(S, t, q)
      BY <1>2, <2>2
    <3> QED
      BY <3>1, <3>2, ConclusionDecides
  <2>4. DecidedBy(S, t, c)'
    BY <2>1, <2>3, SameTopic
  <2>5. DecidedBy(present, clock, concluded)'
    BY <2>2, <2>4
  <2>6. TopicItems' = TopicItems
    BY <2>1, SameTopic
  <2> QED
    BY <2>1, <2>5, <2>6 DEF DecisionInv
<1> QED
  BY <1>1, <1>2, DecisionSteps

LEMMA DecisionInvariance == DecisionSpec => []DecisionInv
<1>1. DecisionInit => DecisionInv
  <2>1. NothingConcluded.quality \in Qualities
    BY DEF NothingConcluded, Qualities
  <2> QED
    BY <2>1, DecisionConstants DEF DecisionInit, DecisionInv, DecidedBy
<1> QED
  BY <1>1, DecisionInductive, PTL DEF DecisionSpec

LEMMA DecidedTypes ==
  ASSUME DecisionInv
  PROVE  /\ concluded.winner \in present \cup {0}
         /\ concluded.confidence \in Nat /\ concluded.confidence <= One
         /\ concluded.winner # 0 <=> present # {}
         /\ concluded.quality \in Qualities
<1>0. concluded.quality \in Qualities
  BY DEF DecisionInv, DecidedBy
<1>1. topic \in Topics /\ present \in SUBSET TopicItems /\ clock \in Nat /\ 0 \notin TopicItems
  BY ItemTypes, DecisionConstants DEF DecisionInv
<1>2. CASE present = {}
  <2>1. concluded.winner = 0 /\ concluded.confidence = 0
    <3>1. concluded = NothingConcluded
      BY <1>2 DEF DecisionInv, DecidedBy
    <3>2. NothingConcluded.winner = 0 /\ NothingConcluded.confidence = 0
      BY DEF NothingConcluded
    <3> QED
      BY <3>1, <3>2
  <2>2. 0 <= One
    BY SMT DEF One
  <2> QED
    BY <1>0, <1>2, <2>1, <2>2
<1>3. CASE present # {}
  <2>1. concluded.winner \in present /\ concluded.confidence = Calculate(present, concluded.winner, clock, concluded.quality)
    BY <1>3 DEF DecisionInv, DecidedBy
  <2>2. Calculate(present, concluded.winner, clock, concluded.quality) \in Nat /\ Calculate(present, concluded.winner, clock, concluded.quality) <= One
    BY <1>0, <1>1, <2>1, CalculateBounds
  <2> QED
    BY <1>0, <1>1, <1>3, <2>1, <2>2
<1> QED
  BY <1>2, <1>3

\* Every variable of the choice of evidence keeps its type: confidence stays within
\* its limits.
THEOREM DecisionTypes == DecisionSpec => []DecisionTypeOK
<1>1. ASSUME DecisionInv PROVE DecisionTypeOK
  <2>1. concluded.winner \in present \cup {0}
    BY <1>1, DecidedTypes
  <2>2. concluded.confidence \in 0..One
    <3>1. concluded.confidence \in Nat /\ concluded.confidence <= One /\ One \in Nat
      BY <1>1, DecidedTypes DEF One
    <3> QED
      BY <3>1
  <2>3. concluded.quality \in {70, 85, 100}
    BY <1>1, DecidedTypes DEF Qualities
  <2> QED
    BY <1>1, <2>1, <2>2, <2>3 DEF DecisionInv, DecisionTypeOK, TopicItems
<1> QED
  BY <1>1, DecisionInvariance, PTL

\* A conclusion is never surer than its winner, nor than what agreement, age and
\* the policy's trust allow.
THEOREM NeverSurer == DecisionSpec => []NeverSurerThanEvidence
<1>1. ASSUME DecisionInv PROVE NeverSurerThanEvidence
  <2> SUFFICES ASSUME concluded.winner # 0
               PROVE  /\ concluded.confidence <= Item(concluded.winner).confidence * 120000
                      /\ concluded.confidence <= 100 * Common(present, concluded.winner, clock, concluded.quality)
    BY DEF NeverSurerThanEvidence
  <2>1. present # {} /\ topic \in Topics /\ present \in SUBSET TopicItems /\ clock \in Nat
    BY <1>1, DecidedTypes, DecisionConstants DEF DecisionInv
  <2>2. concluded.quality \in Qualities /\ concluded.winner \in present /\ concluded.confidence = Calculate(present, concluded.winner, clock, concluded.quality)
    BY <1>1, <2>1 DEF DecisionInv, DecidedBy
  <2> QED
    BY <2>1, <2>2, CalculateBounds
<1> QED
  BY <1>1, DecisionInvariance, PTL

\* The winner changes only when the winner leaves or the newcomer is better.
LEMMA LosersDecide ==
  ASSUME DecisionInv, DecisionInv', [DecisionNext]_decisionVars,
         clock' = clock, concluded.winner # 0
  PROVE  /\ present' = present \ {concluded.winner} \/ concluded'.winner \in {concluded.winner} \cup (present' \ present)
         /\ concluded'.winner = concluded.winner => concluded'.value = concluded.value
<1> DEFINE w == concluded.winner
           v == concluded'.winner
<1>1. topic \in Topics /\ present \in SUBSET TopicItems /\ present' \in SUBSET TopicItems /\ clock \in Nat /\ clock' = clock
  BY DecisionSteps, DecisionConstants DEF DecisionInv
<1>2. w \in present /\ (\A j \in present \ {w} : Better(w, j, clock)) /\ concluded.value = Item(w).value
  BY DecidedTypes DEF DecisionInv, DecidedBy
<1>3. CASE UNCHANGED decisionVars
  BY <1>3 DEF decisionVars
<1>4. CASE ~ UNCHANGED decisionVars
  <2>1. PICK q \in Qualities : concluded' = Conclusion(present', clock, q)
    BY <1>1, <1>4, DecisionSteps
  <2>2. PICK S, c : S \in SUBSET TopicItems /\ S = present' /\ c = concluded'
    BY <1>1
  <2>3. DecidedBy(S, clock, c)
    BY <1>1, <2>1, <2>2, ConclusionDecides
  <2>4. CASE present' = {}
    <3>1. w \notin present' /\ \A j \in present : j = w
      <4>1. \E i \in TopicItems : present' = present \ {i}
        BY <1>1, <1>2, <1>4, <2>4, DecisionSteps
      <4> QED
        BY <1>2, <2>4, <4>1
    <3>2. present' = present \ {w}
      BY <2>4, <3>1
    <3>3. c.winner = 0
      <4>1. c = NothingConcluded
        BY <2>2, <2>3, <2>4 DEF DecidedBy
      <4>2. NothingConcluded.winner = 0
        BY DEF NothingConcluded
      <4> QED
        BY <4>1, <4>2
    <3> QED
      BY <2>2, <3>2, <3>3
  <2>5. CASE present' # {}
    <3>1. v \in present' /\ (\A j \in present' \ {v} : Better(v, j, clock)) /\ concluded'.value = Item(v).value
      BY <2>2, <2>3, <2>5 DEF DecidedBy
    <3>2. CASE w \in present'
      <4>1. v \in present => v = w
        <5> SUFFICES ASSUME v \in present, v # w PROVE FALSE
          OBVIOUS
        <5>1. Better(v, w, clock) /\ Better(w, v, clock)
          BY <1>2, <3>1, <3>2
        <5> QED
          BY <1>1, <1>2, <5>1, BetterIsOrder
      <4> QED
        BY <1>2, <3>1, <4>1
    <3>3. CASE w \notin present'
      <4>1. present' = present \ {w}
        BY <1>1, <1>2, <1>4, <3>3, DecisionSteps
      <4>2. v # w
        BY <3>1, <3>3
      <4> QED
        BY <4>1, <4>2
    <3> QED
      BY <3>2, <3>3
  <2> QED
    BY <2>4, <2>5
<1> QED
  BY <1>3, <1>4

\* What a step does to the confidence in a winner that stays.
LEMMA SameWinner ==
  ASSUME DecisionInv, [DecisionNext]_decisionVars, ~ UNCHANGED decisionVars,
         concluded'.winner = concluded.winner, concluded.winner # 0
  PROVE  /\ concluded.winner \in present /\ concluded.winner \in present'
         /\ concluded.quality \in Qualities /\ concluded'.quality \in Qualities
         /\ concluded.confidence = Calculate(present, concluded.winner, clock, concluded.quality)
         /\ concluded'.confidence = Calculate(present', concluded.winner, clock', concluded'.quality)
<1>1. topic \in Topics /\ present \in SUBSET TopicItems /\ present' \in SUBSET TopicItems /\ clock' \in Nat
  BY DecisionSteps, DecisionConstants DEF DecisionInv
<1>2. present # {}
  BY DecidedTypes
<1>3. /\ concluded.winner \in present /\ concluded.quality \in Qualities
      /\ concluded.confidence = Calculate(present, concluded.winner, clock, concluded.quality)
  BY <1>2 DEF DecisionInv, DecidedBy
<1>4. PICK S, t, c : S \in SUBSET TopicItems /\ t \in Nat /\ S = present' /\ t = clock' /\ c = concluded'
  BY <1>1
<1>5. DecidedBy(S, t, c)
  <2>1. PICK q \in Qualities : c = Conclusion(S, t, q)
    BY <1>4, DecisionSteps
  <2> QED
    BY <1>1, <1>4, <2>1, ConclusionDecides
<1>6. S # {}
  <2>1. NothingConcluded.winner = 0
    BY DEF NothingConcluded
  <2> QED
    BY <1>4, <1>5, <2>1 DEF DecidedBy
<1>7. c.winner \in S /\ c.quality \in Qualities /\ c.confidence = Calculate(S, c.winner, t, c.quality)
  BY <1>5, <1>6 DEF DecidedBy
<1> QED
  BY <1>3, <1>4, <1>7

\* What a correlation r is worth more than q, in the sum of the factors.
Worth(q, r) == IF r > q THEN 120 * (r - q) ELSE 0

LEMMA GainIsWorth ==
  ASSUME NEW c, NEW d, c.quality \in Qualities, d.quality \in Qualities
  PROVE  Worth(c.quality, d.quality) \in Nat /\ CorrelationGain(c, d) = 100 * Worth(c.quality, d.quality)
<1>1. PICK q \in Qualities, r \in Qualities : q = c.quality /\ r = d.quality
  OBVIOUS
<1>2. q \in Nat /\ r \in Nat
  BY DEF Qualities
<1>3. CorrelationGain(c, d) = IF r > q THEN 12000 * (r - q) ELSE 0
  BY <1>1 DEF CorrelationGain
<1>4. Worth(q, r) \in Nat /\ CorrelationGain(c, d) = 100 * Worth(q, r)
  BY <1>2, <1>3 DEF Worth
<1> QED
  BY <1>1, <1>4

\* Factors that are worth no more with one correlation are worth at most the
\* difference more with another.
LEMMA WorthBounds ==
  ASSUME topic \in Topics, NEW S \in SUBSET TopicItems, NEW R \in SUBSET TopicItems, NEW w, w \in S, w \in R,
         NEW t \in Nat, NEW u \in Nat, NEW q \in Qualities, NEW r \in Qualities,
         Common(R, w, u, q) <= Common(S, w, t, q)
  PROVE  Calculate(R, w, u, r) <= Calculate(S, w, t, q) + 100 * Worth(q, r)
<1>1. Common(R, w, u, r) = Common(R, w, u, q) + 120 * (r - q)
  BY QualityCounts
<1>2. Common(S, w, t, q) \in Nat /\ Common(R, w, u, q) \in Nat /\ q \in Nat /\ r \in Nat
  <2>1. Common(S, w, t, q) \in Nat
    BY CommonBounds
  <2>2. Common(R, w, u, q) \in Nat
    BY CommonBounds
  <2> QED
    BY <2>1, <2>2 DEF Qualities
<1>3. Worth(q, r) \in Nat /\ Common(R, w, u, r) <= Common(S, w, t, q) + Worth(q, r)
  BY <1>1, <1>2 DEF Worth
<1> QED
  BY <1>3, CalculateMono

LEMMA AgeCosts ==
  ASSUME DecisionInv, [DecisionNext]_decisionVars, present' = present, concluded'.winner = concluded.winner
  PROVE  concluded'.confidence <= concluded.confidence + CorrelationGain(concluded, concluded')
<1>1. topic \in Topics /\ present \in SUBSET TopicItems /\ clock \in Nat
  BY DecisionConstants DEF DecisionInv
<1>2. ASSUME concluded' = concluded
      PROVE  concluded'.confidence <= concluded.confidence + CorrelationGain(concluded, concluded')
  <2>1. concluded.confidence \in Nat /\ concluded.quality \in Qualities
    BY DecidedTypes
  <2>2. CorrelationGain(concluded, concluded) \in Nat
    <3>1. PICK c : c = concluded
      OBVIOUS
    <3>2. Worth(c.quality, c.quality) \in Nat /\ CorrelationGain(c, c) = 100 * Worth(c.quality, c.quality)
      BY <2>1, <3>1, GainIsWorth
    <3> QED
      BY <3>1, <3>2
  <2>3. CorrelationGain(concluded, concluded') = CorrelationGain(concluded, concluded)
    BY <1>2
  <2> QED
    BY <1>2, <2>1, <2>2, <2>3
<1>3. CASE concluded.winner = 0
  <2>1. present = {}
    BY <1>3, DecidedTypes
  <2>2. concluded' = concluded
    <3>1. concluded = NothingConcluded
      BY <2>1 DEF DecisionInv, DecidedBy
    <3>2. UNCHANGED decisionVars \/ concluded' = NothingConcluded
      BY <2>1, DecisionSteps DEF Conclusion
    <3> QED
      BY <3>1, <3>2 DEF decisionVars
  <2> QED
    BY <1>2, <2>2
<1>4. CASE ~ UNCHANGED decisionVars /\ concluded.winner # 0
  <2>1. PICK w, u, q, r : w = concluded.winner /\ u = clock' /\ q = concluded.quality /\ r = concluded'.quality
    OBVIOUS
  <2>2. /\ w \in present /\ q \in Qualities /\ r \in Qualities
        /\ concluded.confidence = Calculate(present, w, clock, q) /\ concluded'.confidence = Calculate(present, w, u, r)
    BY <1>4, <2>1, SameWinner
  <2>3. u \in Nat /\ Freshness(w, u) <= Freshness(w, clock) /\ Freshness(w, u) \in 0..12 /\ Freshness(w, clock) \in 0..12
    <3>1. u \in {clock, clock + 1}
      BY <1>1, <1>4, <2>1, DecisionSteps
    <3>2. Freshness(w, clock) \in 0..12 /\ Freshness(w, clock + 1) <= Freshness(w, clock)
      BY <1>1, <2>2, FreshnessFades, FreshnessBounds
    <3>3. u \in Nat
      BY <1>1, <3>1
    <3>4. Freshness(w, u) \in 0..12
      BY <1>1, <2>2, <3>3, FreshnessBounds
    <3> QED
      BY <3>1, <3>2, <3>3, <3>4
  <2>4. Common(present, w, u, q) <= Common(present, w, clock, q)
    <3> DEFINE rest == 12 * (30 * SourceTrust(Item(w).source) + 25 * StatusTrust(Item(w).status) + 10 * q)
                       + 2000 * Agreement(present, w)
    <3>1. rest \in Int
      <4>1. Item(w).source \in SourceTypes /\ Item(w).status \in {"VERIFIED_GATEWAY", "OBSERVED", "DERIVED", "INFERRED", "UNKNOWN"}
        BY <1>1, <2>2, ItemTypes
      <4>2. SourceTrust(Item(w).source) \in 70..100 /\ StatusTrust(Item(w).status) \in 25..100
        BY <4>1, Trusts
      <4>3. q \in {70, 85, 100}
        BY <2>2 DEF Qualities
      <4>4. Agreement(present, w) \in 0..12
        BY <1>1, <2>2, AgreementBounds
      <4>5. /\ 30 * SourceTrust(Item(w).source) \in Int /\ 25 * StatusTrust(Item(w).status) \in Int
            /\ 10 * q \in Int /\ 2000 * Agreement(present, w) \in Int
        BY <4>2, <4>3, <4>4
      <4> QED
        BY <4>5
    <3>2. /\ Common(present, w, u, q) = rest + 1500 * Freshness(w, u)
          /\ Common(present, w, clock, q) = rest + 1500 * Freshness(w, clock)
      BY DEF Common
    <3> HIDE DEF rest
    <3> QED
      BY <2>3, <3>1, <3>2
  <2>5. Calculate(present, w, u, r) <= Calculate(present, w, clock, q) + 100 * Worth(q, r)
    BY <1>1, <2>2, <2>3, <2>4, WorthBounds
  <2>6. CorrelationGain(concluded, concluded') = 100 * Worth(q, r)
    BY <2>1, <2>2, GainIsWorth
  <2> QED
    BY <2>2, <2>5, <2>6
<1> QED
  BY <1>2, <1>3, <1>4 DEF decisionVars

LEMMA DissentCannotHelp ==
  ASSUME DecisionInv, [DecisionNext]_decisionVars, NEW i \in present' \ present,
         present # {}, concluded'.winner = concluded.winner, Item(i).status # "UNKNOWN"
  PROVE  IF Item(i).value = concluded.value
         THEN concluded.confidence <= concluded'.confidence + CorrelationGain(concluded', concluded)
         ELSE concluded'.confidence <= concluded.confidence + CorrelationGain(concluded, concluded')
<1>1. topic \in Topics /\ present \in SUBSET TopicItems /\ clock \in Nat /\ i \in TopicItems \ present
  BY DecisionSteps, DecisionConstants DEF DecisionInv
<1>2. ~ UNCHANGED decisionVars
  BY DEF decisionVars
<1>3. clock' = clock /\ present' = present \cup {i}
  <2>1. PICK j \in TopicItems : clock' = clock /\ (present' = present \cup {j} \/ present' = present \ {j})
    BY <1>1, <1>2, DecisionSteps
  <2> QED
    BY <2>1
<1>4. PICK w, q, r : w = concluded.winner /\ q = concluded.quality /\ r = concluded'.quality
  OBVIOUS
<1>5. /\ w \in present /\ concluded.value = Item(w).value /\ q \in Qualities /\ r \in Qualities
      /\ concluded.confidence = Calculate(present, w, clock, q)
      /\ concluded'.confidence = Calculate(present \cup {i}, w, clock, r)
  <2>1. concluded.winner # 0
    BY DecidedTypes
  <2>2. w \in present /\ concluded.value = Item(w).value
    BY <1>4 DEF DecisionInv, DecidedBy
  <2> QED
    BY <1>2, <1>3, <1>4, <2>1, <2>2, SameWinner
<1>6. Item(w).status # "UNKNOWN"
  <2>1. PICK S, c : S \in SUBSET TopicItems /\ S = present \cup {i} /\ c = concluded'
    BY <1>1
  <2>2. DecidedBy(S, clock, c)
    <3>1. PICK x \in Qualities : c = Conclusion(S, clock, x)
      BY <1>2, <1>3, <2>1, DecisionSteps
    <3> QED
      BY <1>1, <2>1, <3>1, ConclusionDecides
  <2>3. Better(w, i, clock)
    <3>1. S # {} /\ c.winner = w /\ i \in S \ {w}
      BY <1>1, <1>4, <1>5, <2>1
    <3> QED
      BY <2>2, <3>1 DEF DecidedBy
  <2> QED
    BY <1>1, <1>5, <2>3, KnownWins
<1>7. present \cup {i} \in SUBSET TopicItems /\ w \in present \cup {i}
  BY <1>1, <1>5
<1>8. CASE Item(i).value = Item(w).value
  <2>1. Common(present, w, clock, r) <= Common(present \cup {i}, w, clock, r)
    BY <1>1, <1>5, <1>6, <1>8, DissentCosts
  <2>2. Calculate(present, w, clock, q) <= Calculate(present \cup {i}, w, clock, r) + 100 * Worth(r, q)
    BY <1>1, <1>5, <1>7, <2>1, WorthBounds
  <2>3. CorrelationGain(concluded', concluded) = 100 * Worth(r, q)
    BY <1>4, <1>5, GainIsWorth
  <2> QED
    BY <1>5, <1>8, <2>2, <2>3
<1>9. CASE Item(i).value # Item(w).value
  <2>1. Common(present \cup {i}, w, clock, q) <= Common(present, w, clock, q)
    BY <1>1, <1>5, <1>6, <1>9, DissentCosts
  <2>2. Calculate(present \cup {i}, w, clock, r) <= Calculate(present, w, clock, q) + 100 * Worth(q, r)
    BY <1>1, <1>5, <1>7, <2>1, WorthBounds
  <2>3. CorrelationGain(concluded, concluded') = 100 * Worth(q, r)
    BY <1>4, <1>5, GainIsWorth
  <2> QED
    BY <1>5, <1>9, <2>2, <2>3
<1> QED
  BY <1>8, <1>9

\* Only the evidence that wins decides what is concluded, and neither known
\* evidence against it nor time makes it surer than a better correlation of the
\* evidence does.
THEOREM OnlyWinnersDecide == DecisionSpec => EvidenceDecides
<1> DEFINE Losers == clock' = clock /\ concluded.winner # 0 =>
                       /\ present' = present \ {concluded.winner} \/ concluded'.winner \in {concluded.winner} \cup (present' \ present)
                       /\ concluded'.winner = concluded.winner => concluded'.value = concluded.value
           Dissent == \A i \in present' \ present :
                        present # {} /\ concluded'.winner = concluded.winner /\ Item(i).status # "UNKNOWN" =>
                          IF Item(i).value = concluded.value
                          THEN concluded.confidence <= concluded'.confidence + CorrelationGain(concluded', concluded)
                          ELSE concluded'.confidence <= concluded.confidence + CorrelationGain(concluded, concluded')
           Age == present' = present /\ concluded'.winner = concluded.winner =>
                    concluded'.confidence <= concluded.confidence + CorrelationGain(concluded, concluded')
<1>1. ASSUME DecisionInv, DecisionInv', [DecisionNext]_decisionVars PROVE Losers /\ Dissent /\ Age
  <2>1. Losers
    BY <1>1, LosersDecide
  <2>2. Dissent
    BY <1>1, DissentCannotHelp
  <2>3. Age
    BY <1>1, AgeCosts
  <2> QED
    BY <2>1, <2>2, <2>3
<1> HIDE DEF Losers, Dissent, Age
<1>2. DecisionSpec => [][Losers]_decisionVars /\ [][Dissent]_decisionVars /\ [][Age]_decisionVars
  BY <1>1, DecisionInvariance, PTL DEF DecisionSpec
<1> QED
  BY <1>2 DEF EvidenceDecides, LosersDecideNothing, DissentNeverHelps, AgeNeverHelps, Losers, Dissent, Age

----------------------------------------------------------------------------
\* The event stream.

\* What is put in order is what there was.
LEMMA AscendingCarries ==
  ASSUME NEW S \in SUBSET Nat, IsFiniteSet(S)
  PROVE  /\ Ascending(S) \in Seq(S) /\ Len(Ascending(S)) = Cardinality(S)
         /\ Increasing(Ascending(S)) /\ Elements(Ascending(S)) = S
<1> DEFINE below(n) == {m \in S : m < n}
           rank(n) == Cardinality(below(n))
           N == Cardinality(S)
           f == [n \in S |-> rank(n) + 1]
<1>0. N \in Nat
  BY FS_CardinalityType
<1>1. ASSUME NEW n \in S PROVE rank(n) \in Nat /\ rank(n) < N /\ IsFiniteSet(below(n))
  <2>1. below(n) \in SUBSET S /\ n \notin below(n)
    OBVIOUS
  <2>2. IsFiniteSet(below(n)) /\ rank(n) <= N /\ (N = rank(n) => S = below(n))
    BY <2>1, FS_Subset
  <2>3. rank(n) \in Nat
    BY <2>2, FS_CardinalityType
  <2> HIDE DEF rank, N, below
  <2> QED
    BY <1>0, <2>1, <2>2, <2>3
<1>2. ASSUME NEW n \in S, NEW p \in S, n < p PROVE rank(n) < rank(p)
  <2>0. n < p /\ n \in Nat /\ \A m \in S : m < n => m < p
    BY <1>2
  <2>a. below(n) \subseteq below(p)
    BY <2>0
  <2>b. n \in below(p)
    BY <2>0
  <2>c. n \notin below(n)
    BY <2>0
  <2>1. below(n) \in SUBSET below(p) /\ n \in below(p) /\ n \notin below(n)
    <3> HIDE DEF below
    <3> QED
      BY <2>a, <2>b, <2>c
  <2>2. rank(n) <= rank(p) /\ (rank(p) = rank(n) => below(p) = below(n))
    BY <1>1, <2>1, FS_Subset
  <2>3. rank(n) \in Nat /\ rank(p) \in Nat
    BY <1>1
  <2> HIDE DEF rank, below
  <2> QED
    BY <2>1, <2>2, <2>3
<1>3. \A n, p \in S : rank(n) = rank(p) => n = p
  <2> SUFFICES ASSUME NEW n \in S, NEW p \in S, rank(n) = rank(p) PROVE n = p
    OBVIOUS
  <2>1. rank(n) \in Nat
    BY <1>1
  <2>2. ~(n < p) /\ ~(p < n)
    <3> HIDE DEF rank
    <3> QED
      BY <1>2, <2>1
  <2> QED
    BY <2>2
<1>4. f \in Injection(S, 1..N)
  <2>1. ASSUME NEW n \in S PROVE rank(n) + 1 \in 1..N
    <3>1. rank(n) \in Nat /\ rank(n) < N
      BY <1>1
    <3> HIDE DEF rank, N
    <3> QED
      BY <1>0, <3>1
  <2>2. \A n, p \in S : rank(n) + 1 = rank(p) + 1 => n = p
    <3>1. \A n \in S : rank(n) \in Nat
      BY <1>1
    <3> HIDE DEF rank
    <3> QED
      BY <1>3, <3>1
  <2> HIDE DEF rank, N
  <2> QED
    BY <2>1, <2>2 DEF Injection, IsInjective
<1>5. f \in Surjection(S, 1..N)
  <2>1. IsFiniteSet(1..N) /\ Cardinality(1..N) = N
    BY <1>0, FS_Interval
  <2> HIDE DEF f
  <2> QED
    BY <1>4, <2>1, FS_Injection
<1>6. ASSUME NEW i \in 1..N PROVE \E n \in S : rank(n) = i - 1
  <2>1. PICK n \in S : f[n] = i
    BY <1>5 DEF Surjection
  <2>2. rank(n) + 1 = i /\ rank(n) \in Nat
    BY <1>1, <2>1
  <2> HIDE DEF rank, f
  <2> QED
    BY <2>2
<1>7. Ascending(S) = [i \in 1..N |-> CHOOSE n \in S : rank(n) = i - 1]
  BY DEF Ascending
<1>8. ASSUME NEW i \in 1..N PROVE Ascending(S)[i] \in S /\ rank(Ascending(S)[i]) = i - 1
  <2> HIDE DEF rank, N
  <2> QED
    BY <1>6, <1>7
<1>9. Ascending(S) \in Seq(S) /\ Len(Ascending(S)) = N /\ DOMAIN Ascending(S) = 1..N
  <2> HIDE DEF rank, N
  <2>1. Ascending(S) \in [1..N -> S]
    BY <1>7, <1>8
  <2> QED
    BY <1>0, <2>1
<1>10. Increasing(Ascending(S))
  <2> SUFFICES ASSUME NEW i \in 1..N, NEW j \in 1..N, i < j PROVE Ascending(S)[i] < Ascending(S)[j]
    BY <1>9 DEF Increasing
  <2>1. rank(Ascending(S)[i]) = i - 1 /\ rank(Ascending(S)[j]) = j - 1 /\ Ascending(S)[i] \in S /\ Ascending(S)[j] \in S
    BY <1>8
  <2>2. ~(Ascending(S)[j] < Ascending(S)[i]) /\ Ascending(S)[i] # Ascending(S)[j]
    <3> DEFINE x == Ascending(S)[i]
               y == Ascending(S)[j]
    <3>1. (y < x => rank(y) < rank(x)) /\ x \in S /\ y \in S /\ rank(x) = i - 1 /\ rank(y) = j - 1
      BY <1>2, <2>1
    <3> HIDE DEF rank, x, y, N
    <3>2. ~(y < x) /\ x # y
      BY <3>1, <1>0
    <3> QED
      BY <3>2 DEF x, y
  <2>3. Ascending(S)[i] \in Nat /\ Ascending(S)[j] \in Nat
    BY <2>1
  <2> QED
    BY <2>2, <2>3
<1>11. Elements(Ascending(S)) = S
  <2>1. ASSUME NEW n \in S PROVE \E i \in 1..N : Ascending(S)[i] = n
    <3>1. rank(n) + 1 \in 1..N /\ (rank(n) + 1) - 1 = rank(n)
      <4>1. rank(n) \in Nat /\ rank(n) < N
        BY <1>1
      <4> HIDE DEF rank, N
      <4> QED
        BY <1>0, <4>1
    <3>2. Ascending(S)[rank(n) + 1] \in S /\ rank(Ascending(S)[rank(n) + 1]) = rank(n)
      <4> HIDE DEF rank, N
      <4> QED
        BY <1>8, <3>1
    <3> HIDE DEF rank, N
    <3> QED
      BY <1>3, <3>1, <3>2
  <2> QED
    BY <1>8, <1>9, <2>1 DEF Elements
<1> HIDE DEF N
<1> QED
  BY <1>9, <1>10, <1>11 DEF N

\* The first of an increasing sequence is taken, or a larger number added at its end.
LEMMA CarriesTaken ==
  ASSUME NEW s \in Seq(Nat), Increasing(s), s # <<>>
  PROVE  /\ Tail(s) \in Seq(Nat) /\ Increasing(Tail(s)) /\ Len(Tail(s)) = Len(s) - 1
         /\ Head(s) \in Elements(s) /\ \A n \in Elements(s) : Head(s) <= n
         /\ Elements(Tail(s)) = {n \in Elements(s) : n > Head(s)}
<1>1. Len(s) \in Nat /\ Len(s) > 0 /\ DOMAIN s = 1..Len(s) /\ \A i \in DOMAIN s : s[i] \in Nat
  OBVIOUS
<1>2. Tail(s) \in Seq(Nat) /\ Len(Tail(s)) = Len(s) - 1 /\ DOMAIN Tail(s) = 1..(Len(s) - 1) /\ Head(s) = s[1]
  BY <1>1
<1>3. \A i \in 1..(Len(s) - 1) : Tail(s)[i] = s[i + 1]
  BY <1>1
<1>4. Increasing(Tail(s))
  <2>1. \A i \in 1..(Len(s) - 1) : i + 1 \in DOMAIN s
    BY <1>1
  <2>2. \A i, j \in 1..(Len(s) - 1) : i < j => i + 1 < j + 1
    BY <1>1
  <2> QED
    BY <1>2, <1>3, <2>1, <2>2 DEF Increasing
<1>5. \A i \in DOMAIN s : i # 1 => s[1] < s[i]
  BY <1>1 DEF Increasing
<1>6. \A n \in Elements(s) : s[1] <= n
  BY <1>1, <1>5 DEF Elements
<1>7. Elements(Tail(s)) = {n \in Elements(s) : n > s[1]}
  <2>1. ASSUME NEW n \in Elements(Tail(s)) PROVE n \in Elements(s) /\ n > s[1]
    <3>1. PICK i \in 1..(Len(s) - 1) : n = Tail(s)[i]
      BY <1>2 DEF Elements
    <3>2. i + 1 \in DOMAIN s /\ i + 1 # 1 /\ n = s[i + 1]
      BY <1>1, <1>3, <3>1
    <3> QED
      BY <1>1, <1>5, <3>2 DEF Elements
  <2>2. ASSUME NEW n \in Elements(s), n > s[1] PROVE n \in Elements(Tail(s))
    <3>1. PICK i \in DOMAIN s : n = s[i]
      BY DEF Elements
    <3>2. i # 1
      BY <1>1, <2>2, <3>1
    <3>3. i - 1 \in 1..(Len(s) - 1) /\ (i - 1) + 1 = i
      BY <1>1, <3>2
    <3>4. Tail(s)[i - 1] = n
      BY <1>3, <3>1, <3>3
    <3> QED
      BY <1>2, <3>3, <3>4 DEF Elements
  <2> QED
    BY <2>1, <2>2
<1>8. s[1] \in Elements(s)
  BY <1>1 DEF Elements
<1> QED
  BY <1>2, <1>4, <1>6, <1>7, <1>8

LEMMA CarriesAdded ==
  ASSUME NEW s \in Seq(Nat), Increasing(s), NEW n \in Nat, \A m \in Elements(s) : m < n
  PROVE  /\ Append(s, n) \in Seq(Nat) /\ Increasing(Append(s, n)) /\ Len(Append(s, n)) = Len(s) + 1
         /\ Elements(Append(s, n)) = Elements(s) \cup {n}
<1>1. Len(s) \in Nat /\ DOMAIN s = 1..Len(s) /\ \A i \in DOMAIN s : s[i] \in Nat
  OBVIOUS
<1>2. /\ Append(s, n) \in Seq(Nat) /\ Len(Append(s, n)) = Len(s) + 1 /\ DOMAIN Append(s, n) = 1..(Len(s) + 1)
      /\ \A i \in DOMAIN s : Append(s, n)[i] = s[i]
      /\ Append(s, n)[Len(s) + 1] = n
  BY <1>1
<1>3. \A i \in DOMAIN Append(s, n) : i \in DOMAIN s \/ i = Len(s) + 1
  BY <1>1, <1>2
<1>4. \A i \in DOMAIN s : s[i] < n
  BY DEF Elements
<1>5. Increasing(Append(s, n))
  <2> SUFFICES ASSUME NEW i \in DOMAIN Append(s, n), NEW j \in DOMAIN Append(s, n), i < j
               PROVE  Append(s, n)[i] < Append(s, n)[j]
    BY DEF Increasing
  <2>1. i \in DOMAIN s
    BY <1>1, <1>2
  <2>2. CASE j \in DOMAIN s
    BY <1>2, <2>1, <2>2 DEF Increasing
  <2>3. CASE j = Len(s) + 1
    BY <1>2, <1>4, <2>1, <2>3
  <2> QED
    BY <1>3, <2>2, <2>3
<1>6. Elements(Append(s, n)) = Elements(s) \cup {n}
  <2>1. DOMAIN Append(s, n) = DOMAIN s \cup {Len(s) + 1}
    BY <1>1, <1>2

  <2> QED
    BY <1>2, <2>1 DEF Elements
<1> QED
  BY <1>2, <1>5, <1>6

LEMMA LastItems ==
  ASSUME NEW s \in Seq(Nat), NEW k \in 1..Len(s)
  PROVE  /\ SubSeq(s, k, Len(s)) \in Seq(Nat) /\ Len(SubSeq(s, k, Len(s))) = Len(s) - k + 1
         /\ \A i \in 1..(Len(s) - k + 1) : SubSeq(s, k, Len(s))[i] = s[k + i - 1]
BY SMTT(30)

\* The last items of an increasing sequence are those from the first of them on.
LEMMA CarriesNewest ==
  ASSUME NEW s \in Seq(Nat), Increasing(s), NEW k \in DOMAIN s
  PROVE  LET t == SubSeq(s, k, Len(s)) IN
         /\ t \in Seq(Nat) /\ Increasing(t) /\ Len(t) = Len(s) - k + 1 /\ t # <<>> /\ t[1] = s[k]
         /\ Elements(t) = {n \in Elements(s) : n >= s[k]}
<1> DEFINE t == SubSeq(s, k, Len(s))
<1>1. Len(s) \in Nat /\ DOMAIN s = 1..Len(s) /\ (\A i \in DOMAIN s : s[i] \in Nat) /\ k \in 1..Len(s)
  OBVIOUS
<1>2. t \in Seq(Nat) /\ Len(t) = Len(s) - k + 1 /\ \A i \in 1..(Len(s) - k + 1) : t[i] = s[k + i - 1]
  BY LastItems
<1> HIDE DEF t
<1>3. DOMAIN t = 1..(Len(s) - k + 1) /\ \A i \in DOMAIN t : k + i - 1 \in DOMAIN s /\ k + i - 1 >= k
  <2>1. DOMAIN t = 1..(Len(s) - k + 1)
    BY <1>2
  <2>2. \A i \in 1..(Len(s) - k + 1) : k + i - 1 \in 1..Len(s) /\ k + i - 1 >= k
    BY <1>1
  <2> QED
    BY <1>1, <2>1, <2>2
<1>4. Increasing(t)
  <2>1. \A i, j \in DOMAIN t : i < j => k + i - 1 < k + j - 1
    BY <1>1, <1>3
  <2> QED
    BY <1>2, <1>3, <2>1 DEF Increasing
<1>5. t # <<>> /\ t[1] = s[k]
  <2>1. 1 \in 1..(Len(s) - k + 1) /\ k + 1 - 1 = k
    BY <1>1
  <2>2. t[1] = s[k + 1 - 1]
    BY <1>2, <2>1
  <2>3. t # <<>>
    BY <1>1, <1>2
  <2> QED
    BY <2>1, <2>2, <2>3
<1>6. \A i \in DOMAIN s : s[i] >= s[k] <=> i >= k
  <2> TAKE i \in DOMAIN s
  <2>1. CASE i < k
    BY <1>1, <2>1 DEF Increasing
  <2>2. CASE i = k
    BY <1>1, <2>2
  <2>3. CASE k < i
    BY <1>1, <2>3 DEF Increasing
  <2> QED
    BY <1>1, <2>1, <2>2, <2>3
<1>7. ASSUME NEW n \in Elements(s), n >= s[k] PROVE n \in Elements(t)
  <2>1. PICK i \in DOMAIN s : n = s[i]
    BY DEF Elements
  <2>2. i - k + 1 \in 1..(Len(s) - k + 1) /\ k + (i - k + 1) - 1 = i
    BY <1>1, <1>6, <1>7, <2>1
  <2> QED
    BY <1>2, <1>3, <2>1, <2>2 DEF Elements
<1>8. ASSUME NEW n \in Elements(t) PROVE n \in Elements(s) /\ n >= s[k]
  <2>1. PICK i \in DOMAIN t : n = t[i]
    BY DEF Elements
  <2> QED
    BY <1>2, <1>3, <1>6, <2>1 DEF Elements
<1>9. Elements(t) = {n \in Elements(s) : n >= s[k]}
  BY <1>7, <1>8
<1> QED
  BY <1>2, <1>4, <1>5, <1>9 DEF t

\* The numbers retained are in order, and an event of the run that is not among
\* them is older than all of them.
HistoryKept ==
  /\ published \in Seq(EventTypes \cup {OtherRun}) /\ Len(published) <= MaxFusion
  /\ history \in Seq(Nat) /\ Len(history) <= HistoryLimit /\ Increasing(history)
  /\ Elements(history) \subseteq 1..Len(published)
  /\ \A n \in 1..Len(published) :
       published[n] # OtherRun => n \in Elements(history) \/ (history # <<>> /\ n < Head(history))

CoreKept == corePublished \in Seq(CoreCategories) /\ Len(corePublished) <= MaxCore

\* What a Fusion subscription holds, and in which state it may be.
Until(s) == IF s.listed THEN Len(published) ELSE s.last
FusionSide(s) ==
  /\ s.taken <= Len(published) /\ s.last <= Len(published) /\ s.errors <= 1
  /\ s.listed => ~s.closed /\ s.errors = 0 /\ Len(s.events) <= Capacity
  /\ s.pc # "idle" => Carries(s.events, {n \in s.taken + 1 .. Until(s) : Matches(s.asked, published[n])})

\* The same of a Core subscription.
CoreSide(s) ==
  /\ s.coreLost \subseteq 1..Len(corePublished)
  /\ s.coreListed => /\ ~s.coreClosed /\ s.coreTaken <= Len(corePublished)
                     /\ Carries(s.core, (s.coreTaken + 1 .. Len(corePublished)) \ s.coreLost)

\* A handler that has not subscribed has nothing.
NotYet(s) ==
  /\ s.pc = "idle" => ~s.listed /\ ~s.closed /\ s.errors = 0 /\ ~s.unasked
  /\ s.pc \in {"idle", "fusion"} => ~s.coreListed /\ ~s.coreClosed /\ s.core = <<>>

Sound(s) == s.faults = 0 /\ (s.unasked => TypesFor(s.asked) = {})

Served(s) == s \in Stream /\ FusionSide(s) /\ CoreSide(s) /\ NotYet(s) /\ Sound(s)
StreamInv == HistoryKept /\ CoreKept /\ Served(stream)

LEMMA ElementsCount ==
  ASSUME NEW T, NEW s \in Seq(T)
  PROVE  IsFiniteSet(Elements(s)) /\ Cardinality(Elements(s)) <= Len(s)
<1>1. Len(s) \in Nat /\ DOMAIN s = 1..Len(s)
  OBVIOUS
<1>2. IsFiniteSet(1..Len(s)) /\ Cardinality(1..Len(s)) = Len(s)
  BY <1>1, FS_Interval
<1> DEFINE f == [i \in 1..Len(s) |-> s[i]]
<1>3. f \in Surjection(1..Len(s), Elements(s))
  BY <1>1 DEF Surjection, Elements
<1> HIDE DEF f
<1> QED
  BY <1>2, <1>3, FS_Surjection

LEMMA FirstAndRest ==
  ASSUME NEW T, NEW s \in Seq(T), s # <<>>
  PROVE  Head(s) \in T /\ Tail(s) \in Seq(T) /\ Len(s) \in Nat
OBVIOUS

LEMMA NumbersAreNats ==
  ASSUME NEW T \in SUBSET Nat, NEW s \in Seq(T)
  PROVE  s \in Seq(Nat) /\ Elements(s) \subseteq T
<1>1. Len(s) \in Nat /\ DOMAIN s = 1..Len(s) /\ \A i \in DOMAIN s : s[i] \in T
  OBVIOUS
<1>2. s \in [1..Len(s) -> T]
  OBVIOUS
<1>3. s \in [1..Len(s) -> Nat]
  BY <1>2
<1>4. s \in Seq(Nat)
  BY <1>1, <1>3
<1> QED
  BY <1>1, <1>4 DEF Elements

LEMMA StreamInitInv == StreamInit => StreamInv
<1> SUFFICES ASSUME StreamInit PROVE StreamInv
  OBVIOUS
<1>1. HistoryKept
  BY StreamConstants DEF StreamInit, HistoryKept, Increasing, Elements
<1>2. CoreKept
  BY StreamConstants DEF StreamInit, CoreKept
<1>3. stream \in Stream
  <2>1. <<>> \in Seq(Numbers) /\ <<>> \in Seq(1..MaxCore) /\ 0 \in 0..MaxFusion /\ 0 \in 0..MaxCore
    BY StreamConstants
  <2> QED
    BY <2>1 DEF StreamInit, Stream
<1>4. FusionSide(stream) /\ CoreSide(stream) /\ NotYet(stream) /\ Sound(stream)
  BY DEF StreamInit, FusionSide, CoreSide, NotYet, Sound
<1> QED
  BY <1>1, <1>2, <1>3, <1>4 DEF StreamInv, Served

\* What a handler that returns leaves as it was.
LEMMA ReturnedKeeps ==
  ASSUME NEW s, Served(s), s.pc # "idle", NEW outcome \in {"ok", "exhausted", "cancelled", "broken"}
  PROVE  Served(Returned(s, outcome))
<1> DEFINE r == Returned(s, outcome)
<1>1. s \in Stream
  BY DEF Served
<1>2. r \in Stream
  <2>1. CoreCancelled(s) \in Stream
    <3>1. CASE s.coreListed
      <4> DEFINE f == IF s.coreClosed THEN 1 ELSE s.faults
      <4>1. f \in 0..1
        BY <1>1 DEF Stream
      <4>2. CoreCancelled(s) = [s EXCEPT !.coreListed = FALSE, !.coreClosed = TRUE, !.faults = f]
        BY <1>1, <3>1 DEF Stream, CoreCancelled
      <4> HIDE DEF f
      <4> QED
        BY <1>1, <4>1, <4>2, ZenonT(40) DEF Stream
    <3>2. CASE ~s.coreListed
      BY <1>1, <3>2 DEF CoreCancelled
    <3> QED
      BY <3>1, <3>2
  <2> QED
    BY <2>1 DEF Stream, Returned
<1>3. /\ r.pc = "returned" /\ r.asked = s.asked /\ r.events = s.events /\ r.listed = s.listed
      /\ r.closed = s.closed /\ r.errors = s.errors /\ r.taken = s.taken /\ r.last = s.last
      /\ r.coreLost = s.coreLost /\ r.unasked = s.unasked /\ ~r.coreListed
  BY <1>1 DEF Stream, Returned, CoreCancelled
<1>4. r.faults = s.faults
  BY <1>1 DEF Stream, Returned, CoreCancelled, Served, CoreSide
<1> HIDE DEF r
<1>5. FusionSide(r)
  BY <1>3 DEF FusionSide, Served, Until
<1>6. CoreSide(r) /\ NotYet(r) /\ Sound(r)
  BY <1>3, <1>4 DEF CoreSide, NotYet, Sound, Served
<1> QED
  BY <1>2, <1>5, <1>6 DEF Served, r

\* A step of the stream alone.
LEMMA StreamAlone ==
  ASSUME StreamInv, UNCHANGED <<published, history, corePublished>>, Served(stream')
  PROVE  StreamInv'
<1>1. HistoryKept' /\ CoreKept'
  BY DEF StreamInv, HistoryKept, CoreKept
<1>2. Served(stream)'
  BY DEF Served, FusionSide, CoreSide, NotYet, Sound, Until
<1> QED
  BY <1>1, <1>2 DEF StreamInv

\* A publication of the other service.
LEMMA PublishCoreInv ==
  ASSUME StreamInv, NEW category \in CoreCategories, PublishCore(category)
  PROVE  StreamInv'
<1> DEFINE n == Len(corePublished) + 1
<1>1. /\ n <= MaxCore /\ corePublished' = Append(corePublished, category)
      /\ published' = published /\ history' = history
  BY DEF PublishCore
<1>2. stream \in Stream /\ CoreKept /\ FusionSide(stream) /\ CoreSide(stream) /\ NotYet(stream) /\ Sound(stream)
  BY DEF StreamInv, Served
<1>3. Len(corePublished) \in Nat /\ Len(corePublished') = n /\ corePublished' \in Seq(CoreCategories) /\ n \in 1..MaxCore
  BY <1>1, <1>2 DEF CoreKept
<1>4. HistoryKept' /\ CoreKept'
  BY <1>1, <1>3 DEF StreamInv, HistoryKept, CoreKept
<1>5. ASSUME NEW s, s \in Stream, FusionSide(s), NotYet(s), Sound(s),
             s.coreLost \subseteq 1..n,
             s.coreListed => /\ ~s.coreClosed /\ s.coreTaken <= n
                             /\ Carries(s.core, (s.coreTaken + 1 .. n) \ s.coreLost),
             stream' = s
      PROVE  Served(stream)'
  BY <1>1, <1>3, <1>5 DEF Served, FusionSide, CoreSide, NotYet, Sound, Until
<1>6. CASE ~stream.coreListed
  <2>1. stream' = stream
    BY <1>6 DEF PublishCore
  <2>2. stream.coreLost \subseteq 1..n
    BY <1>2, <1>3 DEF CoreSide
  <2>3. Served(stream)'
    BY <1>2, <1>5, <1>6, <2>1, <2>2
  <2> QED
    BY <1>4, <2>3 DEF StreamInv
<1>7. CASE stream.coreListed /\ Len(stream.core) < stream.coreSize
  <2> DEFINE s == [stream EXCEPT !.core = Append(@, n), !.faults = IF stream.coreClosed THEN 1 ELSE @]
             L == Len(corePublished)
  <2>1. stream' = s
    BY <1>7 DEF PublishCore
  <2>2. s \in Stream
    <3>1. stream.core \in Seq(1..MaxCore) /\ ~stream.coreClosed
      BY <1>2, <1>7 DEF Stream, CoreSide
    <3>2. Append(stream.core, n) \in Seq(1..MaxCore)
      BY <1>3, <3>1
    <3>3. s = [stream EXCEPT !.core = Append(stream.core, n)]
      BY <1>2, <3>1 DEF Stream
    <3> HIDE DEF n, s
    <3> QED
      BY <1>2, <3>2, <3>3 DEF Stream
  <2>3. /\ s.core = Append(stream.core, n) /\ s.faults = stream.faults
        /\ s.pc = stream.pc /\ s.asked = stream.asked /\ s.events = stream.events /\ s.listed = stream.listed
        /\ s.closed = stream.closed /\ s.errors = stream.errors /\ s.taken = stream.taken /\ s.last = stream.last
        /\ s.coreTaken = stream.coreTaken /\ s.coreLost = stream.coreLost /\ s.unasked = stream.unasked
        /\ s.coreListed = stream.coreListed /\ s.coreClosed = stream.coreClosed
    BY <1>2, <1>7 DEF Stream, CoreSide
  <2>4. /\ ~stream.coreClosed /\ stream.coreTaken \in Nat /\ stream.coreTaken <= L /\ stream.coreLost \subseteq 1..L
        /\ Increasing(stream.core) /\ Elements(stream.core) = (stream.coreTaken + 1 .. L) \ stream.coreLost
        /\ stream.core \in Seq(Nat)
    <3>1. stream.core \in Seq(1..MaxCore) /\ stream.coreTaken \in 0..MaxCore
      BY <1>2 DEF Stream
    <3>2. stream.core \in Seq(Nat) /\ stream.coreTaken \in Nat
      <4>1. 1..MaxCore \in SUBSET Nat
        OBVIOUS
      <4>2. stream.core \in Seq(Nat)
        BY <3>1, <4>1, NumbersAreNats
      <4> QED
        BY <3>1, <4>2
    <3>3. CoreSide(stream) /\ stream.coreListed
      BY <1>2, <1>7
    <3> QED
      BY <3>2, <3>3 DEF CoreSide, Carries
  <2>5. n \in Nat /\ \A m \in Elements(stream.core) : m < n
    BY <1>3, <2>4
  <2>6. Increasing(Append(stream.core, n)) /\ Elements(Append(stream.core, n)) = Elements(stream.core) \cup {n}
    BY <2>4, <2>5, CarriesAdded
  <2>7. Elements(stream.core) \cup {n} = (stream.coreTaken + 1 .. n) \ stream.coreLost
    BY <1>3, <2>4
  <2>8. Carries(s.core, (s.coreTaken + 1 .. n) \ s.coreLost)
    BY <2>3, <2>6, <2>7 DEF Carries
  <2>9. s.coreLost \subseteq 1..n /\ s.coreTaken <= n
    BY <1>3, <2>3, <2>4
  <2> HIDE DEF s
  <2>10. FusionSide(s) /\ NotYet(s) /\ Sound(s)
    BY <1>2, <1>7, <2>3 DEF FusionSide, NotYet, Sound, Until
  <2>11. Served(stream)'
    BY <1>5, <2>1, <2>2, <2>3, <2>4, <2>8, <2>9, <2>10
  <2> QED
    BY <1>4, <2>11 DEF StreamInv
<1>8. CASE stream.coreListed /\ ~(Len(stream.core) < stream.coreSize)
  <2> DEFINE s == [stream EXCEPT !.coreLost = @ \cup {n}]
             L == Len(corePublished)
  <2>1. stream' = s
    BY <1>8 DEF PublishCore
  <2>2. s \in Stream
    BY <1>2, <1>3 DEF Stream
  <2>3. /\ s.core = stream.core /\ s.faults = stream.faults
        /\ s.pc = stream.pc /\ s.asked = stream.asked /\ s.events = stream.events /\ s.listed = stream.listed
        /\ s.closed = stream.closed /\ s.errors = stream.errors /\ s.taken = stream.taken /\ s.last = stream.last
        /\ s.coreTaken = stream.coreTaken /\ s.coreLost = stream.coreLost \cup {n} /\ s.unasked = stream.unasked
        /\ s.coreListed = stream.coreListed /\ s.coreClosed = stream.coreClosed
    BY <1>2 DEF Stream
  <2>4. /\ ~stream.coreClosed /\ stream.coreTaken \in Nat /\ stream.coreTaken <= L /\ stream.coreLost \subseteq 1..L
        /\ Carries(stream.core, (stream.coreTaken + 1 .. L) \ stream.coreLost)
    <3>1. stream.coreTaken \in 0..MaxCore
      BY <1>2 DEF Stream
    <3> QED
      BY <1>2, <1>8, <3>1 DEF CoreSide
  <2>5. (stream.coreTaken + 1 .. L) \ stream.coreLost = (stream.coreTaken + 1 .. n) \ (stream.coreLost \cup {n})
    BY <1>3, <2>4
  <2>6. Carries(s.core, (s.coreTaken + 1 .. n) \ s.coreLost)
    BY <2>3, <2>4, <2>5
  <2>7. s.coreLost \subseteq 1..n /\ s.coreTaken <= n
    BY <1>3, <2>3, <2>4
  <2> HIDE DEF s
  <2>8. FusionSide(s) /\ NotYet(s) /\ Sound(s)
    BY <1>2, <2>3 DEF FusionSide, NotYet, Sound, Until
  <2>9. Served(stream)'
    BY <1>5, <2>1, <2>2, <2>3, <2>4, <2>6, <2>7, <2>8
  <2> QED
    BY <1>4, <2>9 DEF StreamInv
<1> QED
  BY <1>6, <1>7, <1>8
\* A publication of Fusion keeps the newest of the run.
LEMMA HistoryGrows ==
  ASSUME HistoryKept, NEW type \in EventTypes \cup {OtherRun}, Len(published) + 1 <= MaxFusion,
         published' = Append(published, type),
         history' = IF type = OtherRun THEN history ELSE Trimmed(Append(history, Len(published) + 1))
  PROVE  /\ HistoryKept' /\ Len(published') = Len(published) + 1 /\ published'[Len(published) + 1] = type
         /\ \A m \in 1..Len(published) : published'[m] = published[m]
<1> DEFINE L == Len(published)
           n == L + 1
           h == Append(history, n)
<1>1. /\ published \in Seq(EventTypes \cup {OtherRun}) /\ L \in Nat /\ n \in Nat /\ n <= MaxFusion
      /\ history \in Seq(Nat) /\ Len(history) \in Nat /\ Len(history) <= HistoryLimit /\ Increasing(history)
      /\ Elements(history) \subseteq 1..L
      /\ \A m \in 1..L : published[m] # OtherRun => m \in Elements(history) \/ (history # <<>> /\ m < Head(history))
  BY DEF HistoryKept
<1>2. published' \in Seq(EventTypes \cup {OtherRun}) /\ Len(published') = n /\ published'[n] = type
  BY <1>1
<1>3. \A m \in 1..L : published'[m] = published[m]
  BY <1>1
<1>4. 1..n = 1..L \cup {n}
  BY <1>1
<1>5. CASE type = OtherRun
  <2>1. history' = history
    BY <1>5
  <2>2. Elements(history) \subseteq 1..n
    BY <1>1, <1>4
  <2>3. \A m \in 1..n : published'[m] # OtherRun => m \in Elements(history) \/ (history # <<>> /\ m < Head(history))
    BY <1>1, <1>2, <1>3, <1>4, <1>5
  <2>4. HistoryKept'
    BY <1>1, <1>2, <2>1, <2>2, <2>3 DEF HistoryKept
  <2> QED
    BY <1>2, <1>3, <2>4
<1>6. CASE type # OtherRun
  <2>1. history' = Trimmed(h)
    BY <1>6
  <2>2. \A m \in Elements(history) : m < n
    BY <1>1
  <2>3. /\ h \in Seq(Nat) /\ Increasing(h) /\ Len(h) = Len(history) + 1 /\ Elements(h) = Elements(history) \cup {n}
    BY <1>1, <2>2, CarriesAdded
  <2>4. h # <<>> /\ DOMAIN h = 1..Len(h) /\ Len(h) \in Nat /\ h[1] = Head(h) /\ \A i \in DOMAIN h : h[i] \in Nat
    BY <1>1, <2>3
  <2>5. history # <<>> => h[1] = Head(history)
    BY <1>1
  <2>6. Elements(h) \subseteq 1..n
    BY <1>1, <1>4, <2>3
  <2>7. \A m \in 1..n : published'[m] # OtherRun => m \in Elements(h) \/ m < h[1]
    <3>1. n \in Elements(h) /\ \A m \in Elements(history) : m \in Elements(h)
      BY <2>3
    <3> HIDE DEF h, n
    <3> QED
      BY <1>1, <1>3, <1>4, <2>5, <3>1
  <2> HIDE DEF h
  <2>8. CASE Len(h) <= HistoryLimit
    <3>1. history' = h
      <4>1. HistoryLimit \in Nat
        BY StreamConstants
      <4>2. ~(Len(h) > HistoryLimit)
        BY <2>4, <2>8, <4>1
      <4> QED
        BY <2>1, <4>2 DEF Trimmed
    <3> QED
      BY <1>2, <1>3, <2>3, <2>4, <2>6, <2>7, <2>8, <3>1 DEF HistoryKept
  <2>9. CASE Len(h) > HistoryLimit
    <3> DEFINE k == Len(h) - HistoryLimit + 1
               t == SubSeq(h, k, Len(h))
    <3>1. history' = t
      BY <2>1, <2>9 DEF Trimmed
    <3>2. HistoryLimit \in Nat \ {0}
      BY StreamConstants
    <3>3. k \in DOMAIN h /\ Len(h) - k + 1 = HistoryLimit /\ 1 \in DOMAIN h
      BY <2>4, <2>9, <3>2
    <3>4. /\ t \in Seq(Nat) /\ Increasing(t) /\ Len(t) = HistoryLimit /\ t # <<>> /\ t[1] = h[k]
          /\ Elements(t) = {m \in Elements(h) : m >= h[k]}
      <4> HIDE DEF k
      <4> QED
        BY <2>3, <3>3, CarriesNewest
    <3>5. h[1] <= h[k] /\ h[k] \in Nat /\ h[1] \in Nat
      <4>1. k = 1 \/ 1 < k
        BY <3>3, <2>4
      <4> HIDE DEF k
      <4> QED
        BY <2>3, <2>4, <3>3, <4>1, SMTT(30) DEF Increasing
    <3>6. Head(t) = h[k]
      BY <3>4
    <3> HIDE DEF k, t
    <3>7. \A m \in 1..n : published'[m] # OtherRun => m \in Elements(t) \/ m < Head(t)
      <4> SUFFICES ASSUME NEW m \in 1..n, published'[m] # OtherRun, m \notin Elements(t) PROVE m < h[k]
        BY <3>6
      <4>1. m \in Nat /\ (m \in Elements(h) \/ m < h[1])
        BY <1>1, <2>7
      <4>2. m \in Elements(h) => ~(m >= h[k])
        BY <3>4
      <4> QED
        BY <3>5, <4>1, <4>2
    <3>8. Elements(t) \subseteq 1..n
      BY <2>6, <3>4
    <3>9. Len(t) <= HistoryLimit
      BY <3>2, <3>4
    <3> QED
      BY <1>1, <1>2, <1>3, <3>1, <3>4, <3>7, <3>8, <3>9 DEF HistoryKept
  <2> QED
    BY <2>4, <2>8, <2>9, StreamConstants
<1> QED
  BY <1>5, <1>6

LEMMA PublishFusionInv ==
  ASSUME StreamInv, NEW type \in EventTypes \cup {OtherRun}, PublishFusion(type)
  PROVE  StreamInv'
<1> DEFINE L == Len(published)
           n == L + 1
<1>1. stream \in Stream /\ HistoryKept /\ FusionSide(stream) /\ CoreSide(stream) /\ NotYet(stream) /\ Sound(stream)
  BY DEF StreamInv, Served
<1>2. /\ n <= MaxFusion /\ corePublished' = corePublished
      /\ published' = Append(published, type)
      /\ history' = IF type = OtherRun THEN history ELSE Trimmed(Append(history, n))
      /\ stream' = IF stream.listed /\ Matches(stream.asked, type) THEN Offered(stream, n) ELSE stream
  BY DEF PublishFusion
<1>3. /\ HistoryKept' /\ Len(published') = n /\ published'[n] = type
      /\ \A m \in 1..L : published'[m] = published[m]
  BY <1>1, <1>2, HistoryGrows
<1>4. CoreKept'
  BY <1>2 DEF StreamInv, CoreKept
<1>5. L \in Nat /\ n \in 1..MaxFusion /\ n - 1 = L /\ n \in Nat /\ L \in 0..MaxFusion
  BY <1>1, <1>2, StreamConstants DEF HistoryKept
<1>6. /\ stream.taken \in Nat /\ stream.last \in Nat /\ stream.events \in Seq(Nat) /\ stream.events \in Seq(1..MaxFusion)
      /\ stream.taken <= L /\ stream.last <= L /\ stream.errors \in 0..2 /\ stream.errors <= 1
  <2>1. stream.taken \in 0..MaxFusion /\ stream.last \in 0..MaxFusion /\ stream.events \in Seq(1..MaxFusion) /\ stream.errors \in 0..2
    BY <1>1 DEF Stream, Numbers
  <2>2. stream.taken \in Nat /\ stream.last \in Nat /\ stream.events \in Seq(Nat)
    <3>1. 1..MaxFusion \in SUBSET Nat
      OBVIOUS
    <3>2. stream.events \in Seq(Nat)
      BY <2>1, <3>1, NumbersAreNats
    <3> QED
      BY <2>1, <3>2
  <2> QED
    BY <1>1, <2>1, <2>2 DEF FusionSide
<1> DEFINE Due(to) == {m \in stream.taken + 1 .. to : Matches(stream.asked, published[m])}
           Now(to) == {m \in stream.taken + 1 .. to : Matches(stream.asked, published'[m])}
<1>7. Now(L) = Due(L) /\ Now(stream.last) = Due(stream.last)
  <2>1. \A m \in stream.taken + 1 .. L : published'[m] = published[m]
    BY <1>3, <1>5, <1>6
  <2>2. \A m \in stream.taken + 1 .. stream.last : published'[m] = published[m]
    BY <1>3, <1>5, <1>6
  <2> QED
    BY <2>1, <2>2
<1>8. stream.taken + 1 .. n = (stream.taken + 1 .. L) \cup {n}
  BY <1>5, <1>6
<1>9. Now(n) = IF Matches(stream.asked, type) THEN Due(L) \cup {n} ELSE Due(L)
  <2>1. \A m \in stream.taken + 1 .. n : m \in stream.taken + 1 .. L \/ m = n
    BY <1>8
  <2>2. \A m \in stream.taken + 1 .. L : published'[m] = published[m] /\ m \in stream.taken + 1 .. n
    BY <1>3, <1>5, <1>6
  <2>3. n \in stream.taken + 1 .. n
    BY <1>5, <1>6
  <2> HIDE DEF n
  <2>4. published'[n] = type
    BY <1>3
  <2> QED
    BY <2>1, <2>2, <2>3, <2>4
<1>10. ASSUME NEW s, s \in Stream, CoreSide(s), NotYet(s), Sound(s), s.taken = stream.taken, s.asked = stream.asked,
              s.last <= n, s.errors <= 1, s.listed => ~s.closed /\ s.errors = 0 /\ Len(s.events) <= Capacity,
              s.pc # "idle" => Carries(s.events, Now(IF s.listed THEN n ELSE s.last)),
              stream' = s
       PROVE  StreamInv'
  <2>1. s.taken <= n
    BY <1>5, <1>6, <1>10
  <2>2. FusionSide(stream)'
    BY <1>3, <1>10, <2>1 DEF FusionSide, Until
  <2>3. CoreSide(stream)' /\ NotYet(stream)' /\ Sound(stream)'
    BY <1>2, <1>10 DEF CoreSide, NotYet, Sound
  <2> QED
    BY <1>3, <1>4, <1>10, <2>2, <2>3 DEF StreamInv, Served
<1>11. CASE ~(stream.listed /\ Matches(stream.asked, type))
  <2>1. stream' = stream
    BY <1>2, <1>11
  <2>2. stream.pc # "idle" => Carries(stream.events, Due(Until(stream)))
    BY <1>1 DEF FusionSide
  <2>3. Due(Until(stream)) = Now(IF stream.listed THEN n ELSE stream.last)
    <3> HIDE DEF Due, Now, n, L
    <3> QED
      BY <1>7, <1>9, <1>11 DEF Until, L
  <2>4. stream.last <= n
    BY <1>5, <1>6
  <2> HIDE DEF Due, Now, n
  <2> QED
    BY <1>1, <1>6, <1>10, <2>1, <2>2, <2>3, <2>4 DEF FusionSide
<1>12. CASE stream.listed /\ Matches(stream.asked, type)
  <2>1. /\ stream.pc # "idle" /\ ~stream.closed /\ stream.errors = 0 /\ Carries(stream.events, Due(L))
    BY <1>1, <1>12 DEF FusionSide, NotYet, Until
  <2>2. Now(n) = Due(L) \cup {n}
    BY <1>9, <1>12
  <2>3. stream' = Offered(stream, n)
    BY <1>2, <1>12
  <2>4. CASE Len(stream.events) < Capacity
    <3> DEFINE s == [stream EXCEPT !.events = Append(@, n)]
    <3>1. stream' = s
      BY <1>1, <2>1, <2>3, <2>4 DEF Offered, Stream
    <3>2. s \in Stream
      <4>1. Append(stream.events, n) \in Seq(1..MaxFusion)
        BY <1>5, <1>6
      <4> HIDE DEF n
      <4> QED
        BY <1>1, <4>1 DEF Stream, Numbers
    <3>3. /\ s.events = Append(stream.events, n) /\ s.faults = stream.faults
          /\ s.pc = stream.pc /\ s.asked = stream.asked /\ s.listed = stream.listed
          /\ s.closed = stream.closed /\ s.errors = stream.errors /\ s.taken = stream.taken /\ s.last = stream.last
          /\ s.core = stream.core /\ s.coreTaken = stream.coreTaken /\ s.coreLost = stream.coreLost
          /\ s.unasked = stream.unasked /\ s.coreListed = stream.coreListed /\ s.coreClosed = stream.coreClosed
      BY <1>1 DEF Stream
    <3> HIDE DEF s
    <3>4. CoreSide(s) /\ NotYet(s) /\ Sound(s)
      BY <1>1, <3>3 DEF CoreSide, NotYet, Sound
    <3>5. Elements(stream.events) = Due(L) /\ Increasing(stream.events)
      BY <2>1 DEF Carries
    <3>6. \A m \in Elements(stream.events) : m < n
      BY <1>5, <1>6, <3>5
    <3> HIDE DEF Due, Now
    <3>7. /\ Increasing(s.events) /\ Len(s.events) = Len(stream.events) + 1
          /\ Elements(s.events) = Elements(stream.events) \cup {n}
      BY <1>5, <1>6, <3>3, <3>5, <3>6, CarriesAdded
    <3>8. Carries(s.events, Now(n))
      BY <2>2, <3>5, <3>7 DEF Carries
    <3>9. Len(s.events) <= Capacity
      BY <1>6, <2>4, <3>7, StreamConstants DEF Capacity
    <3>10. s.last <= n
      BY <1>5, <1>6, <3>3
    <3> HIDE DEF n
    <3> QED
      BY <1>6, <1>10, <1>12, <2>1, <3>1, <3>2, <3>3, <3>4, <3>8, <3>9, <3>10
  <2>5. CASE ~(Len(stream.events) < Capacity)
    <3> DEFINE s == [stream EXCEPT !.errors = 1, !.closed = TRUE, !.listed = FALSE, !.last = L]
    <3>1. stream' = s
      <4>1. stream.errors + 1 = 1 /\ n - 1 = L /\ stream \in Stream
        BY <1>1, <1>5, <2>1
      <4>2. stream' = [stream EXCEPT !.errors = @ + 1, !.closed = TRUE, !.listed = FALSE, !.last = n - 1,
                                     !.faults = IF stream.closed THEN 1 ELSE @]
        BY <2>3, <2>5 DEF Offered
      <4>3. stream' = [stream EXCEPT !.errors = stream.errors + 1, !.closed = TRUE, !.listed = FALSE, !.last = n - 1,
                                     !.faults = stream.faults]
        BY <2>1, <4>2
      <4> HIDE DEF n, L
      <4>4. stream' = [stream EXCEPT !.errors = 1, !.closed = TRUE, !.listed = FALSE, !.last = L, !.faults = stream.faults]
        BY <4>1, <4>3
      <4> QED
        BY <4>1, <4>4 DEF Stream
    <3>2. s \in Stream
      <4>1. stream \in Stream /\ L \in 0..MaxFusion /\ 1 \in 0..2
        BY <1>1, <1>5
      <4> HIDE DEF L
      <4> QED
        BY <4>1 DEF Stream
    <3>3. /\ s.events = stream.events /\ s.faults = stream.faults
          /\ s.pc = stream.pc /\ s.asked = stream.asked /\ ~s.listed
          /\ s.closed /\ s.errors = 1 /\ s.taken = stream.taken /\ s.last = L
          /\ s.core = stream.core /\ s.coreTaken = stream.coreTaken /\ s.coreLost = stream.coreLost
          /\ s.unasked = stream.unasked /\ s.coreListed = stream.coreListed /\ s.coreClosed = stream.coreClosed
      BY <1>1 DEF Stream
    <3> HIDE DEF s
    <3>4. CoreSide(s) /\ NotYet(s) /\ Sound(s)
      BY <1>1, <2>1, <3>3 DEF CoreSide, NotYet, Sound
    <3>5. s.last <= n /\ s.errors <= 1
      BY <1>5, <3>3
    <3>6. Carries(s.events, Now(s.last))
      <4> HIDE DEF Due, Now, L
      <4> QED
        BY <1>7, <2>1, <3>3
    <3> HIDE DEF n, L, Due, Now
    <3> QED
      BY <1>10, <3>1, <3>2, <3>3, <3>4, <3>5, <3>6
  <2> QED
    BY <2>4, <2>5
<1> QED
  BY <1>11, <1>12
\* The replay is what the subscriber has not had and can still get.
LEMMA SubscribeFusionInv ==
  ASSUME StreamInv, NEW asked \in Requests, NEW after \in 0..MaxFusion + 1, SubscribeFusion(asked, after)
  PROVE  StreamInv'
<1> DEFINE L == Len(published)
           S == {m \in Elements(history) : m > after /\ Matches(asked, published[m])}
           from == Resumed(after)
           s == [stream EXCEPT !.pc = "fusion", !.asked = asked, !.taken = from, !.events = Ascending(S), !.listed = TRUE]
<1>1. stream \in Stream /\ HistoryKept /\ FusionSide(stream) /\ CoreSide(stream) /\ NotYet(stream) /\ Sound(stream)
  BY DEF StreamInv, Served
<1>2. stream.pc = "idle" /\ stream' = s /\ UNCHANGED <<published, history, corePublished>>
  BY DEF SubscribeFusion, Replay
<1>3. /\ L \in Nat /\ L <= MaxFusion /\ MaxFusion \in Nat /\ after \in Nat
      /\ history \in Seq(Nat) /\ Len(history) \in Nat /\ Len(history) <= HistoryLimit /\ Increasing(history)
      /\ Elements(history) \subseteq 1..L
      /\ \A m \in 1..L : published[m] # OtherRun => m \in Elements(history) \/ (history # <<>> /\ m < Head(history))
  BY <1>1, StreamConstants DEF HistoryKept
<1>4. history # <<>> => Head(history) \in Elements(history) /\ \A m \in Elements(history) : Head(history) <= m
  BY <1>3, CarriesTaken
<1>5. history = <<>> => Elements(history) = {}
  BY DEF Elements
<1>6. from \in Nat /\ from <= L
  <2>1. CASE history = <<>> \/ after > L
    BY <1>3, <2>1 DEF Resumed
  <2>2. CASE history # <<>> /\ after <= L
    <3>1. Head(history) \in 1..L
      BY <1>3, <1>4, <2>2
    <3> QED
      BY <1>3, <2>2, <3>1 DEF Resumed
  <2> QED
    BY <1>3, <2>1, <2>2
<1>7. S = {m \in from + 1 .. L : Matches(asked, published[m])}
  <2>1. CASE history = <<>> \/ after > L
    <3>1. from = L
      BY <2>1 DEF Resumed
    <3>2. from + 1 .. L = {}
      BY <1>3, <3>1
    <3>3. S = {}
      BY <1>3, <1>5, <2>1
    <3> QED
      BY <3>2, <3>3
  <2>2. CASE history # <<>> /\ after <= L
    <3>1. Head(history) \in 1..L /\ from >= after /\ from >= Head(history) - 1 /\ (from = after \/ from = Head(history) - 1)
      <4>1. Head(history) \in 1..L
        BY <1>3, <1>4, <2>2
      <4> QED
        BY <1>3, <2>2, <4>1 DEF Resumed
    <3> HIDE DEF from
    <3>2. ASSUME NEW m \in S PROVE m \in from + 1 .. L /\ Matches(asked, published[m])
      <4>1. m \in 1..L /\ Head(history) <= m /\ m > after /\ Matches(asked, published[m])
        BY <1>3, <1>4, <2>2
      <4> QED
        BY <1>3, <1>6, <3>1, <4>1
    <3>3. ASSUME NEW m \in from + 1 .. L, Matches(asked, published[m]) PROVE m \in S
      <4>1. m \in 1..L /\ ~(m < Head(history)) /\ m > after
        BY <1>3, <1>6, <3>1
      <4>2. m \in Elements(history)
        BY <1>3, <3>3, <4>1 DEF Matches
      <4> QED
        BY <3>3, <4>1, <4>2
    <3> HIDE DEF S
    <3> QED
      BY <3>2, <3>3
  <2> QED
    BY <1>3, <2>1, <2>2
<1>8. S \in SUBSET Nat /\ S \subseteq 1..L /\ S \in SUBSET Elements(history)
  BY <1>3
<1>9. IsFiniteSet(S) /\ Cardinality(S) <= Len(history) /\ Cardinality(S) \in Nat
  <2>1. IsFiniteSet(Elements(history)) /\ Cardinality(Elements(history)) <= Len(history)
    BY <1>3, ElementsCount
  <2>2. IsFiniteSet(S) /\ Cardinality(S) <= Cardinality(Elements(history))
    BY <1>8, <2>1, FS_Subset
  <2>3. Cardinality(S) \in Nat /\ Cardinality(Elements(history)) \in Nat
    BY <2>1, <2>2, FS_CardinalityType
  <2> HIDE DEF S
  <2> QED
    BY <1>3, <2>1, <2>2, <2>3
<1> HIDE DEF S
<1>10. /\ Ascending(S) \in Seq(S) /\ Len(Ascending(S)) = Cardinality(S)
       /\ Increasing(Ascending(S)) /\ Elements(Ascending(S)) = S
  BY <1>8, <1>9, AscendingCarries
<1>11. Ascending(S) \in Seq(Numbers)
  <2>1. S \subseteq Numbers
    BY <1>3, <1>8 DEF Numbers
  <2>2. Len(Ascending(S)) \in Nat /\ Ascending(S) \in [1..Len(Ascending(S)) -> S]
    BY <1>10
  <2>3. Ascending(S) \in [1..Len(Ascending(S)) -> Numbers]
    BY <2>1, <2>2
  <2> QED
    BY <2>2, <2>3
<1>12. Len(Ascending(S)) <= Capacity
  <2>1. HistoryLimit \in Nat /\ Slack \in Nat
    BY StreamConstants
  <2> QED
    BY <1>3, <1>9, <1>10, <2>1 DEF Capacity
<1> HIDE DEF from
<1>13. s \in Stream
  <2>1. from \in 0..MaxFusion
    BY <1>3, <1>6
  <2> QED
    BY <1>1, <1>11, <2>1 DEF Stream
<1>14. /\ s.pc = "fusion" /\ s.asked = asked /\ s.taken = from /\ s.events = Ascending(S) /\ s.listed
       /\ s.closed = stream.closed /\ s.errors = stream.errors /\ s.last = stream.last /\ s.faults = stream.faults
       /\ s.core = stream.core /\ s.coreTaken = stream.coreTaken /\ s.coreLost = stream.coreLost
       /\ s.unasked = stream.unasked /\ s.coreListed = stream.coreListed /\ s.coreClosed = stream.coreClosed
  BY <1>1 DEF Stream
<1> HIDE DEF s
<1>15. FusionSide(s)
  <2>1. Carries(s.events, {m \in s.taken + 1 .. L : Matches(s.asked, published[m])})
    BY <1>7, <1>10, <1>14 DEF Carries
  <2>2. /\ s.taken <= L /\ s.last <= L /\ s.errors <= 1 /\ ~s.closed /\ s.errors = 0 /\ Len(s.events) <= Capacity
    BY <1>1, <1>2, <1>6, <1>12, <1>14 DEF FusionSide, NotYet
  <2> QED
    BY <1>14, <2>1, <2>2 DEF FusionSide, Until
<1>16. CoreSide(s) /\ NotYet(s) /\ Sound(s)
  BY <1>1, <1>2, <1>14 DEF CoreSide, NotYet, Sound
<1> QED
  BY <1>2, <1>13, <1>15, <1>16, StreamAlone DEF Served

LEMMA SubscribeCoreInv ==
  ASSUME StreamInv, NEW size \in Sizes, SubscribeCore(size)
  PROVE  StreamInv'
<1> DEFINE L == Len(corePublished)
           s == [stream EXCEPT !.pc = "loop", !.coreSize = size, !.coreListed = TRUE, !.coreTaken = L]
<1>1. stream \in Stream /\ CoreKept /\ FusionSide(stream) /\ CoreSide(stream) /\ NotYet(stream) /\ Sound(stream)
  BY DEF StreamInv, Served
<1>2. stream.pc = "fusion" /\ stream' = s /\ UNCHANGED <<published, history, corePublished>>
  BY DEF SubscribeCore
<1>3. L \in Nat /\ L \in 0..MaxCore
  BY <1>1, StreamConstants DEF CoreKept
<1> HIDE DEF L
<1>4. s \in Stream
  BY <1>1, <1>3 DEF Stream
<1>5. /\ s.pc = "loop" /\ s.asked = stream.asked /\ s.taken = stream.taken /\ s.events = stream.events
      /\ s.listed = stream.listed /\ s.closed = stream.closed /\ s.errors = stream.errors /\ s.last = stream.last
      /\ s.faults = stream.faults /\ s.core = stream.core /\ s.coreTaken = L /\ s.coreLost = stream.coreLost
      /\ s.unasked = stream.unasked /\ s.coreListed /\ s.coreClosed = stream.coreClosed
  BY <1>1 DEF Stream
<1> HIDE DEF s
<1>6. Carries(s.core, (s.coreTaken + 1 .. L) \ s.coreLost)
  <2>1. s.core = <<>> /\ s.coreTaken + 1 .. L = {}
    BY <1>1, <1>2, <1>3, <1>5 DEF NotYet
  <2> QED
    BY <2>1 DEF Carries, Increasing, Elements
<1>7. CoreSide(s)
  BY <1>1, <1>2, <1>3, <1>5, <1>6 DEF CoreSide, NotYet, L
<1>8. FusionSide(s) /\ NotYet(s) /\ Sound(s)
  BY <1>1, <1>2, <1>5 DEF FusionSide, NotYet, Sound, Until
<1> QED
  BY <1>2, <1>4, <1>7, <1>8, StreamAlone DEF Served

LEMMA CloseInv ==
  ASSUME StreamInv, LeaveStream \/ CloseFusion \/ CloseCore
  PROVE  StreamInv'
<1>1. /\ stream \in Stream /\ HistoryKept /\ FusionSide(stream) /\ CoreSide(stream) /\ NotYet(stream) /\ Sound(stream)
      /\ Served(stream)
  BY DEF StreamInv, Served
<1>2. CASE LeaveStream
  <2> DEFINE s == [stream EXCEPT !.done = TRUE]
  <2>1. stream' = s /\ UNCHANGED <<published, history, corePublished>>
    BY <1>2 DEF LeaveStream
  <2>2. s \in Stream
    BY <1>1 DEF Stream
  <2>3. /\ s.pc = stream.pc /\ s.asked = stream.asked /\ s.taken = stream.taken /\ s.events = stream.events
        /\ s.listed = stream.listed /\ s.closed = stream.closed /\ s.errors = stream.errors /\ s.last = stream.last
        /\ s.faults = stream.faults /\ s.core = stream.core /\ s.coreTaken = stream.coreTaken
        /\ s.coreLost = stream.coreLost /\ s.unasked = stream.unasked /\ s.coreListed = stream.coreListed
        /\ s.coreClosed = stream.coreClosed
    BY <1>1 DEF Stream
  <2> HIDE DEF s
  <2>4. FusionSide(s) /\ CoreSide(s) /\ NotYet(s) /\ Sound(s)
    BY <1>1, <2>3 DEF FusionSide, CoreSide, NotYet, Sound, Until
  <2> QED
    BY <2>1, <2>2, <2>4, StreamAlone DEF Served
<1>3. CASE CloseFusion
  <2> DEFINE L == Len(published)
             s == [stream EXCEPT !.listed = FALSE, !.closed = TRUE, !.last = L]
  <2>1. stream.listed /\ ~stream.closed /\ stream.errors = 0 /\ stream.pc # "idle"
    BY <1>1, <1>3 DEF CloseFusion, FusionSide, NotYet
  <2>2. stream' = s /\ UNCHANGED <<published, history, corePublished>>
    BY <1>1, <1>3, <2>1 DEF CloseFusion, Stream
  <2>3. L \in 0..MaxFusion /\ L \in Nat
    BY <1>1, StreamConstants DEF HistoryKept
  <2> HIDE DEF L
  <2>4. s \in Stream
    BY <1>1, <2>3 DEF Stream
  <2>5. /\ s.pc = stream.pc /\ s.asked = stream.asked /\ s.taken = stream.taken /\ s.events = stream.events
        /\ ~s.listed /\ s.closed /\ s.errors = stream.errors /\ s.last = L
        /\ s.faults = stream.faults /\ s.core = stream.core /\ s.coreTaken = stream.coreTaken
        /\ s.coreLost = stream.coreLost /\ s.unasked = stream.unasked /\ s.coreListed = stream.coreListed
        /\ s.coreClosed = stream.coreClosed
    BY <1>1 DEF Stream
  <2> HIDE DEF s
  <2>6. FusionSide(s)
    <3>1. s.last <= L
      BY <2>3, <2>5
    <3> QED
      BY <1>1, <2>1, <2>5, <3>1 DEF FusionSide, Until, L
  <2>7. CoreSide(s) /\ NotYet(s) /\ Sound(s)
    BY <1>1, <2>1, <2>5 DEF CoreSide, NotYet, Sound
  <2> QED
    BY <2>2, <2>4, <2>6, <2>7, StreamAlone DEF Served
<1>4. CASE CloseCore
  <2> DEFINE s == [stream EXCEPT !.coreListed = FALSE, !.coreClosed = TRUE]
  <2>1. stream.coreListed /\ ~stream.coreClosed /\ stream.pc \notin {"idle", "fusion"}
    BY <1>1, <1>4 DEF CloseCore, CoreSide, NotYet
  <2>2. stream' = s /\ UNCHANGED <<published, history, corePublished>>
    BY <1>1, <1>4, <2>1 DEF CloseCore, CoreCancelled, Stream
  <2>3. s \in Stream
    BY <1>1 DEF Stream
  <2>4. /\ s.pc = stream.pc /\ s.asked = stream.asked /\ s.taken = stream.taken /\ s.events = stream.events
        /\ s.listed = stream.listed /\ s.closed = stream.closed /\ s.errors = stream.errors /\ s.last = stream.last
        /\ s.faults = stream.faults /\ s.core = stream.core /\ s.coreTaken = stream.coreTaken
        /\ s.coreLost = stream.coreLost /\ s.unasked = stream.unasked /\ ~s.coreListed
    BY <1>1 DEF Stream
  <2> HIDE DEF s
  <2>5. FusionSide(s) /\ CoreSide(s) /\ NotYet(s) /\ Sound(s)
    BY <1>1, <2>1, <2>4 DEF FusionSide, CoreSide, NotYet, Sound, Until
  <2> QED
    BY <2>2, <2>3, <2>5, StreamAlone DEF Served
<1> QED
  BY <1>2, <1>3, <1>4

\* What is taken leaves the rest in order.
LEMMA HandleInv ==
  ASSUME StreamInv, Handle
  PROVE  StreamInv'
<1>1. /\ stream \in Stream /\ HistoryKept /\ FusionSide(stream) /\ CoreSide(stream) /\ NotYet(stream) /\ Sound(stream)
      /\ Served(stream)
  BY DEF StreamInv, Served
<1>2. stream.pc = "loop" /\ UNCHANGED <<published, history, corePublished>>
  BY DEF Handle
<1>3. ASSUME NEW s, Served(s), s.pc = "loop", Sends(s) PROVE Served(stream')
  BY <1>3, ReturnedKeeps DEF Sends
<1> SUFFICES Served(stream')
  BY <1>2, StreamAlone
<1>4. CASE SelectErrors
  BY <1>1, <1>2, <1>4, ReturnedKeeps DEF SelectErrors
<1>5. CASE SelectDone
  BY <1>1, <1>2, <1>5, ReturnedKeeps DEF SelectDone
<1>6. CASE SelectEvents
  <2>1. CASE stream.events = <<>>
    BY <1>1, <1>2, <1>6, <2>1, ReturnedKeeps DEF SelectEvents
  <2>2. CASE stream.events # <<>>
    <3> DEFINE n == Head(stream.events)
               category == CategoryOf[published[n]]
               s == [stream EXCEPT !.events = Tail(@), !.taken = n]
               r == [s EXCEPT !.unasked = @ \/ (stream.asked # {} /\ category \notin stream.asked)]
    <3>1. \/ category = Uncategorised /\ stream' = s
          \/ Sends(r)
      BY <1>6, <2>2 DEF SelectEvents
    <3>2. /\ Carries(stream.events, {m \in stream.taken + 1 .. Until(stream) : Matches(stream.asked, published[m])})
          /\ stream.events \in Seq(1..MaxFusion) /\ stream.taken \in Nat /\ stream.last \in Nat
          /\ stream.taken <= Len(published) /\ stream.last <= Len(published) /\ Len(published) \in Nat
          /\ Len(published) <= MaxFusion
      BY <1>1, <1>2 DEF FusionSide, Stream, Numbers, HistoryKept
    <3>3. stream.events \in Seq(Nat)
      <4>1. 1..MaxFusion \in SUBSET Nat
        OBVIOUS
      <4> QED
        BY <3>2, <4>1, NumbersAreNats
    <3>4. Until(stream) \in Nat /\ Until(stream) <= Len(published)
      BY <3>2 DEF Until
    <3> DEFINE Due(from) == {m \in from + 1 .. Until(stream) : Matches(stream.asked, published[m])}
    <3>5. /\ Increasing(stream.events) /\ Elements(stream.events) = Due(stream.taken)
          /\ n \in Elements(stream.events)
          /\ Increasing(Tail(stream.events)) /\ Len(Tail(stream.events)) = Len(stream.events) - 1
          /\ Elements(Tail(stream.events)) = {m \in Due(stream.taken) : m > n}
      BY <2>2, <3>2, <3>3, CarriesTaken DEF Carries
    <3>6. /\ n \in stream.taken + 1 .. Until(stream) /\ Matches(stream.asked, published[n])
          /\ n \in Nat /\ n <= Len(published) /\ n \in 0..MaxFusion /\ stream.taken < n
      <4>1. n \in stream.taken + 1 .. Until(stream) /\ Matches(stream.asked, published[n])
        BY <3>5
      <4>2. stream.taken \in Nat /\ Until(stream) \in Nat /\ Until(stream) <= Len(published) /\ Len(published) \in Nat
            /\ Len(published) <= MaxFusion /\ MaxFusion \in Nat
        BY <3>2, <3>4, StreamConstants
      <4> HIDE DEF n
      <4> QED
        BY <4>1, <4>2
    <3>7. {m \in Due(stream.taken) : m > n} = Due(n)
      <4> HIDE DEF n
      <4> QED
        BY <3>2, <3>4, <3>6
    <3>8. Tail(stream.events) \in Seq(Numbers) /\ Len(stream.events) \in Nat
      BY <2>2, <3>2, FirstAndRest DEF Numbers
    <3>9. Carries(Tail(stream.events), Due(n))
      BY <3>5, <3>7 DEF Carries
    <3>10. category \in stream.asked \/ TypesFor(stream.asked) = {}
      BY <3>6 DEF Matches, TypesFor
    <3> HIDE DEF n, Due, category
    <3>11. ASSUME NEW u \in BOOLEAN, u => TypesFor(stream.asked) = {}, NEW c,
                  c = [stream EXCEPT !.events = Tail(@), !.taken = n, !.unasked = u]
           PROVE  Served(c) /\ c.pc = "loop"
      <4>1. c \in Stream
        BY <1>1, <3>6, <3>8, <3>11 DEF Stream
      <4>2. /\ c.pc = stream.pc /\ c.asked = stream.asked /\ c.taken = n /\ c.events = Tail(stream.events)
            /\ c.listed = stream.listed /\ c.closed = stream.closed /\ c.errors = stream.errors /\ c.last = stream.last
            /\ c.faults = stream.faults /\ c.core = stream.core /\ c.coreTaken = stream.coreTaken
            /\ c.coreLost = stream.coreLost /\ c.unasked = u /\ c.coreListed = stream.coreListed
            /\ c.coreClosed = stream.coreClosed
        BY <1>1, <3>11 DEF Stream
      <4>3. FusionSide(c)
        <5>1. Until(c) = Until(stream)
          BY <4>2 DEF Until
        <5>2. Carries(c.events, {m \in c.taken + 1 .. Until(c) : Matches(c.asked, published[m])})
          BY <3>9, <4>2, <5>1 DEF Due
        <5>3. stream.listed => Len(c.events) <= Capacity
          <6>1. stream.listed => Len(stream.events) <= Capacity
            BY <1>1 DEF FusionSide
          <6>2. Capacity \in Nat
            BY StreamConstants DEF Capacity
          <6> QED
            BY <3>5, <3>8, <4>2, <6>1, <6>2
        <5> QED
          BY <1>1, <3>6, <4>2, <5>2, <5>3 DEF FusionSide
      <4>4. CoreSide(c) /\ NotYet(c) /\ Sound(c)
        BY <1>1, <1>2, <3>11, <4>2 DEF CoreSide, NotYet, Sound
      <4> QED
        BY <1>2, <4>1, <4>2, <4>3, <4>4 DEF Served
    <3>12. Served(s) /\ s.pc = "loop"
      <4>1. stream.unasked \in BOOLEAN /\ (stream.unasked => TypesFor(stream.asked) = {})
        BY <1>1 DEF Stream, Sound
      <4>2. s = [stream EXCEPT !.events = Tail(@), !.taken = n, !.unasked = stream.unasked]
        BY <1>1 DEF Stream
      <4> HIDE DEF s
      <4> QED
        BY <3>11, <4>1, <4>2
    <3>13. Served(r) /\ r.pc = "loop"
      <4> DEFINE u == stream.unasked \/ (stream.asked # {} /\ category \notin stream.asked)
      <4>1. u \in BOOLEAN /\ (u => TypesFor(stream.asked) = {})
        BY <1>1, <3>10 DEF Stream, Sound
      <4>2. r = [stream EXCEPT !.events = Tail(@), !.taken = n, !.unasked = u]
        BY <1>1 DEF Stream
      <4> HIDE DEF r, u
      <4> QED
        BY <3>11, <4>1, <4>2
    <3> HIDE DEF s, r
    <3> QED
      BY <1>3, <3>1, <3>12, <3>13
  <2> QED
    BY <2>1, <2>2
<1>7. CASE SelectCore
  <2>1. CASE stream.core = <<>>
    BY <1>1, <1>2, <1>7, <2>1, ReturnedKeeps DEF SelectCore
  <2>2. CASE stream.core # <<>>
    <3> DEFINE n == Head(stream.core)
               L == Len(corePublished)
               s == [stream EXCEPT !.core = Tail(@), !.coreTaken = n]
    <3>1. stream' = s \/ Sends(s)
      BY <1>7, <2>2 DEF SelectCore
    <3>2. stream.core \in Seq(1..MaxCore) /\ stream.coreTaken \in Nat /\ L \in Nat
      BY <1>1 DEF Stream, StreamInv, CoreKept
    <3>3. stream.core \in Seq(Nat)
      <4>1. 1..MaxCore \in SUBSET Nat
        OBVIOUS
      <4> QED
        BY <3>2, <4>1, NumbersAreNats
    <3>4. n \in 1..MaxCore /\ n \in Nat /\ Tail(stream.core) \in Seq(1..MaxCore) /\ n \in 0..MaxCore
      <4>1. n \in 1..MaxCore /\ Tail(stream.core) \in Seq(1..MaxCore)
        BY <2>2, <3>2, FirstAndRest
      <4> HIDE DEF n
      <4> QED
        BY <4>1
    <3> DEFINE Due(from) == (from + 1 .. L) \ stream.coreLost
    <3>5. stream.coreListed => ~stream.coreClosed /\ n <= L /\ Carries(Tail(stream.core), Due(n))
      <4> SUFFICES ASSUME stream.coreListed PROVE ~stream.coreClosed /\ n <= L /\ Carries(Tail(stream.core), Due(n))
        OBVIOUS
      <4>1. Carries(stream.core, Due(stream.coreTaken)) /\ ~stream.coreClosed
        BY <1>1 DEF CoreSide
      <4>2. /\ n \in Due(stream.coreTaken) /\ Increasing(Tail(stream.core))
            /\ Elements(Tail(stream.core)) = {m \in Due(stream.coreTaken) : m > n}
        BY <2>2, <3>3, <4>1, CarriesTaken DEF Carries
      <4> HIDE DEF n
      <4>3. {m \in Due(stream.coreTaken) : m > n} = Due(n) /\ n <= L
        <5> HIDE DEF L
        <5> QED
          BY <3>2, <3>4, <4>2
      <4> QED
        BY <4>1, <4>2, <4>3 DEF Carries
    <3> HIDE DEF n
    <3>6. s \in Stream
      BY <1>1, <3>4 DEF Stream
    <3>7. /\ s.pc = stream.pc /\ s.asked = stream.asked /\ s.taken = stream.taken /\ s.events = stream.events
          /\ s.listed = stream.listed /\ s.closed = stream.closed /\ s.errors = stream.errors /\ s.last = stream.last
          /\ s.faults = stream.faults /\ s.core = Tail(stream.core) /\ s.coreTaken = n
          /\ s.coreLost = stream.coreLost /\ s.unasked = stream.unasked /\ s.coreListed = stream.coreListed
          /\ s.coreClosed = stream.coreClosed
      BY <1>1 DEF Stream
    <3> HIDE DEF s
    <3>8. CoreSide(s)
      BY <1>1, <3>5, <3>7 DEF CoreSide
    <3>9. FusionSide(s) /\ NotYet(s) /\ Sound(s)
      BY <1>1, <1>2, <3>7 DEF FusionSide, NotYet, Sound, Until
    <3> QED
      BY <1>2, <1>3, <3>1, <3>6, <3>7, <3>8, <3>9 DEF Served
  <2> QED
    BY <2>1, <2>2
<1> QED
  BY <1>4, <1>5, <1>6, <1>7 DEF Handle

LEMMA StreamInvariance == StreamSpec => []StreamInv
<1>1. StreamInv /\ [StreamNext]_streamVars => StreamInv'
  <2> SUFFICES ASSUME StreamInv, [StreamNext]_streamVars PROVE StreamInv'
    OBVIOUS
  <2>1. CASE UNCHANGED streamVars
    <3>1. Served(stream')
      BY <2>1 DEF StreamInv, streamVars
    <3> QED
      BY <2>1, <3>1, StreamAlone DEF streamVars
  <2>2. CASE StreamNext
    BY <2>2, PublishFusionInv, PublishCoreInv, SubscribeFusionInv, SubscribeCoreInv, CloseInv, HandleInv DEF StreamNext
  <2> QED
    BY <2>1, <2>2
<1> QED
  BY <1>1, StreamInitInv, PTL DEF StreamSpec

\* The types of the stream hold, and the history of a run never outgrows its
\* limit (Service.Publish in fusion/event/service.go).
THEOREM StreamTypes == StreamSpec => []StreamTypeOK
<1>1. StreamInv => StreamTypeOK
  <2> SUFFICES ASSUME StreamInv PROVE StreamTypeOK
    OBVIOUS
  <2>1. history \in Seq(Numbers)
    <3>1. history \in Seq(Nat) /\ Elements(history) \subseteq Numbers
      BY StreamConstants DEF StreamInv, HistoryKept, Numbers
    <3>2. Len(history) \in Nat /\ \A i \in 1..Len(history) : history[i] \in Numbers
      BY <3>1 DEF Elements
    <3>3. history \in [1..Len(history) -> Numbers]
      BY <3>1, <3>2
    <3> QED
      BY <3>2, <3>3
  <2> QED
    BY <2>1 DEF StreamInv, HistoryKept, CoreKept, Served, StreamTypeOK
<1> QED
  BY <1>1, StreamInvariance, PTL

\* A stream is told what it asked for, in order and without a gap, from the
\* event it resumes at until it ends, and no publisher ever meets a closed or a
\* full channel under the mutex, whatever the order in which publications,
\* Subscribe, its two closing goroutines and the rounds of the handler fall.
THEOREM StreamsAreHonest == StreamSpec => []StreamIsHonest
<1>1. StreamInv => StreamIsHonest
  BY DEF StreamInv, Served, FusionSide, CoreSide, Sound, Until, StreamIsHonest, FusionEventsGapless, ChannelsAreSafe,
         CoreEventsAccounted, FilterHolds
<1> QED
  BY <1>1, StreamInvariance, PTL
==============================================================================
