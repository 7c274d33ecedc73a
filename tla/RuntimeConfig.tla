---------------------------- MODULE RuntimeConfig ----------------------------
(***************************************************************************)
(* The runtime configuration (core/runtimeconfig/service.go) and the        *)
(* services that use it: every accepted change is told to them by a         *)
(* goroutine of its own, one setter after the other, as main.go registers.  *)
(* An operator Op_Word is a plausible bug in Op; no specification uses it.  *)
(***************************************************************************)
EXTENDS Naturals, Sequences, FiniteSets

CONSTANTS
  Setters,      \* the settings the listener passes on, in its order
  Values,       \* their legal values; 0 stands for those validate refuses
  Default,
  MaxRevision   \* bound on accepted changes

Settings == {Setters[k] : k \in DOMAIN Setters}

ASSUME ConfigConstants ==
  /\ 0 \notin Values /\ Default \in Values /\ MaxRevision \in Nat
  /\ Setters \in Seq(Settings) /\ Setters # <<>>

VARIABLES
  config,      \* Service.current: its revision and the settings
  consumer,    \* the setting each service works with
  notifying,   \* the goroutines that still have setters to call
  overlapping  \* history: what the last change and those it overlaps with ask for

configVars == <<config, consumer, notifying, overlapping>>

\* Subscribe has told the defaults before the server starts.
ConfigInit ==
  /\ config = [revision |-> 0, values |-> [s \in Settings |-> Default]]
  /\ consumer = [s \in Settings |-> Default]
  /\ notifying = {} /\ overlapping = {config.values}

\* An accepted change, and the goroutine that tells it.
Accept_OldValues(values) ==
  /\ config.revision < MaxRevision
  /\ config' = [revision |-> config.revision + 1, values |-> values]
  /\ notifying' = notifying \cup {[revision |-> config.revision + 1, values |-> config.values, at |-> 1]}
  /\ overlapping' = {values} \cup (IF notifying = {} THEN {} ELSE overlapping)
  /\ UNCHANGED consumer
Accept(values) ==
  /\ config.revision < MaxRevision
  /\ config' = [revision |-> config.revision + 1, values |-> values]
  /\ notifying' = notifying \cup {[revision |-> config.revision + 1, values |-> values, at |-> 1]}
  /\ overlapping' = {values} \cup (IF notifying = {} THEN {} ELSE overlapping)
  /\ UNCHANGED consumer

\* The settings of the mask change together or not at all.
UpdateConfig(mask, wanted) ==
  LET next == [s \in Settings |-> IF s \in mask THEN wanted[s] ELSE config.values[s]]
  IN mask # {} /\ (\A s \in Settings : next[s] \in Values) /\ Accept(next)

RestoreDefaults == Accept([s \in Settings |-> Default])

\* The setters ignore 0.
Notify_First(n) ==
  /\ n \in notifying
  /\ consumer' = [consumer EXCEPT ![Setters[1]] = n.values[Setters[1]]]
  /\ notifying' = notifying \ {n}
  /\ UNCHANGED <<config, overlapping>>
Notify(n) ==
  /\ n \in notifying
  /\ consumer' = [consumer EXCEPT ![Setters[n.at]] = IF n.values[Setters[n.at]] = 0 THEN @ ELSE n.values[Setters[n.at]]]
  /\ notifying' = (notifying \ {n}) \cup (IF n.at = Len(Setters) THEN {} ELSE {[n EXCEPT !.at = @ + 1]})
  /\ UNCHANGED <<config, overlapping>>

ConfigNext ==
  \/ \E mask \in SUBSET Settings : \E wanted \in [mask -> Values \cup {0}] : UpdateConfig(mask, wanted)
  \/ RestoreDefaults
  \/ \E n \in notifying : Notify(n)

ConfigFairness == WF_configVars(\E n \in notifying : Notify(n))
ConfigSpec == ConfigInit /\ [][ConfigNext]_configVars /\ ConfigFairness

----------------------------------------------------------------------------
\* Properties.

\* Types.
ConfigTypeOK ==
  /\ config \in [revision : 0..MaxRevision, values : [Settings -> Values]]
  /\ consumer \in [Settings -> Values] /\ overlapping \subseteq [Settings -> Values]
  /\ \A n \in notifying : n.revision \in 1..MaxRevision /\ n.at \in DOMAIN Setters

\* When everything has been told, each service works with the current setting, or
\* with that of a change that overlapped with the last one: an older goroutine may
\* come last.  Nothing older than these survives, whatever came between, and after
\* a change made alone all of them work with it.
ConsumersAreCurrent ==
  notifying = {} => \A s \in Settings : \E values \in overlapping : consumer[s] = values[s]

\* A change that is made alone reaches the services.
ChangesArrive == \A r \in 1..MaxRevision :
  config.revision = r /\ overlapping = {config.values} ~> config.revision # r \/ consumer = config.values
==============================================================================
