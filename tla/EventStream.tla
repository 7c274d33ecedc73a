----------------------------- MODULE EventStream -----------------------------
(***************************************************************************)
(* The event stream a client of Core reads.  Fusion events are numbered and *)
(* kept in a bounded history that a new subscription replays                *)
(* (fusion/event/service.go); Core events are not kept, and a full          *)
(* subscriber misses them (core/events/service.go).  EventHandler.Subscribe *)
(* selects over both.                                                       *)
(* An operator Op_Word is a plausible bug in Op; no specification uses it.  *)
(***************************************************************************)
EXTENDS Naturals, Sequences, FiniteSets

CONSTANTS
  EventTypes,     \* types of the run's Fusion events
  CategoryOf,     \* eventCategories: the Core category of a type, or Uncategorised
  CoreCategories, \* the categories Core itself publishes
  Uncategorised,
  OtherRun,       \* an event of another run: it only takes a number
  Requests,       \* the category filters a client asks for
  HistoryLimit,
  Slack,          \* defaultSubscriberBuffer
  Sizes,          \* the buffer of a Core subscription, which the configuration may change at any time
  MaxFusion, MaxCore   \* bounds of the model

ASSUME StreamConstants ==
  /\ OtherRun \notin EventTypes /\ HistoryLimit \in Nat \ {0} /\ Slack \in Nat
  /\ DOMAIN CategoryOf = EventTypes /\ Uncategorised \notin UNION Requests
  /\ Sizes \subseteq Nat \ {0} /\ MaxFusion \in Nat /\ MaxCore \in Nat

VARIABLES
  published,   \* Fusion events by number: nextSequence is the length
  history,     \* the retained numbers of the run
  corePublished,
  stream       \* the handler and its two subscriptions

streamVars == <<published, history, corePublished, stream>>

Numbers == 1..MaxFusion

\* The numbers in a channel or in the history; that a sequence carries the
\* numbers of a set in the order of their publication; the one that does.
Elements(s) == {s[i] : i \in DOMAIN s}
Increasing(s) == \A i, j \in DOMAIN s : i < j => s[i] < s[j]
Carries(s, S) == Increasing(s) /\ Elements(s) = S
Ascending(S) == [i \in 1..Cardinality(S) |-> CHOOSE n \in S : Cardinality({m \in S : m < n}) = i - 1]

Stream == [pc : {"idle", "fusion", "loop", "returned"}, asked : Requests \cup {{}},
           events : Seq(Numbers), listed : BOOLEAN, closed : BOOLEAN, errors : 0..2,
           core : Seq(1..MaxCore), coreSize : Sizes \cup {0}, coreListed : BOOLEAN, coreClosed : BOOLEAN,
           done : BOOLEAN, outcome : {"none", "ok", "exhausted", "cancelled", "broken"},
           \* history variables: the last number taken from each channel, the last one offered
           \* to a subscription that ended, Core events lost to a full buffer, an event sent that
           \* was not asked for, and sends to or closes of a closed channel
           taken : 0..MaxFusion, last : 0..MaxFusion, coreTaken : 0..MaxCore, coreLost : SUBSET (1..MaxCore),
           unasked : BOOLEAN, faults : 0..1]

StreamInit ==
  /\ published = <<>> /\ history = <<>> /\ corePublished = <<>>
  /\ stream = [pc |-> "idle", asked |-> {},
               events |-> <<>>, listed |-> FALSE, closed |-> FALSE, errors |-> 0,
               core |-> <<>>, coreSize |-> 0, coreListed |-> FALSE, coreClosed |-> FALSE,
               done |-> FALSE, outcome |-> "none",
               taken |-> 0, last |-> 0, coreTaken |-> 0, coreLost |-> {}, unasked |-> FALSE, faults |-> 0]

----------------------------------------------------------------------------
\* Fusion events.

\* typesFor: the types whose category was asked for.  An empty set of types
\* filters nothing (matches), also when categories were asked for.
TypesFor(asked) == {t \in EventTypes : CategoryOf[t] \in asked}
Matches_AnyType(asked, type) == type # OtherRun
Matches(asked, type) ==
  /\ type # OtherRun
  /\ TypesFor(asked) = {} \/ type \in TypesFor(asked)

Capacity == HistoryLimit + Slack

Trimmed_Late(h) == IF Len(h) > HistoryLimit + 1 THEN SubSeq(h, Len(h) - HistoryLimit, Len(h)) ELSE h
Trimmed(h) == IF Len(h) > HistoryLimit THEN SubSeq(h, Len(h) - HistoryLimit + 1, Len(h)) ELSE h

\* Publish sends to a subscription while it holds the mutex: to a channel that
\* is closed it would panic, and a second error would block it for ever.
Offered_KeepListed(s, n) ==
  IF Len(s.events) < Capacity THEN [s EXCEPT !.events = Append(@, n), !.faults = IF s.closed THEN 1 ELSE @]
  ELSE [s EXCEPT !.errors = @ + 1, !.closed = TRUE, !.last = n - 1, !.faults = IF s.closed THEN 1 ELSE @]
Offered(s, n) ==
  IF Len(s.events) < Capacity THEN [s EXCEPT !.events = Append(@, n), !.faults = IF s.closed THEN 1 ELSE @]
  ELSE [s EXCEPT !.errors = @ + 1, !.closed = TRUE, !.listed = FALSE, !.last = n - 1,
                 !.faults = IF s.closed THEN 1 ELSE @]

PublishFusion(type) ==
  LET n == Len(published) + 1 IN
  /\ n <= MaxFusion
  /\ published' = Append(published, type)
  /\ history' = IF type = OtherRun THEN history ELSE Trimmed(Append(history, n))
  /\ stream' = IF stream.listed /\ Matches(stream.asked, type) THEN Offered(stream, n) ELSE stream
  /\ UNCHANGED <<corePublished>>

\* Subscribe: the replay and the registration are one section.
Replay_SkipNext(asked, after) == Ascending({n \in Elements(history) : n > after + 1 /\ Matches(asked, published[n])})
Replay(asked, after) == Ascending({n \in Elements(history) : n > after /\ Matches(asked, published[n])})

\* History: the number up to which the subscriber has, or can no longer get, the
\* events.  One that is not given yet replays nothing and holds nothing back.
Resumed(after) == IF history = <<>> \/ after > Len(published) THEN Len(published)
                  ELSE IF after > Head(history) - 1 THEN after ELSE Head(history) - 1

SubscribeFusion(asked, after) ==
  /\ stream.pc = "idle"
  /\ stream' = [stream EXCEPT !.pc = "fusion", !.asked = asked, !.taken = Resumed(after),
                  !.events = Replay(asked, after), !.listed = TRUE]
  /\ UNCHANGED <<published, history, corePublished>>

\* The goroutine of Subscribe, once the stream's context is done.
CloseFusion_Missing == stream.done /\ FALSE /\ UNCHANGED streamVars
CloseFusion ==
  /\ stream.done /\ stream.listed
  /\ stream' = [stream EXCEPT !.listed = FALSE, !.closed = TRUE, !.last = Len(published),
                  !.faults = IF stream.closed THEN 1 ELSE @]
  /\ UNCHANGED <<published, history, corePublished>>

----------------------------------------------------------------------------
\* Core events.

PublishCore_DropsOldest(category) ==
  LET n == Len(corePublished) + 1 IN
  /\ n <= MaxCore
  /\ corePublished' = Append(corePublished, category)
  /\ stream' = IF ~stream.coreListed THEN stream
               ELSE IF Len(stream.core) < stream.coreSize THEN [stream EXCEPT !.core = Append(@, n)]
               ELSE [stream EXCEPT !.core = Append(Tail(@), n)]
  /\ UNCHANGED <<published, history>>
PublishCore(category) ==
  LET n == Len(corePublished) + 1 IN
  /\ n <= MaxCore
  /\ corePublished' = Append(corePublished, category)
  /\ stream' = IF ~stream.coreListed THEN stream
               ELSE IF Len(stream.core) < stream.coreSize
               THEN [stream EXCEPT !.core = Append(@, n), !.faults = IF stream.coreClosed THEN 1 ELSE @]
               ELSE [stream EXCEPT !.coreLost = @ \cup {n}]
  /\ UNCHANGED <<published, history>>

SubscribeCore(size) ==
  /\ stream.pc = "fusion"
  /\ stream' = [stream EXCEPT !.pc = "loop", !.coreSize = size, !.coreListed = TRUE, !.coreTaken = Len(corePublished)]
  /\ UNCHANGED <<published, history, corePublished>>

\* cancel: called by the handler when it returns and by the goroutine of
\* Subscribe; whoever finds the subscription closes the channel.
CoreCancelled(s) ==
  IF s.coreListed
  THEN [s EXCEPT !.coreListed = FALSE, !.coreClosed = TRUE, !.faults = IF s.coreClosed THEN 1 ELSE @] ELSE s

CloseCore ==
  /\ stream.done /\ stream.coreListed
  /\ stream' = CoreCancelled(stream)
  /\ UNCHANGED <<published, history, corePublished>>

----------------------------------------------------------------------------
\* The handler.

\* It returns: the deferred cancel runs, and gRPC ends the context.
Returned(s, outcome) ==
  [CoreCancelled(s) EXCEPT !.pc = "returned", !.outcome = outcome, !.done = TRUE]

\* Send, or its failure because the client is gone.
Sends(s) ==
  \/ stream' = s
  \/ s.done /\ stream' = Returned(s, "broken")

SelectErrors ==
  /\ stream.errors > 0 \/ stream.closed
  /\ stream' = IF stream.errors > 0 THEN Returned(stream, "exhausted") ELSE Returned(stream, "ok")

SelectEvents_Stuck ==
  /\ stream.events # <<>> /\ CategoryOf[published[Head(stream.events)]] # Uncategorised
  /\ Sends([stream EXCEPT !.events = Tail(@), !.taken = Head(stream.events)])
SelectEvents ==
  \/ /\ stream.events # <<>>
     /\ LET n == Head(stream.events)
            category == CategoryOf[published[n]]
            s == [stream EXCEPT !.events = Tail(@), !.taken = n] IN
        IF category = Uncategorised THEN stream' = s
        ELSE Sends([s EXCEPT !.unasked = @ \/ (stream.asked # {} /\ category \notin stream.asked)])
  \/ stream.events = <<>> /\ stream.closed /\ stream' = Returned(stream, "ok")

SelectCore ==
  \/ /\ stream.core # <<>>
     /\ LET n == Head(stream.core)
            s == [stream EXCEPT !.core = Tail(@), !.coreTaken = n] IN
        IF stream.asked = {} \/ corePublished[n] \in stream.asked THEN Sends(s) ELSE stream' = s
  \/ stream.core = <<>> /\ stream.coreClosed /\ stream' = Returned(stream, "ok")

SelectDone == stream.done /\ stream' = Returned(stream, "cancelled")

\* One round of the loop: select picks any case that is ready.
Handle ==
  /\ stream.pc = "loop"
  /\ SelectErrors \/ SelectEvents \/ SelectCore \/ SelectDone
  /\ UNCHANGED <<published, history, corePublished>>

\* The client goes away.
LeaveStream ==
  /\ stream.pc \in {"fusion", "loop"} /\ ~stream.done
  /\ stream' = [stream EXCEPT !.done = TRUE]
  /\ UNCHANGED <<published, history, corePublished>>

StreamNext ==
  \/ \E type \in EventTypes \cup {OtherRun} : PublishFusion(type)
  \/ \E category \in CoreCategories : PublishCore(category)
  \/ \E asked \in Requests, after \in 0..MaxFusion + 1 : SubscribeFusion(asked, after)
  \/ (\E size \in Sizes : SubscribeCore(size)) \/ LeaveStream \/ CloseFusion \/ CloseCore
  \/ Handle

\* The handler and the two closing goroutines, of which one or the other goes on.
StreamFairness == WF_streamVars((\E size \in Sizes : SubscribeCore(size)) \/ Handle \/ CloseFusion \/ CloseCore)
StreamSpec == StreamInit /\ [][StreamNext]_streamVars /\ StreamFairness

----------------------------------------------------------------------------
\* Properties.

\* Types; the history keeps to its limit.
StreamTypeOK ==
  /\ published \in Seq(EventTypes \cup {OtherRun}) /\ history \in Seq(Numbers) /\ Len(history) <= HistoryLimit
  /\ corePublished \in Seq(CoreCategories) /\ stream \in Stream

\* What a Fusion subscription still holds is, in order and without a gap, every
\* matching event after the one taken last (at first: the one resumed from, or
\* the newest the history had dropped), up to now or to the moment the
\* subscription ended (replay and registration against Publish).
FusionEventsGapless ==
  stream.pc # "idle" =>
    LET to == IF stream.listed THEN Len(published) ELSE stream.last IN
    Carries(stream.events, {n \in stream.taken + 1 .. to : Matches(stream.asked, published[n])})

\* Nobody sends on a closed channel or closes one twice, the replay fits into
\* its channel, and Publish finds room for the one error it sends: each of
\* these would stop every publisher, since it happens under the mutex.
ChannelsAreSafe ==
  /\ stream.faults = 0 /\ stream.errors <= 1
  /\ stream.listed => ~stream.closed /\ Len(stream.events) <= Capacity

\* A Core event published to an open stream is handed over, waiting, or was
\* lost to a full buffer; the handler sees nothing twice or out of order.
CoreEventsAccounted ==
  stream.coreListed =>
    Carries(stream.core, (stream.coreTaken + 1 .. Len(corePublished)) \ stream.coreLost)

\* A client that asked for a category Fusion publishes is sent nothing it did not
\* ask for.  (One that asked for Core's categories only is sent every Fusion event.)
FilterHolds == stream.unasked => TypesFor(stream.asked) = {}

\* A stream is told what it asked for, in order and without a gap, until it
\* ends, though publishers, subscribers and Close race.
StreamIsHonest == FusionEventsGapless /\ ChannelsAreSafe /\ CoreEventsAccounted /\ FilterHolds

\* A returned handler leaves no subscription behind.
HandlerReleases == stream.pc = "returned" ~> ~stream.listed /\ ~stream.coreListed

\* An event waiting in an open stream is taken, or the handler returns.
WaitingIsTaken ==
  \A n \in Numbers : stream.pc = "loop" /\ n \in Elements(stream.events)
                       ~> n <= stream.taken \/ stream.pc = "returned"
==============================================================================
