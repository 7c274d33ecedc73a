---------------------------- MODULE ConclusionPages ----------------------------
(***************************************************************************)
(* The reading of all conclusions of a run, page after page                 *)
(* (FusedConclusions of core/fusion over ListConclusions of fusion/engine), *)
(* for the assessment and the reports, while Fusion computes them anew.      *)
(* What a conclusion says is FusionRun; here it has an identifier and a     *)
(* place in the order of the keys.                                          *)
(* An operator Op_Word is a plausible bug in Op; no specification uses it.  *)
(***************************************************************************)
EXTENDS Integers, Sequences, FiniteSets

CONSTANTS
  Places,        \* a conclusion's key, in the order of the list: 1..n
  Identifiers,   \* of conclusions, each used once
  NoToken,
  PageSize       \* 1000 in the code

ASSUME PageConstants ==
  /\ PageSize \in Nat \ {0} /\ NoToken \notin Identifiers
  /\ Places \subseteq Nat /\ IsFiniteSet(Places)

VARIABLES
  listed,     \* Run.Conclusions: by place, the conclusion's identifier or NoToken
  used,       \* identifiers given out so far
  reading,    \* "no", "pages", "whole" or "failed"
  pageToken,  \* the last conclusion of the page before
  got,        \* what the reader has collected
  stayed,     \* history: the places with what they have held since the read began
  displaced   \* history: the token's conclusion got another place during the read

pageVars == <<listed, used, reading, pageToken, got, stayed, displaced>>

PagesInit ==
  /\ listed = [p \in Places |-> NoToken] /\ used = {}
  /\ reading = "no" /\ pageToken = NoToken /\ got = <<>>
  /\ stayed = {} /\ displaced = FALSE

Held(list) == {<<p, list[p]>> : p \in {q \in Places : list[q] # NoToken}}
PlaceIn(id, list) == {p \in Places : list[p] = id}

\* A computation or a removal of evidence.  A key keeps its identifier; another key
\* gets that of a conclusion whose evidence has moved there, or a new one.
Recompute(next) ==
  /\ \A p \in Places : next[p] \in {NoToken, listed[p]} \/ listed[p] = NoToken
  /\ \A p \in Places : next[p] \in used => PlaceIn(next[p], listed) # {}
  /\ \A p, q \in Places : next[p] = next[q] /\ next[p] # NoToken => p = q
  /\ next # listed
  /\ listed' = next
  /\ used' = used \cup ({next[p] : p \in Places} \ {NoToken})
  /\ stayed' = stayed \cap Held(next)
  /\ displaced' = (displaced \/ (reading = "pages" /\ pageToken # NoToken /\ PlaceIn(pageToken, next) # PlaceIn(pageToken, listed)))
  /\ UNCHANGED <<reading, pageToken, got>>

StartPages ==
  /\ reading = "no"
  /\ reading' = "pages" /\ pageToken' = NoToken /\ got' = <<>>
  /\ stayed' = Held(listed) /\ displaced' = FALSE
  /\ UNCHANGED <<listed, used>>

\* The places of the conclusions that follow the token in the order of the list.
After_Offset == {p \in Places : listed[p] # NoToken /\ Cardinality({q \in 1..p : listed[q] # NoToken}) > Len(got)}
After ==
  {p \in Places : listed[p] # NoToken /\ (pageToken = NoToken \/ \E q \in PlaceIn(pageToken, listed) : q < p)}
Page == {p \in After : Cardinality({q \in After : q < p}) < PageSize}
InOrder(S) == [k \in 1..Cardinality(S) |-> listed[CHOOSE p \in S : Cardinality({q \in S : q <= p}) = k]]

\* One ListConclusions.  A token whose conclusion is gone is refused.
NextPage ==
  /\ reading = "pages"
  /\ IF pageToken # NoToken /\ PlaceIn(pageToken, listed) = {}
     THEN reading' = "failed" /\ UNCHANGED <<pageToken, got>>
     ELSE /\ got' = got \o InOrder(Page)
          /\ reading' = IF Page = After THEN "whole" ELSE "pages"
          /\ pageToken' = IF Page = After THEN NoToken ELSE got'[Len(got')]
  /\ UNCHANGED <<listed, used, stayed, displaced>>

PagesNext ==
  \/ \E next \in [Places -> Identifiers \cup {NoToken}] : Recompute(next)
  \/ StartPages \/ NextPage

PagesSpec == PagesInit /\ [][PagesNext]_pageVars

----------------------------------------------------------------------------
\* Properties.

\* Types.
PagesTypeOK ==
  /\ listed \in [Places -> Identifiers \cup {NoToken}] /\ used \subseteq Identifiers
  /\ reading \in {"no", "pages", "whole", "failed"} /\ pageToken \in Identifiers \cup {NoToken}
  /\ \A k \in DOMAIN got : got[k] \in Identifiers
  /\ stayed \subseteq Places \X Identifiers /\ displaced \in BOOLEAN

\* A read that comes to its end holds every conclusion that kept its place all the
\* while, once, however the others come and go between two pages.  The exception is
\* a read during which the conclusion it went by moved to another resource and took
\* its identifier with it: that read goes on from the new place.
ReadIsWhole ==
  reading = "whole" /\ ~displaced =>
    \A held \in stayed : Cardinality({k \in DOMAIN got : got[k] = held[2]}) = 1
==============================================================================
