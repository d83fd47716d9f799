--------------------------- MODULE MessageFetcher ---------------------------
(***************************************************************************)
(* MessageFetcherJob: a run fetches a page of the envelopes that the       *)
(* server has for this device, hands each to the messages manager,         *)
(* acknowledges it, and runs again if there are more.  Runs overlap, as a  *)
(* notification and the activation of the app each start one; a page is    *)
(* handled in one piece on the main thread.                                *)
(*                                                                         *)
(* Envelopes are numbered in the order the server received them.  Those    *)
(* that cannot be built are skipped, and so are never acknowledged.        *)
(***************************************************************************)
EXTENDS Integers, FiniteSets

CONSTANTS
  Run,              \* runs at one time
  PageSize,         \* envelopes in a response
  Unreadable,       \* the envelopes that cannot be built
  MaxEnvelope, MaxDeaths      \* bounds

ASSUME PageAssumption == PageSize \in Nat \ {0}

VARIABLES
  undelivered,      \* the envelopes at the server
  arrived,          \* how many the server has received
  run,
  acks,             \* acknowledgements on their way
  handled,          \* given to the messages manager
  deaths

fetcherVars == <<undelivered, arrived, run, acks, handled, deaths>>

\* A run, with the rest of the response it is at; its first envelope may have
\* been handled.
Place(at, envelopes, more) == [at |-> at, envelopes |-> envelopes, more |-> more]
Resting == Place("resting", {}, FALSE)
Fetching == Place("fetching", {}, FALSE)
Page(envelopes, more) == Place("page", envelopes, more)
Handling(envelopes, more) == Place("handling", envelopes, more)
Handled(envelopes, more) == Place("handled", envelopes, more)

RunGoes(r, place) == run' = [run EXCEPT ![r] = place]

\* The main thread is not in the middle of another run's page.
MainIsFree(r) == \A q \in Run \ {r} : run[q].at \notin {"handling", "handled"}

FetcherInit ==
  /\ undelivered = {} /\ arrived = 0
  /\ run = [r \in Run |-> Resting]
  /\ acks = {} /\ handled = {}
  /\ deaths = 0

Arrive ==
  /\ arrived < MaxEnvelope
  /\ arrived' = arrived + 1
  /\ undelivered' = undelivered \cup {arrived + 1}
  /\ UNCHANGED <<run, acks, handled, deaths>>

RunAsync(r) ==
  /\ run[r] = Resting /\ MainIsFree(r)
  /\ RunGoes(r, Fetching)
  /\ UNCHANGED <<undelivered, arrived, acks, handled, deaths>>

\* What parseMessagesResponse makes of the server's next page, its oldest envelopes
NextPage ==
  LET page == {e \in undelivered : Cardinality({u \in undelivered : u < e}) < PageSize}
  IN Page(page \ Unreadable, Cardinality(undelivered) > PageSize)

\* Defect: envelopes are acknowledged when they are received.
AcknowledgesReceipt(r) ==
  /\ run[r] = Fetching
  /\ RunGoes(r, NextPage)
  /\ acks' = acks \cup NextPage.envelopes
  /\ UNCHANGED <<undelivered, arrived, handled, deaths>>

FetchSucceeds(r) ==
  /\ run[r] = Fetching
  /\ RunGoes(r, NextPage)
  /\ UNCHANGED <<undelivered, arrived, acks, handled, deaths>>

FetchFails(r) ==
  /\ run[r] = Fetching
  /\ RunGoes(r, Resting)
  /\ UNCHANGED <<undelivered, arrived, acks, handled, deaths>>

\* The envelope of a run's page whose turn it is
First(r) == {e \in run[r].envelopes : \A f \in run[r].envelopes : e <= f}

HandleReceivedEnvelope(r) ==
  /\ run[r].at \in {"page", "handling"} /\ MainIsFree(r)
  /\ run[r].envelopes # {}
  /\ handled' = handled \cup First(r)
  /\ RunGoes(r, Handled(run[r].envelopes, run[r].more))
  /\ UNCHANGED <<undelivered, arrived, acks, deaths>>

\* Defect: what was handled is not acknowledged.
HandlesOnly(r) ==
  /\ run[r].at = "handled"
  /\ RunGoes(r, Handling(run[r].envelopes \ First(r), run[r].more))
  /\ UNCHANGED <<undelivered, arrived, acks, handled, deaths>>

AcknowledgeDelivery(r) ==
  /\ run[r].at = "handled"
  /\ acks' = acks \cup First(r)
  /\ RunGoes(r, Handling(run[r].envelopes \ First(r), run[r].more))
  /\ UNCHANGED <<undelivered, arrived, handled, deaths>>

\* The page is done; the run is over or, with more messages, recurs.
PageIsDone(r) ==
  /\ run[r].at \in {"page", "handling"} /\ MainIsFree(r)
  /\ run[r].envelopes = {}
  /\ RunGoes(r, IF run[r].more THEN Fetching ELSE Resting)
  /\ UNCHANGED <<undelivered, arrived, acks, handled, deaths>>

\* The server takes an acknowledgement, of an envelope it may have deleted already.
AckArrives(e) ==
  /\ e \in acks
  /\ acks' = acks \ {e}
  /\ undelivered' = undelivered \ {e}
  /\ UNCHANGED <<arrived, run, handled, deaths>>

AckIsLost(e) ==
  /\ e \in acks
  /\ acks' = acks \ {e}
  /\ UNCHANGED <<undelivered, arrived, run, handled, deaths>>

\* The app dies and is launched again.
Die ==
  /\ deaths < MaxDeaths
  /\ deaths' = deaths + 1
  /\ run' = [r \in Run |-> Resting]
  /\ UNCHANGED <<undelivered, arrived, acks, handled>>

FetcherNext ==
  \/ Arrive
  \/ \E r \in Run :
       \/ RunAsync(r) \/ FetchSucceeds(r) \/ FetchFails(r)
       \/ HandleReceivedEnvelope(r) \/ AcknowledgeDelivery(r) \/ PageIsDone(r)
  \/ \E e \in 1 .. MaxEnvelope : AckArrives(e) \/ AckIsLost(e)
  \/ Die

FetcherSpec == FetcherInit /\ [][FetcherNext]_fetcherVars

-----------------------------------------------------------------------------

(***************************************************************************)
(* Envelopes are handled in the order the server received them: none is    *)
(* handled, nor deleted at the server, while an earlier one was not handed *)
(* over, although runs overlap, acknowledgements are lost and the app dies *)
(* in the middle of a page (MessageFetcherJob.swift:40-51).                *)
(***************************************************************************)
HandledInOrder ==
  \A e \in 1 .. arrived \ (handled \cup Unreadable) :
    /\ \A later \in handled : later < e
    /\ e \in undelivered

(***************************************************************************)
(* Every message is handled, as long as the envelopes that cannot be built *)
(* do not fill a page (MessageFetcherJob.swift:40-51, 98).                 *)
(***************************************************************************)
MessagesAreHandled ==
  \A e \in 1 .. MaxEnvelope \ Unreadable : e <= arrived ~> e \in handled
=============================================================================
