---------------------------- MODULE MCLaunches ----------------------------
(***************************************************************************)
(* What a launch starts, one part in each behaviour: the parts have no     *)
(* state in common.                                                        *)
(***************************************************************************)
EXTENDS Migrations, PushTokens, MessageFetcher

MCJob == {"launch", "user"}
MCRun == {"notification", "activation"}
MCUnreadable == {2}

VARIABLE part

LaunchesInit ==
  /\ MigrationInit /\ TokensInit /\ FetcherInit
  /\ part \in {"migrations", "tokens", "fetcher"}

LaunchesNext ==
  /\ UNCHANGED part
  /\ \/ part = "migrations" /\ MigrationNext /\ UNCHANGED <<tokenVars, fetcherVars>>
     \/ part = "tokens" /\ TokensNext /\ UNCHANGED <<migrationVars, fetcherVars>>
     \/ part = "fetcher" /\ FetcherNext /\ UNCHANGED <<migrationVars, tokenVars>>

\* The app goes on with a launch; runs recur, and what is sent again and again arrives.
LaunchesSpec ==
  /\ LaunchesInit /\ [][LaunchesNext]_<<part, migrationVars, tokenVars, fetcherVars>>
  /\ WF_migrationVars(part = "migrations" /\ Proceeds)
  /\ \A r \in Run :
       /\ WF_fetcherVars(part = "fetcher" /\ RunAsync(r))
       /\ SF_fetcherVars(part = "fetcher" /\ FetchSucceeds(r))
       /\ WF_fetcherVars(part = "fetcher" /\ (HandleReceivedEnvelope(r)
                                               \/ AcknowledgeDelivery(r) \/ PageIsDone(r)))
  /\ \A e \in 1 .. MaxEnvelope : SF_fetcherVars(part = "fetcher" /\ AckArrives(e))
=============================================================================
