----------------------------- MODULE PushTokens -----------------------------
(***************************************************************************)
(* SyncPushTokensJob and AccountManager's updatePushTokens: the device's   *)
(* tokens are uploaded to one server after the other and then recorded,    *)
(* and a job whose tokens are recorded already uploads nothing.            *)
(*                                                                         *)
(* Assumed: the device's tokens change between launches only.  Jobs of one *)
(* launch may overlap (one at launch, others when the user asks).          *)
(***************************************************************************)
EXTENDS Integers

CONSTANTS Job, MaxToken, MaxRestarts     \* the last two are bounds

VARIABLES
  device,        \* the device's tokens, as a number: 1, and then others
  textSecure,    \* the tokens each server has
  redPhone,
  pushToken,     \* the tokens in the preferences
  voipToken,
  job,           \* where each job is
  restarts

tokenVars == <<device, textSecure, redPhone, pushToken, voipToken, job, restarts>>
recordVars == <<pushToken, voipToken>>

TokensInit ==
  /\ device = 1
  /\ textSecure = 0 /\ redPhone = 0
  /\ pushToken = 0 /\ voipToken = 0
  /\ job = [j \in Job |-> "idle"]
  /\ restarts = 0

JobGoes(j, place) == job' = [job EXCEPT ![j] = place]

\* run: at launch uploadOnlyIfStale, and whatever is recorded when the user asks.
RunJob(j, when) ==
  /\ job[j] \in {"idle", "succeeded", "failed"}
  /\ JobGoes(j, when)
  /\ UNCHANGED <<device, textSecure, redPhone, recordVars, restarts>>

TokensReceived(j) ==
  /\ job[j] \in {"stale", "always"}
  /\ JobGoes(j, IF pushToken = device /\ voipToken = device /\ job[j] = "stale"
                THEN "succeeded" ELSE "textSecure")
  /\ UNCHANGED <<device, textSecure, redPhone, recordVars, restarts>>

\* The device gives no tokens.
TokensRefused(j) ==
  /\ job[j] \in {"stale", "always"}
  /\ JobGoes(j, "failed")
  /\ UNCHANGED <<device, textSecure, redPhone, recordVars, restarts>>

UpdateTextSecure(j) ==
  /\ job[j] = "textSecure"
  /\ textSecure' = device
  /\ JobGoes(j, "redPhone")
  /\ UNCHANGED <<device, redPhone, recordVars, restarts>>

\* Defect: the second server's answer is not waited for.
UpdatesInParallel(j) ==
  /\ job[j] = "redPhone"
  /\ \E reached \in BOOLEAN : redPhone' = IF reached THEN device ELSE redPhone
  /\ JobGoes(j, "recording")
  /\ UNCHANGED <<device, textSecure, recordVars, restarts>>

UpdateRedPhone(j) ==
  /\ job[j] = "redPhone"
  /\ redPhone' = device
  /\ JobGoes(j, "recording")
  /\ UNCHANGED <<device, textSecure, recordVars, restarts>>

\* A request is lost, or its answer is.
UpdateFails(j) ==
  /\ job[j] \in {"textSecure", "redPhone"}
  /\ \E reached \in BOOLEAN :
       /\ textSecure' = IF reached /\ job[j] = "textSecure" THEN device ELSE textSecure
       /\ redPhone' = IF reached /\ job[j] = "redPhone" THEN device ELSE redPhone
  /\ JobGoes(j, "failed")
  /\ UNCHANGED <<device, recordVars, restarts>>

RecordNewPushTokens(j) ==
  /\ job[j] = "recording"
  /\ pushToken' = device /\ voipToken' = device
  /\ JobGoes(j, "succeeded")
  /\ UNCHANGED <<device, textSecure, redPhone, restarts>>

\* The app dies, perhaps between two writes of a job or with requests under way,
\* and is launched again, perhaps with other tokens.
Restart ==
  /\ restarts < MaxRestarts
  /\ restarts' = restarts + 1
  /\ device' \in {device, device + 1} \cap 1 .. MaxToken
  /\ pushToken' \in {pushToken} \cup {device : j \in {i \in Job : job[i] = "recording"}}
  /\ textSecure' \in {textSecure} \cup {device : j \in {i \in Job : job[i] = "textSecure"}}
  /\ redPhone' \in {redPhone} \cup {device : j \in {i \in Job : job[i] = "redPhone"}}
  /\ job' = [j \in Job |-> "idle"]
  /\ UNCHANGED voipToken

TokensNext ==
  \/ \E j \in Job :
       \/ RunJob(j, "stale") \/ RunJob(j, "always")
       \/ TokensReceived(j) \/ TokensRefused(j)
       \/ UpdateTextSecure(j) \/ UpdateRedPhone(j) \/ UpdateFails(j)
       \/ RecordNewPushTokens(j)
  \/ Restart

TokensSpec == TokensInit /\ [][TokensNext]_tokenVars

-----------------------------------------------------------------------------

(***************************************************************************)
(* A job that succeeded, be it that it found nothing to upload, tells the  *)
(* truth: both servers have the device's tokens.  The user is told so      *)
(* (AdvancedSettingsTableViewController.m:181-183).  Failures, overlapping *)
(* jobs and crashes half way through the record do not spoil the record    *)
(* (SyncPushTokensJob.swift:37-55, AccountManager.swift:80-95).            *)
(***************************************************************************)
SuccessIsTrue ==
  \A j \in Job : job[j] = "succeeded" =>
    /\ textSecure = device /\ redPhone = device
    /\ pushToken = device /\ voipToken = device
=============================================================================
