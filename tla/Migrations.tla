----------------------------- MODULE Migrations -----------------------------
(***************************************************************************)
(* What VersionMigrations and OWSDatabaseMigrationRunner do when the app   *)
(* is launched, with the app dying anywhere in between.                    *)
(*                                                                         *)
(* The check runs on the main thread.  It queues the transactions of the   *)
(* migrations that are not recorded and records the version; each          *)
(* migration is recorded later, when its transaction is done and the main  *)
(* thread is free.  Preferences and database survive the app.              *)
(***************************************************************************)
EXTENDS Integers, Sequences

CONSTANT MaxCrashes      \* bound
ASSUME CrashesAssumption == MaxCrashes \in Nat

Migration == {"100", "101", "102"}
AllMigrations == <<"100", "101", "102">>

Setting == {"blockOnIdentityChange", "logging"}

VARIABLES
  lastRanVersion,    \* "none", "old" (2.0.0 to 2.1.69, registered), "recent" or "current"
  recorded,          \* the migrations saved in the database
  recipients,        \* there are TSRecipient objects
  setting,           \* the two preferences that migrations set
  chosen,            \* what the user set them to since their migration was recorded
  background,        \* the upgrades that were started for an old version
  upgraded,          \* those that were done
  launch,            \* where the main thread is
  toCheck,           \* the migrations it has yet to look at
  transactions,      \* queued in the database
  completions,       \* queued on the main thread
  crashes

storedVars == <<lastRanVersion, recorded, recipients, setting, chosen, upgraded>>
launchVars == <<background, launch, toCheck, transactions, completions, crashes>>
migrationVars == <<storedVars, launchVars>>

Upgrade == {"attributes", "orphans"}

\* The setting that a migration sets, and to what: blocking is turned on, and
\* logging is what the database says, which is off.
SettingOf == [m \in {"101", "102"} |-> IF m = "101" THEN "blockOnIdentityChange" ELSE "logging"]
SetTo == [m \in {"101", "102"} |-> m = "101"]

MigrationInit ==
  /\ \/ lastRanVersion = "none" /\ recorded = {}
     \/ lastRanVersion = "old" /\ recorded = {}
     \/ lastRanVersion = "recent" /\ recorded \in {{}, {"100"}}
  /\ recipients = (lastRanVersion # "none" /\ recorded = {})
  /\ setting = [s \in Setting |-> s = "logging"]
  /\ chosen = [s \in Setting |-> {}]
  /\ upgraded = {} /\ background = {}
  /\ launch = "down" /\ toCheck = <<>>
  /\ transactions = {} /\ completions = {}
  /\ crashes = 0

\* performUpdateCheck: on the first launch ever there is nothing to migrate.
PerformUpdateCheck ==
  /\ launch = "down"
  /\ launch' = IF lastRanVersion = "none" THEN "assuming" ELSE "running"
  /\ background' = IF lastRanVersion = "old" THEN Upgrade ELSE {}
  /\ toCheck' = AllMigrations
  /\ UNCHANGED <<storedVars, transactions, completions, crashes>>

AssumeRun ==
  /\ launch = "assuming" /\ toCheck # <<>>
  /\ recorded' = recorded \cup {Head(toCheck)}
  /\ toCheck' = Tail(toCheck)
  /\ UNCHANGED <<lastRanVersion, recipients, setting, chosen, upgraded,
                 background, launch, transactions, completions, crashes>>

\* Defect: the migrations are run on an update only.
RunsOnUpdate ==
  /\ launch = "running" /\ toCheck # <<>>
  /\ transactions' = IF Head(toCheck) \in recorded \/ lastRanVersion = "current"
                     THEN transactions ELSE transactions \cup {Head(toCheck)}
  /\ toCheck' = Tail(toCheck)
  /\ UNCHANGED <<storedVars, background, launch, completions, crashes>>

\* Defect: a migration is recorded when it is started.
RecordsAtOnce ==
  /\ launch = "running" /\ toCheck # <<>>
  /\ transactions' = IF Head(toCheck) \in recorded
                     THEN transactions ELSE transactions \cup {Head(toCheck)}
  /\ recorded' = recorded \cup {Head(toCheck)}
  /\ toCheck' = Tail(toCheck)
  /\ UNCHANGED <<lastRanVersion, recipients, setting, chosen, upgraded,
                 background, launch, completions, crashes>>

\* runAllOutstanding
RunOutstanding ==
  /\ launch = "running" /\ toCheck # <<>>
  /\ transactions' = IF Head(toCheck) \in recorded
                     THEN transactions ELSE transactions \cup {Head(toCheck)}
  /\ toCheck' = Tail(toCheck)
  /\ UNCHANGED <<storedVars, background, launch, completions, crashes>>

\* The check ends with this, whatever it has started.
SetAndGetCurrentVersion ==
  /\ launch \in {"assuming", "running"} /\ toCheck = <<>>
  /\ lastRanVersion' = "current"
  /\ launch' = "up"
  /\ UNCHANGED <<recorded, recipients, setting, chosen, upgraded,
                 background, toCheck, transactions, completions, crashes>>

\* The migrations have connections of their own: their order is not given.
RunUpWithTransaction(m) ==
  /\ m \in transactions
  /\ recipients' = IF m = "100" THEN FALSE ELSE recipients
  /\ setting' = IF m = "100" THEN setting
                ELSE [setting EXCEPT ![SettingOf[m]] = SetTo[m]]
  /\ transactions' = transactions \ {m}
  /\ completions' = completions \cup {m}
  /\ UNCHANGED <<lastRanVersion, recorded, chosen, upgraded,
                 background, launch, toCheck, crashes>>

\* The completion block of runUp
SaveMigration(m) ==
  /\ launch = "up" /\ m \in completions
  /\ recorded' = recorded \cup {m}
  /\ completions' = completions \ {m}
  /\ UNCHANGED <<lastRanVersion, recipients, setting, chosen, upgraded,
                 background, launch, toCheck, transactions, crashes>>

\* blockingAttributesUpdate, with what retries it takes, and removeOrphanedData
FinishUpgrade(u) ==
  /\ u \in background
  /\ background' = background \ {u}
  /\ upgraded' = upgraded \cup {u}
  /\ UNCHANGED <<lastRanVersion, recorded, recipients, setting, chosen,
                 launch, toCheck, transactions, completions, crashes>>

\* The switches of the privacy and the advanced settings
UserSets(m, value) ==
  /\ launch = "up"
  /\ setting' = [setting EXCEPT ![SettingOf[m]] = value]
  /\ chosen' = IF m \in recorded THEN [chosen EXCEPT ![SettingOf[m]] = {value}] ELSE chosen
  /\ UNCHANGED <<lastRanVersion, recorded, recipients, upgraded, launchVars>>

\* The app dies.
Crash ==
  /\ launch # "down" /\ crashes < MaxCrashes
  /\ crashes' = crashes + 1
  /\ launch' = "down"
  /\ background' = {} /\ toCheck' = <<>>
  /\ transactions' = {} /\ completions' = {}
  /\ UNCHANGED storedVars

Proceeds ==
  \/ AssumeRun \/ RunOutstanding \/ SetAndGetCurrentVersion
  \/ \E m \in Migration : RunUpWithTransaction(m) \/ SaveMigration(m)

MigrationNext ==
  \/ PerformUpdateCheck
  \/ Proceeds
  \/ \E u \in Upgrade : FinishUpgrade(u)
  \/ \E m \in {"101", "102"}, value \in BOOLEAN : UserSets(m, value)
  \/ Crash

MigrationSpec == MigrationInit /\ [][MigrationNext]_migrationVars

-----------------------------------------------------------------------------

MigrationTypeOK ==
  /\ lastRanVersion \in {"none", "old", "recent", "current"}
  /\ recorded \subseteq Migration /\ recipients \in BOOLEAN
  /\ setting \in [Setting -> BOOLEAN]
  /\ chosen \in [Setting -> SUBSET BOOLEAN]
  /\ background \subseteq Upgrade /\ upgraded \subseteq Upgrade
  /\ launch \in {"down", "assuming", "running", "up"}
  /\ toCheck \in {AllMigrations, Tail(AllMigrations), Tail(Tail(AllMigrations)), <<>>}
  /\ transactions \subseteq Migration /\ completions \subseteq Migration
  /\ crashes \in 0 .. MaxCrashes
  /\ transactions \cap completions = {}
  /\ recorded \cap (transactions \cup completions) = {}
  /\ launch = "down" => background = {} /\ transactions = {} /\ completions = {}

(***************************************************************************)
(* A migration that is recorded has been made, wherever the app died: the  *)
(* old recipients are gone (OWSDatabaseMigration.m:54-64,                  *)
(* OWS100RemoveTSRecipientsMigration.m:20-25).                             *)
(***************************************************************************)
RecordedWasMade == "100" \in recorded => ~recipients

(***************************************************************************)
(* Once a migration is recorded, what the user makes of the setting it     *)
(* set stays, through every later launch                                   *)
(* (OWSDatabaseMigrationRunner.m:42-52).                                   *)
(***************************************************************************)
ChoiceIsKept == \A s \in Setting : chosen[s] \subseteq {setting[s]}

(***************************************************************************)
(* The record of migrations is to be trusted: nothing recorded is pending, *)
(* what is recorded was made, and it is not made again over what the user  *)
(* has chosen.                                                             *)
(***************************************************************************)
RecordIsTrusted == MigrationTypeOK /\ RecordedWasMade /\ ChoiceIsKept

(***************************************************************************)
(* A launch that lasts records every migration, also those that an earlier *)
(* launch left behind after it had recorded the version                    *)
(* (VersionMigrations.m:92-93).                                            *)
(***************************************************************************)
MigrationsAreRecorded == launch = "up" ~> recorded = Migration \/ launch = "down"
=============================================================================
