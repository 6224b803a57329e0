----------------------------- MODULE SettingsProofs -----------------------------
(***************************************************************************)
(* Theorems about Settings: types, what a quiet device runs on, and that a *)
(* confirmed configuration survives, for any values of the fields.  And    *)
(* about ScheduledReboot, which one of them times: it does not loop, and   *)
(* misses its minute only by a late check, for minutes and days of any     *)
(* length.                                                                 *)
(***************************************************************************)
EXTENDS Settings, ScheduledReboot, TLAPS

\* FieldOrder lists every field once.
LEMMA OrderFacts ==
  /\ Len(FieldOrder) = 6
  /\ \A k \in 1 .. 6 : FieldOrder[k] \in Fields
  /\ \A f \in Fields : \E k \in 1 .. 6 : FieldOrder[k] = f
  /\ \A j, k \in 1 .. 6 : FieldOrder[j] = FieldOrder[k] => j = k
  <1>1. /\ FieldOrder[1] = "wifi" /\ FieldOrder[2] = "mic" /\ FieldOrder[3] = "tx"
        /\ FieldOrder[4] = "log" /\ FieldOrder[5] = "ntp" /\ FieldOrder[6] = "wg"
        /\ Len(FieldOrder) = 6
    BY DEF FieldOrder
  <1>2. \A k \in 1 .. 6 : k = 1 \/ k = 2 \/ k = 3 \/ k = 4 \/ k = 5 \/ k = 6
    OBVIOUS
  <1>3. QED
    BY <1>1, <1>2 DEF Fields

Stored  == g_config \in Configs /\ nvs \in Configs /\ saving \in 0 .. 6
Usage   == used \in [Applied -> Values \cup {None}] /\ boot \in BootSteps
Serving == /\ pc \in {"idle", "saving", "answer"} /\ req \in Requests
           /\ old \in [Compared -> Values] \cup {None}
Ending  == /\ button \in {"idle", "erased"} /\ reboot \in BOOLEAN
           /\ promised \in Configs \cup {None}
           /\ erased \in BOOLEAN /\ unsaved \in BOOLEAN
           /\ unborn \in BOOLEAN /\ unpointed \in BOOLEAN

\* The types hold at power-on.
LEMMA TypeInit == Init => TypeOK
  <1>1. Defaults \in Configs
    BY DEF Defaults, Configs, Values
  <1>2. [f \in Applied |-> None] \in [Applied -> Values \cup {None}]
    OBVIOUS
  <1>3. ASSUME Init
        PROVE  Stored /\ Usage /\ Serving /\ Ending
    <2>1. Stored
      BY <1>1, <1>3 DEF Init, TypeOK, Stored
    <2>2. Usage
      BY <1>2, <1>3 DEF Init, Usage, BootSteps
    <2>3. Serving
      BY <1>3 DEF Init, Serving, Requests
    <2>4. Ending
      BY <1>3 DEF Init, TypeOK, Ending
    <2>5. QED
      BY <2>1, <2>2, <2>3, <2>4
  <1>4. QED
    BY <1>3 DEF TypeOK, Stored, Usage, Serving, Ending

\* A restart loses RAM and nothing of the types.
LEMMA TypeRestarted == TypeOK /\ Restarted => TypeOK'
  <1>1. Defaults \in Configs
    BY DEF Defaults, Configs, Values
  <1>2. [f \in Applied |-> None] \in [Applied -> Values \cup {None}]
    OBVIOUS
  <1>3. ASSUME Restarted, TypeOK
        PROVE  Stored' /\ Usage' /\ Serving' /\ Ending'
    <2>1. Stored'
      BY <1>1, <1>3 DEF Restarted, TypeOK, Stored
    <2>2. Usage'
      BY <1>2, <1>3 DEF Restarted, Usage, BootSteps
    <2>3. Serving'
      BY <1>3 DEF Restarted, Serving, Requests
    <2>4. Ending'
      BY <1>3 DEF Restarted, TypeOK, Ending
    <2>5. QED
      BY <2>1, <2>2, <2>3, <2>4
  <1>4. QED
    BY <1>3 DEF TypeOK, Stored, Usage, Serving, Ending

\* Every step keeps the types.
LEMMA TypeStep == TypeOK /\ [Next]_vars => TypeOK'
  <1> SUFFICES ASSUME TypeOK, [Next]_vars PROVE TypeOK'
    OBVIOUS
  <1> USE DEF TypeOK, BootSteps, Requests, bootVars, webVars, faultVars
  <1>0. /\ Defaults \in Configs /\ Applied \subseteq Fields /\ Compared \subseteq Fields
        /\ Default \in Values
    BY DEF Defaults, Configs, Values, Applied, Fields, Compared
  <1>1. CASE AppConfigLoad \/ LogPersistInitSaved \/ WebServerStart \/ SetupOnly
    BY <1>1 DEF AppConfigLoad, LogPersistInitSaved, WebServerStart, SetupOnly
  <1>2. CASE \/ WifiManagerStart \/ ClockStart \/ WireguardManagerStart
             \/ AudioPipelineStart
    <2>1. used' \in [Applied -> Values \cup {None}]
      BY <1>2, <1>0 DEF ApplyTxPower, TimeSyncStarted, WifiManagerStart, ClockStart,
         WireguardManagerStart, AudioPipelineStart, Configs, Fields, Applied
    <2>2. QED
      BY <1>2, <2>1 DEF ApplyTxPower, WifiManagerStart, ClockStart,
         WireguardManagerStart, AudioPipelineStart
  <1>3. ASSUME NEW ok \in BOOLEAN, LogPersistInit(ok)
        PROVE  TypeOK'
    <2>1. g_config' \in Configs
      BY <1>3 DEF LogPersistInit, Configs, Values
    <2>2. QED
      BY <1>3, <2>1 DEF LogPersistInit
  <1>4. CASE OpenFails \/ WriteRefused
    <2>1. saving' \in 0 .. 6
      BY <1>4, OrderFacts DEF OpenFails, WriteRefused
    <2>2. unsaved' \in BOOLEAN
      BY <1>4 DEF OpenFails, WriteRefused
    <2>3. QED
      BY <1>4, <2>1, <2>2 DEF OpenFails, WriteRefused
  <1>5. CASE WriteField
    <2>1. saving \in 1 .. 6 /\ saving' \in 0 .. 6
      BY <1>5, OrderFacts DEF WriteField
    <2>2. nvs' \in Configs
      BY <1>5, <2>1, OrderFacts DEF WriteField, Configs
    <2>3. QED
      BY <1>5, <2>1, <2>2 DEF WriteField
  <1>6. ASSUME NEW form \in Forms, TakeForm(form)
        PROVE  TypeOK'
    <2>1. PICK S \in SUBSET FormFields : form \in [S -> {Default, Custom}]
      BY DEF Forms
    <2>2. g_config' \in Configs
      BY <1>6, <2>1 DEF TakeForm, Configs, Values
    <2>3. old' \in [Compared -> Values]
      BY <1>6, <1>0 DEF TakeForm, Configs
    <2>4. unsaved' \in BOOLEAN
      BY <1>6 DEF TakeForm, SaveBegins
    <2>5. QED
      BY <1>6, <2>2, <2>3, <2>4 DEF TakeForm, SaveBegins
  <1>7. ASSUME NEW value \in TunnelValues, TakeTunnel(value)
        PROVE  TypeOK'
    <2>1. g_config' \in Configs
      BY <1>7, TunnelAssumption DEF TakeTunnel, Configs, Values
    <2>2. unsaved' \in BOOLEAN
      BY <1>7 DEF TakeTunnel, SaveBegins
    <2>3. QED
      BY <1>7, <2>1, <2>2 DEF TakeTunnel, SaveBegins
  <1>8. CASE TakeToggle \/ TakeReboot
    <2>1. g_config' \in Configs
      BY <1>8 DEF TakeToggle, TakeReboot, Configs, Values
    <2>2. unsaved' \in BOOLEAN
      BY <1>8 DEF TakeToggle, TakeReboot, SaveBegins
    <2>3. CASE TakeToggle
      BY <2>1, <2>2, <2>3 DEF TakeToggle, SaveBegins
    <2>4. CASE TakeReboot
      BY <2>1, <2>2, <2>4 DEF TakeReboot
    <2>5. QED
      BY <1>8, <2>3, <2>4
  <1>9. ASSUME NEW kept \in Leftovers, TakeReset(kept) \/ ButtonErases(kept)
        PROVE  TypeOK'
    <2>1. nvs' \in Configs /\ g_config' \in Configs /\ erased' \in BOOLEAN
      BY <1>9, <1>0 DEF TakeReset, ButtonErases, FactoryReset, Configs
    <2>2. promised' \in Configs \cup {None}
      BY <1>9, <1>0 DEF TakeReset, ButtonErases
    <2>3. CASE TakeReset(kept)
      BY <2>1, <2>2, <2>3 DEF TakeReset
    <2>4. CASE ButtonErases(kept)
      BY <2>1, <2>2, <2>4 DEF ButtonErases
    <2>5. QED
      BY <1>9, <2>3, <2>4
  <1>10. ASSUME NEW ap \in BOOLEAN, Saved(ap)
         PROVE  TypeOK'
    <2>1. used' \in [Applied -> Values \cup {None}]
      BY <1>10, <1>0 DEF Saved, ApplyTxPower, TimeSyncStarted, Configs, Fields, Applied
    <2>2. QED
      BY <1>10, <2>1 DEF Saved
  <1>11. ASSUME NEW ok \in BOOLEAN, Answer(ok)
         PROVE  TypeOK'
    BY <1>11 DEF Answer
  <1>13. CASE ClockAborts \/ RebootTask \/ ButtonRestarts \/ PowerCut
    BY <1>13, TypeRestarted DEF ClockAborts, RebootTask, ButtonRestarts, PowerCut
  <1>14. CASE UNCHANGED vars
    BY <1>14 DEF vars
  <1>15. QED
    BY <1>1, <1>2, <1>3, <1>4, <1>5, <1>6, <1>7, <1>8, <1>9, <1>10, <1>11, <1>13,
       <1>14 DEF Next, AppConfigSave

\* Every variable of Settings keeps its type, for any values and faults.
THEOREM TypeCorrect == Spec => []TypeOK
  BY TypeInit, TypeStep, PTL DEF Spec

------------------------------------------------------------------------------

\* Who may be doing what: a save has one caller, an erase is on its way to a restart.
Phases ==
  /\ saving # 0 => \/ boot = "logsave" /\ pc = "idle"
                   \/ boot \in {"web", "clock", "wg", "up"} /\ pc = "saving"
  /\ pc # "idle" => boot \in {"web", "clock", "wg", "up"}
  /\ boot \in {"load", "log", "logsave"} =>
       button = "idle" /\ ~reboot /\ ~erased /\ ~unborn
  /\ boot \in {"load", "log"} => ~unsaved
  /\ erased => button = "erased" \/ reboot \/ unborn \/ (pc = "answer" /\ req = "reset")

\* The fields that have been written since the last change are in NVS.
Copies ==
  boot # "load" /\ ~erased /\ ~unsaved =>
    \A k \in 1 .. 6 : (saving = 0 \/ k < saving) =>
                        nvs[FieldOrder[k]] = g_config[FieldOrder[k]]

Kept ==
  /\ PromiseKept
  /\ promised # None /\ saving # 0 => boot = "logsave"

\* What has been put to use is out of date only where a restart or an answer is due.
Uses ==
  /\ boot = "load" => \A f \in Applied : used[f] = None
  /\ used["tx"] \in {None, g_config["tx"]} \/ (req = "save" /\ pc = "saving")
  /\ \/ used["ntp"] \in {None, g_config["ntp"]} \/ unpointed
     \/ req = "save" /\ pc = "saving" /\ old["ntp"] # g_config["ntp"]
  /\ used["wg"] \in {None, g_config["wg"]} \/ reboot \/ unborn
       \/ (req = "wg" /\ pc # "idle")
  /\ \A f \in Restarting :
       \/ used[f] \in {None, g_config[f]} \/ reboot \/ unborn
       \/ req = "save" /\ pc # "idle" /\ old[f] # g_config[f]

IInv == Phases /\ Copies /\ Kept /\ Uses

\* Power-on is a restart with nothing in NVS.
LEMMA InitInv == Init => IInv
  BY DEF Init, IInv, Phases, Copies, Kept, Uses, PromiseKept, Applied, Restarting

\* A restart leaves nothing in hand, and NVS as it is.
LEMMA RestartedInv == TypeOK /\ IInv /\ Restarted => IInv'
  BY DEF Restarted, IInv, Phases, Copies, Kept, Uses, PromiseKept, Applied,
     Restarting

\* Where nothing is being saved, NVS is the configuration.
LEMMA CopiesWhole ==
  ASSUME TypeOK, Copies, boot # "load", ~erased, ~unsaved, saving = 0
  PROVE  nvs = g_config
  BY OrderFacts DEF TypeOK, Copies, Configs

\* Every step keeps who may be doing what.
LEMMA PhasesStep == TypeOK /\ IInv /\ [Next]_vars => Phases'
  <1> SUFFICES ASSUME TypeOK, IInv, [Next]_vars PROVE Phases'
    OBVIOUS
  <1> USE DEF TypeOK, IInv, Phases, BootSteps, bootVars, webVars, faultVars, Idle
  <1>1. CASE AppConfigLoad \/ LogPersistInitSaved \/ WifiManagerStart
             \/ WebServerStart \/ SetupOnly \/ ClockStart
             \/ WireguardManagerStart \/ AudioPipelineStart
    BY <1>1 DEF AppConfigLoad, LogPersistInitSaved, WebServerStart, SetupOnly,
       WifiManagerStart, ClockStart, WireguardManagerStart, AudioPipelineStart
  <1>2. CASE OpenFails \/ WriteField \/ WriteRefused
    BY <1>2, OrderFacts DEF OpenFails, WriteField, WriteRefused
  <1>3. CASE \/ \E form \in Forms : TakeForm(form)
             \/ \E value \in TunnelValues : TakeTunnel(value)
             \/ TakeToggle \/ TakeReboot \/ \E ap \in BOOLEAN : Saved(ap)
    BY <1>3 DEF TakeForm, TakeTunnel, TakeToggle, SaveBegins, TakeReboot, Saved
  <1>4. CASE \/ \E ok \in BOOLEAN : LogPersistInit(ok)
             \/ \E kept \in Leftovers : TakeReset(kept)
    BY <1>4 DEF LogPersistInit, TakeReset, FactoryReset
  <1>5. ASSUME NEW ok \in BOOLEAN, Answer(ok)
        PROVE  Phases'
    BY <1>5 DEF Answer, RebootNeeded, RebootAnyway
  <1>6. ASSUME NEW kept \in Leftovers, ButtonErases(kept)
        PROVE  Phases'
    BY <1>6 DEF ButtonErases, FactoryReset
  <1>7. CASE ClockAborts \/ RebootTask \/ ButtonRestarts \/ PowerCut
    BY <1>7, RestartedInv DEF ClockAborts, RebootTask, ButtonRestarts, PowerCut
  <1>8. CASE UNCHANGED vars
    BY <1>8 DEF vars
  <1>9. QED
    BY <1>1, <1>2, <1>3, <1>4, <1>5, <1>6, <1>7, <1>8 DEF Next, AppConfigSave

\* Every step keeps the copy, as far as it has been written.
LEMMA CopiesStep == TypeOK /\ IInv /\ [Next]_vars => Copies'
  <1> SUFFICES ASSUME TypeOK, IInv, [Next]_vars PROVE Copies'
    OBVIOUS
  <1> USE DEF TypeOK, IInv, Phases, Copies, bootVars, webVars, faultVars, Idle
  <1>1. CASE AppConfigLoad
    BY <1>1 DEF AppConfigLoad
  <1>2. CASE \/ LogPersistInitSaved \/ WifiManagerStart \/ WebServerStart
             \/ SetupOnly \/ ClockStart \/ WireguardManagerStart
             \/ AudioPipelineStart \/ TakeReboot \/ \E ap \in BOOLEAN : Saved(ap)
    BY <1>2 DEF LogPersistInitSaved, WebServerStart, SetupOnly, WifiManagerStart,
       ClockStart, WireguardManagerStart, AudioPipelineStart, TakeReboot, Saved
  <1>3. CASE OpenFails \/ WriteRefused
    BY <1>3 DEF OpenFails, WriteRefused
  <1>4. CASE WriteField
    <2> SUFFICES ASSUME boot # "load", ~erased, ~unsaved, NEW k \in 1 .. 6,
                        saving' = 0 \/ k < saving'
                 PROVE  nvs'[FieldOrder[k]] = g_config[FieldOrder[k]]
      BY <1>4 DEF WriteField
    <2>1. saving \in 1 .. 6 /\ k <= saving
      BY <1>4, OrderFacts DEF WriteField
    <2>2. nvs' = [nvs EXCEPT ![FieldOrder[saving]] = g_config[FieldOrder[saving]]]
      BY <1>4 DEF WriteField
    <2>3. CASE k = saving
      BY <2>2, <2>3, OrderFacts DEF Configs
    <2>4. CASE k < saving
      BY <2>1, <2>2, <2>4, OrderFacts DEF Configs
    <2>5. QED
      BY <2>1, <2>3, <2>4
  <1>5. CASE \/ \E form \in Forms : TakeForm(form)
             \/ \E value \in TunnelValues : TakeTunnel(value)
             \/ TakeToggle \/ \E ok \in BOOLEAN : LogPersistInit(ok)
    BY <1>5 DEF TakeForm, TakeTunnel, TakeToggle, SaveBegins, LogPersistInit
  <1>6. ASSUME NEW ok \in BOOLEAN, Answer(ok)
        PROVE  Copies'
    BY <1>6 DEF Answer
  <1>7. ASSUME NEW kept \in Leftovers, TakeReset(kept) \/ ButtonErases(kept)
        PROVE  Copies'
    <2>1. erased' \/ unsaved'
      BY <1>7 DEF TakeReset, ButtonErases, FactoryReset, Fields
    <2>2. QED
      BY <2>1
  <1>8. CASE ClockAborts \/ RebootTask \/ ButtonRestarts \/ PowerCut
    BY <1>8, RestartedInv DEF ClockAborts, RebootTask, ButtonRestarts, PowerCut
  <1>9. CASE UNCHANGED vars
    BY <1>9 DEF vars
  <1>10. QED
    BY <1>1, <1>2, <1>3, <1>4, <1>5, <1>6, <1>7, <1>8, <1>9 DEF Next, AppConfigSave

\* Every step keeps what was confirmed, or takes the confirmation back first.
LEMMA KeptStep == TypeOK /\ IInv /\ [Next]_vars => Kept'
  <1> SUFFICES ASSUME TypeOK, IInv, [Next]_vars PROVE Kept'
    OBVIOUS
  <1> USE DEF TypeOK, IInv, Phases, Kept, PromiseKept, bootVars, webVars, faultVars,
          Idle
  <1>1. CASE \/ AppConfigLoad \/ LogPersistInitSaved \/ WifiManagerStart
             \/ WebServerStart \/ SetupOnly \/ ClockStart
             \/ WireguardManagerStart \/ AudioPipelineStart \/ TakeReboot
             \/ \E ap \in BOOLEAN : Saved(ap)
    BY <1>1 DEF AppConfigLoad, LogPersistInitSaved, WebServerStart, SetupOnly,
       WifiManagerStart, ClockStart, WireguardManagerStart, AudioPipelineStart,
       TakeReboot, Saved
  <1>2. ASSUME NEW ok \in BOOLEAN, LogPersistInit(ok)
        PROVE  Kept'
    BY <1>2 DEF LogPersistInit
  <1>3. CASE OpenFails \/ WriteRefused
    BY <1>3 DEF OpenFails, WriteRefused
  <1>4. CASE WriteField
    <2> SUFFICES ASSUME promised # None
                 PROVE  nvs' = nvs /\ boot = "logsave" /\ ~erased
      BY <1>4 DEF WriteField
    <2>1. boot = "logsave" /\ ~erased /\ nvs = g_config
      BY <1>4 DEF WriteField
    <2>2. FieldOrder[saving] \in Fields
      BY <1>4, OrderFacts DEF WriteField
    <2>3. QED
      BY <1>4, <2>1, <2>2 DEF WriteField, Configs
  <1>5. CASE \/ \E form \in Forms : TakeForm(form)
             \/ \E value \in TunnelValues : TakeTunnel(value)
             \/ TakeToggle
    BY <1>5 DEF TakeForm, TakeTunnel, TakeToggle, SaveBegins
  <1>6. ASSUME NEW kept \in Leftovers, TakeReset(kept) \/ ButtonErases(kept)
        PROVE  Kept'
    <2>1. /\ promised' = None \/ (kept = {} /\ promised' = Defaults /\ saving = 0)
          /\ saving' = saving
      BY <1>6 DEF TakeReset, ButtonErases
    <2>2. ASSUME kept = {}
          PROVE  nvs' = Defaults /\ erased'
      BY <1>6, <2>2 DEF TakeReset, ButtonErases, FactoryReset, Defaults, Fields
    <2>3. QED
      BY <2>1, <2>2
  <1>7. ASSUME NEW ok \in BOOLEAN, Answer(ok)
        PROVE  Kept'
    <2>1. saving = 0 /\ boot # "load" /\ UNCHANGED <<nvs, g_config, boot, saving, erased>>
      BY <1>7 DEF Answer
    <2>2. CASE req \in {"save", "wg", "toggle"} /\ ~erased /\ ~unsaved
      BY <1>7, <2>1, <2>2, CopiesWhole DEF Answer
    <2>3. CASE ~(req \in {"save", "wg", "toggle"} /\ ~erased /\ ~unsaved)
      BY <1>7, <2>1, <2>3 DEF Answer
    <2>4. QED
      BY <2>2, <2>3
  <1>9. CASE ClockAborts \/ RebootTask \/ ButtonRestarts \/ PowerCut
    BY <1>9, RestartedInv DEF ClockAborts, RebootTask, ButtonRestarts, PowerCut
  <1>10. CASE UNCHANGED vars
    BY <1>10 DEF vars
  <1>11. QED
    BY <1>1, <1>2, <1>3, <1>4, <1>5, <1>6, <1>7, <1>9, <1>10
    DEF Next, AppConfigSave

\* Every step keeps what is in use up to date, or leaves a restart or an answer due.
LEMMA UsesStep == TypeOK /\ IInv /\ [Next]_vars => Uses'
  <1> SUFFICES ASSUME TypeOK, IInv, [Next]_vars PROVE Uses'
    OBVIOUS
  <1> USE DEF TypeOK, IInv, Uses, Restarting, Applied, bootVars, webVars, faultVars,
          Idle
  <1>1. CASE \/ LogPersistInitSaved \/ WebServerStart \/ SetupOnly \/ TakeReboot
             \/ OpenFails \/ WriteField \/ WriteRefused
    BY <1>1 DEF LogPersistInitSaved, WebServerStart, SetupOnly, TakeReboot,
       OpenFails, WriteField, WriteRefused
  <1>2. CASE \/ WifiManagerStart \/ ClockStart \/ WireguardManagerStart
             \/ AudioPipelineStart \/ \E ap \in BOOLEAN : Saved(ap)
    <2>1. CASE WifiManagerStart
      BY <1>2, <2>1 DEF ApplyTxPower, WifiManagerStart
    <2>2. CASE WireguardManagerStart
      BY <1>2, <2>2 DEF WireguardManagerStart
    <2>3. CASE AudioPipelineStart
      BY <1>2, <2>3 DEF AudioPipelineStart
    <2>4. ASSUME NEW ap \in BOOLEAN, Saved(ap)
          PROVE  Uses'
      <3>1. used'["tx"] = IF req = "save" THEN g_config["tx"] ELSE used["tx"]
        BY <2>4 DEF Saved, ApplyTxPower, TimeSyncStarted
      <3>2. used'["wg"] = used["wg"] /\ \A f \in Restarting : used'[f] = used[f]
        BY <2>4 DEF Saved, ApplyTxPower, TimeSyncStarted
      <3>3. pc = "saving" /\ pc' = "answer" /\ UNCHANGED <<req, old, reboot, unborn,
                                                           boot, g_config>>
        BY <2>4 DEF Saved
      <3>4. boot # "load"
        BY <3>3 DEF Phases
      <3>5. \/ used'["ntp"] = used["ntp"]
            \/ used["ntp"] = None /\ used'["ntp"] = g_config["ntp"]
        <4>1. "ntp" \in DOMAIN used
          BY DEF Applied
        <4> DEFINE live == IF req = "save" THEN ApplyTxPower(used) ELSE used
        <4>2. live["ntp"] = used["ntp"] /\ "ntp" \in DOMAIN live
          BY <4>1 DEF ApplyTxPower
        <4>3. used' = live \/ used' = TimeSyncStarted(live)
          BY <2>4 DEF Saved
        <4> HIDE DEF live
        <4>4. CASE used' = live
          BY <4>2, <4>4
        <4>5. CASE used' = TimeSyncStarted(live)
          <5>1. used'["ntp"] = IF live["ntp"] = None THEN g_config["ntp"] ELSE live["ntp"]
            BY <4>2, <4>5 DEF TimeSyncStarted
          <5>2. QED
            BY <4>2, <5>1
        <4>6. QED
          BY <4>3, <4>4, <4>5
      <3>6. /\ unpointed => unpointed'
            /\ Repointing /\ used["ntp"] # None => unpointed'
        BY <2>4 DEF Saved
      <3>7. used'["ntp"] \in {None, g_config["ntp"]} \/ unpointed'
        BY <3>3, <3>5, <3>6 DEF Repointing
      <3>8. QED
        BY <3>1, <3>2, <3>3, <3>4, <3>7
    <2>5. CASE ClockStart
      BY <2>5 DEF ClockStart, TimeSyncStarted
    <2>6. QED
      BY <1>2, <2>1, <2>2, <2>3, <2>4, <2>5
  <1>3. CASE AppConfigLoad
    BY <1>3 DEF AppConfigLoad
  <1>4. ASSUME NEW ok \in BOOLEAN, LogPersistInit(ok)
        PROVE  Uses'
    BY <1>4 DEF LogPersistInit, Configs, Fields
  <1>5. ASSUME NEW form \in Forms, TakeForm(form)
        PROVE  Uses'
    <2>1. PICK S \in SUBSET FormFields : form \in [S -> {Default, Custom}]
      BY DEF Forms
    <2>2. g_config'["wg"] = g_config["wg"]
      BY <1>5, <2>1 DEF TakeForm, FormFields, Fields
    <2>3. old'["ntp"] = g_config["ntp"] /\ \A f \in Restarting : old'[f] = g_config[f]
      BY <1>5 DEF TakeForm, Compared
    <2>4. QED
      BY <1>5, <2>2, <2>3 DEF TakeForm, SaveBegins
  <1>6. CASE \/ \E value \in TunnelValues : TakeTunnel(value)
             \/ TakeToggle
    BY <1>6 DEF TakeTunnel, TakeToggle, SaveBegins, Configs, Fields
  <1>7. ASSUME NEW kept \in Leftovers, TakeReset(kept) \/ ButtonErases(kept)
        PROVE  Uses'
    BY <1>7 DEF TakeReset, ButtonErases, FactoryReset
  <1>8. ASSUME NEW ok \in BOOLEAN, Answer(ok)
        PROVE  Uses'
    BY <1>8 DEF Answer, RebootNeeded, RebootAnyway
  <1>10. CASE ClockAborts \/ RebootTask \/ ButtonRestarts \/ PowerCut
    BY <1>10, RestartedInv DEF ClockAborts, RebootTask, ButtonRestarts, PowerCut
  <1>11. CASE UNCHANGED vars
    BY <1>11 DEF vars
  <1>12. QED
    BY <1>1, <1>2, <1>3, <1>4, <1>5, <1>6, <1>7, <1>8, <1>10, <1>11
    DEF Next, AppConfigSave

\* The inductive invariant holds in every reachable state.
THEOREM Invariance == Spec => [](TypeOK /\ IInv)
  <1>1. TypeOK /\ IInv /\ [Next]_vars => (TypeOK /\ IInv)'
    BY TypeStep, PhasesStep, CopiesStep, KeptStep, UsesStep DEF IInv
  <1>2. QED
    BY <1>1, TypeInit, InitInv, PTL DEF Spec

\* What a page has confirmed survives every restart until the next request.
THEOREM PromisesAreKept == Spec => []PromiseKept
  <1>1. IInv => PromiseKept
    BY DEF IInv, Kept
  <1>2. QED
    BY <1>1, Invariance, PTL

\* A quiet device runs on the configuration it shows and has saved.
THEOREM QuietDevicesAgree == Spec => []QuietMeansAgreed
  <1>1. ASSUME TypeOK, IInv
        PROVE  QuietMeansAgreed
    <2> SUFFICES ASSUME boot = "up", pc = "idle", ~reboot, button = "idle", ~unborn
                 PROVE  /\ ~unsaved => nvs = g_config
                        /\ \A f \in Applied : \/ used[f] \in {None, g_config[f]}
                                              \/ f = "ntp" /\ unpointed
      BY DEF QuietMeansAgreed
    <2>1. ~erased /\ saving = 0
      BY <1>1 DEF IInv, Phases
    <2>2. ~unsaved => nvs = g_config
      BY <1>1, <2>1, CopiesWhole DEF IInv
    <2>3. \A f \in Applied : used[f] \in {None, g_config[f]} \/ (f = "ntp" /\ unpointed)
      BY <1>1 DEF IInv, Uses, Applied, Restarting
    <2>4. QED
      BY <2>2, <2>3
  <1>2. QED
    BY <1>1, Invariance, PTL

-------------------------------------------------------------------------------
(* The daily reboot.                                                         *)

\* How far into its minute the clock is.
Into == now % MinuteTicks

\* Where the next check falls: after a reboot in this minute not before the next one, and
\* within the minute the device is armed for, when that is the configured one.
NextCheck ==
  /\ fired = 1 /\ up => Into + sleep >= MinuteTicks
  /\ armed => up /\ sane /\ enabled
  /\ armed /\ LocalMinute = target => Into + sleep < MinuteTicks

RebootInv == RebootTypeOK /\ RebootsOnce /\ NextCheck

\* Quotient and remainder are the only ones of their kind.
LEMMA Division ==
  ASSUME NEW M \in Nat \ {0}, NEW q \in Int, NEW r \in 0 .. M - 1
  PROVE  (M * q + r) \div M = q /\ (M * q + r) % M = r
  <1> DEFINE n == M * q + r
             k == (n \div M) - q
  <1>1. n \in Int /\ k \in Int
    OBVIOUS
  <1>2. n = M * (n \div M) + (n % M) /\ n % M \in 0 .. M - 1
    BY <1>1
  <1>3. M * k = M * (n \div M) - M * q
    OBVIOUS
  <1>4. M * k = r - (n % M)
    BY <1>2, <1>3
  <1>5. M * k < M /\ M * k > -M
    BY <1>2, <1>4
  <1>6. k = 0
    <2>1. CASE k >= 1
      <3>1. M * k >= M
        BY <1>1, <2>1
      <3>2. QED
        BY <1>5, <3>1
    <2>2. CASE k <= -1
      <3>1. M * k <= -M
        BY <1>1, <2>2
      <3>2. QED
        BY <1>5, <3>1
    <2>3. QED
      BY <1>1, <2>1, <2>2
  <1>7. n \div M = q /\ n % M = r
    BY <1>1, <1>2, <1>4, <1>6
  <1>8. QED
    BY <1>7

\* A tick stays within its minute, or is the first of another.
LEMMA NextTick ==
  ASSUME NEW n \in 0 .. MinuteTicks * DayMinutes - 1
  PROVE  LET m == (n + 1) % (MinuteTicks * DayMinutes) IN
         /\ m \in 0 .. MinuteTicks * DayMinutes - 1
         /\ n % MinuteTicks \in 0 .. MinuteTicks - 1
         /\ n % MinuteTicks < MinuteTicks - 1 =>
              m \div MinuteTicks = n \div MinuteTicks /\ m % MinuteTicks = (n % MinuteTicks) + 1
         /\ n % MinuteTicks = MinuteTicks - 1 =>
              m \div MinuteTicks # n \div MinuteTicks /\ m % MinuteTicks = 0
  <1> DEFINE M == MinuteTicks
             D == DayMinutes
             m == (n + 1) % (M * D)
             q == n \div M
             r == n % M
  <1>1. M \in Nat \ {0} /\ D \in Nat /\ D > 1
    BY ClockAssumption
  <1>2. M * D \in Nat \ {0}
    BY <1>1
  <1>3. n \in Nat /\ n < M * D
    BY <1>2
  <1>4. q \in Int /\ r \in 0 .. M - 1 /\ n = M * q + r
    BY <1>1, <1>3
  <1> HIDE DEF q, r
  <1>5. q <= D - 1
    <2>1. CASE q >= D
      <3>1. M * q >= M * D
        BY <1>1, <1>4, <2>1
      <3>2. QED
        BY <1>1, <1>2, <1>3, <1>4, <3>1
    <2>2. QED
      BY <2>1, <1>1, <1>4
  <1>6. n + 1 \in 1 .. M * D
    BY <1>2, <1>3
  <1>7. n + 1 < M * D => m = n + 1
    <2>1. (n + 1 < M * D) => n + 1 = (M * D) * 0 + (n + 1) /\ n + 1 \in 0 .. M * D - 1
      BY <1>2, <1>3
    <2>2. QED
      BY <2>1, <1>2, Division
  <1>8. n + 1 = M * D => m = 0
    <2>1. M * D = (M * D) * 1 + 0 /\ 0 \in 0 .. M * D - 1
      BY <1>2
    <2>2. QED
      BY <2>1, <1>2, Division
  <1>9. m \in 0 .. M * D - 1
    BY <1>2, <1>3
  <1> HIDE DEF m
  <1>10. ASSUME r < M - 1
         PROVE  m \div M = q /\ m % M = r + 1
    <2>1. n + 1 = M * q + (r + 1) /\ r + 1 \in 0 .. M - 1
      BY <1>1, <1>4, <1>10
    <2>2. M * q <= M * (D - 1)
      BY <1>1, <1>4, <1>5
    <2>3. M * (D - 1) = M * D - M
      BY <1>1
    <2>4. n + 1 < M * D
      BY <2>1, <2>2, <2>3, <1>1, <1>2, <1>4
    <2>5. m = M * q + (r + 1)
      BY <2>1, <2>4, <1>7
    <2>6. QED
      BY <2>1, <2>5, <1>1, <1>4, Division
  <1>11. ASSUME r = M - 1
         PROVE  m \div M # q /\ m % M = 0
    <2>1. n + 1 = M * (q + 1)
      BY <1>1, <1>4, <1>11
    <2>2. CASE n + 1 < M * D
      <3>1. m = M * (q + 1) + 0 /\ 0 \in 0 .. M - 1
        BY <2>1, <2>2, <1>1, <1>4, <1>7
      <3>2. QED
        BY <3>1, <1>1, <1>4, Division
    <2>3. CASE n + 1 = M * D
      <3>1. m = M * 0 + 0 /\ 0 \in 0 .. M - 1
        BY <2>3, <1>1, <1>8
      <3>2. m \div M = 0 /\ m % M = 0
        BY <3>1, <1>1, Division
      <3>3. q # 0
        <4>1. SUFFICES ASSUME q = 0
                       PROVE  FALSE
          OBVIOUS
        <4>2. M * D = M
          BY <4>1, <2>1, <2>3, <1>1
        <4>3. M * D >= M * 2
          BY <1>1
        <4>4. QED
          BY <4>2, <4>3, <1>1
      <3>4. QED
        BY <3>2, <3>3
    <2>4. QED
      BY <2>2, <2>3, <1>2, <1>6
  <1>12. QED
    BY <1>4, <1>9, <1>10, <1>11 DEF q, r, m

\* The clock, as the provers take it best.
LEMMA ClockFacts ==
  ASSUME RebootTypeOK
  PROVE  /\ MinuteTicks \in Nat /\ MinuteTicks > 0 /\ Into \in 0 .. MinuteTicks - 1
         /\ now' = (now + 1) % (MinuteTicks * DayMinutes) =>
              /\ now' \in 0 .. MinuteTicks * DayMinutes - 1
              /\ Into < MinuteTicks - 1 => Minute' = Minute /\ Into' = Into + 1
              /\ Into = MinuteTicks - 1 => Minute' # Minute /\ Into' = 0
  <1>1. now \in 0 .. MinuteTicks * DayMinutes - 1
    BY DEF RebootTypeOK
  <1>2. MinuteTicks \in Nat /\ MinuteTicks > 0
    BY ClockAssumption
  <1>3. QED
    BY <1>1, <1>2, NextTick DEF Into, Minute

\* When the next check falls, as time passes.
LEMMA TickChecks == RebootInv /\ Tick => RebootInv'
  <1> SUFFICES ASSUME RebootInv, Tick PROVE RebootInv'
    OBVIOUS
  <1>1. RebootTypeOK /\ RebootsOnce /\ NextCheck
    BY DEF RebootInv
  <1>2. /\ MinuteTicks \in Nat /\ MinuteTicks > 0 /\ Into \in 0 .. MinuteTicks - 1
        /\ now' \in 0 .. MinuteTicks * DayMinutes - 1
        /\ Into < MinuteTicks - 1 => Minute' = Minute /\ Into' = Into + 1
        /\ Into = MinuteTicks - 1 => Minute' # Minute /\ Into' = 0
    BY <1>1, ClockFacts DEF Tick
  <1>3. /\ up \in BOOLEAN /\ sleep \in 0 .. MinuteTicks /\ fired \in 0 .. 1
        /\ sane \in BOOLEAN /\ enabled \in BOOLEAN /\ armed \in BOOLEAN
    BY <1>1 DEF RebootTypeOK, RebootsOnce
  <1>4. /\ sleep' = (IF up /\ sleep > 0 THEN sleep - 1 ELSE sleep)
        /\ UNCHANGED <<sane, sntp, web, enabled, target, offset, up>>
    BY DEF Tick, confVars
  <1>5. sleep' \in 0 .. MinuteTicks
    BY <1>2, <1>3, <1>4
  <1>6. CASE Into < MinuteTicks - 1
    <2>1. /\ Minute' = Minute /\ Into' = Into + 1 /\ LocalMinute' = LocalMinute
          /\ UNCHANGED <<fired, armed>>
      BY <1>2, <1>4, <1>6 DEF Tick, LocalMinute
    <2>2. RebootTypeOK' /\ RebootsOnce'
      BY <1>1, <1>2, <1>4, <1>5, <2>1 DEF RebootTypeOK, RebootsOnce
    <2>3. up => \/ sleep > 0 /\ Into' + sleep' = Into + sleep
                \/ sleep = 0 /\ Into' + sleep' < MinuteTicks
      BY <1>2, <1>3, <1>4, <1>6, <2>1
    <2>4. fired = 1 /\ up => sleep > 0
      BY <1>1, <1>2, <1>3 DEF NextCheck
    <2>5. NextCheck'
      BY <1>1, <1>4, <2>1, <2>3, <2>4 DEF NextCheck
    <2>6. QED
      BY <2>2, <2>5 DEF RebootInv
  <1>7. CASE Into = MinuteTicks - 1
    <2>1. Minute' # Minute /\ Into' = 0 /\ fired' = 0 /\ armed' = (up /\ sane /\ enabled)
      BY <1>2, <1>7 DEF Tick
    <2>2. armed' \in BOOLEAN /\ fired' \in 0 .. 1
      BY <2>1
    <2>3. RebootTypeOK' /\ RebootsOnce'
      BY <1>1, <1>2, <1>4, <1>5, <2>2 DEF RebootTypeOK, RebootsOnce
    <2>4. up => Into' + sleep' < MinuteTicks
      BY <1>2, <1>3, <1>4, <2>1
    <2>5. armed' => up' /\ sane' /\ enabled' /\ up
      BY <1>4, <2>1
    <2>6. armed' => Into' + sleep' < MinuteTicks
      BY <2>4, <2>5
    <2>7. NextCheck'
      BY <2>1, <2>5, <2>6 DEF NextCheck
    <2>8. QED
      BY <2>3, <2>7 DEF RebootInv
  <1>8. QED
    BY <1>2, <1>6, <1>7

\* The task: its start, its checks, and the device's restarts.
LEMMA TaskChecks ==
  RebootInv /\ (Started \/ CheckPasses \/ CheckReboots \/ Restart) => RebootInv'
  <1> SUFFICES ASSUME RebootInv, Started \/ CheckPasses \/ CheckReboots \/ Restart
               PROVE  RebootInv'
    OBVIOUS
  <1>1. RebootTypeOK /\ RebootsOnce /\ NextCheck
    BY DEF RebootInv
  <1>2. MinuteTicks \in Nat /\ MinuteTicks > 0 /\ Into \in 0 .. MinuteTicks - 1
    BY <1>1, ClockFacts
  <1>3. fired \in 0 .. 1 /\ sane \in BOOLEAN /\ sleep \in 0 .. MinuteTicks
    BY <1>1 DEF RebootTypeOK, RebootsOnce
  <1>4. now' = now => Into' = Into /\ Minute' = Minute
    BY DEF Into, Minute
  <1>5. CASE Started
    <2>1. ~up /\ up' = TRUE /\ sleep' = MinuteTicks /\ ~armed /\ ~armed'
      BY <1>1, <1>5 DEF Started, NextCheck
    <2>2. UNCHANGED <<now, sane, sntp, web, enabled, target, offset, fired, armed>>
      BY <1>5 DEF Started, confVars
    <2>3. RebootTypeOK' /\ RebootsOnce'
      BY <1>1, <1>2, <2>1, <2>2 DEF RebootTypeOK, RebootsOnce
    <2>4. NextCheck'
      BY <1>2, <1>4, <2>1, <2>2 DEF NextCheck
    <2>5. QED
      BY <2>3, <2>4 DEF RebootInv
  <1>6. CASE CheckPasses
    <2>1. /\ up /\ sleep = 0 /\ ~(enabled /\ sane /\ LocalMinute = target)
          /\ sleep' = MinuteTicks
          /\ UNCHANGED <<now, sane, sntp, web, enabled, target, offset, up, fired, armed>>
      BY <1>6 DEF CheckPasses, IsIt, confVars
    <2>2. RebootTypeOK' /\ RebootsOnce'
      BY <1>1, <1>2, <2>1 DEF RebootTypeOK, RebootsOnce
    <2>3. LocalMinute' = LocalMinute /\ ~(armed /\ LocalMinute = target)
      BY <1>1, <1>4, <2>1 DEF NextCheck, LocalMinute
    <2>4. NextCheck'
      BY <1>1, <1>2, <1>4, <2>1, <2>3 DEF NextCheck
    <2>5. QED
      BY <2>2, <2>4 DEF RebootInv
  <1>7. ASSUME DeviceRestarted, fired' \in 0 .. 1
        PROVE  RebootInv'
    <2>1. /\ up' = FALSE /\ sleep' = 0 /\ sntp' = FALSE /\ web' = "idle" /\ armed' = FALSE
          /\ sane' \in BOOLEAN /\ UNCHANGED <<now, enabled, target, offset>>
      BY <1>3, <1>7 DEF DeviceRestarted, confVars
    <2>2. up' \in BOOLEAN /\ sntp' \in BOOLEAN /\ armed' \in BOOLEAN
      BY <2>1
    <2>3. sleep' \in 0 .. MinuteTicks /\ fired' \in 0 .. 2 /\ fired' <= 1
      BY <1>2, <1>7, <2>1
    <2>4. RebootTypeOK' /\ RebootsOnce'
      BY <1>1, <2>1, <2>2, <2>3 DEF RebootTypeOK, RebootsOnce
    <2>5. NextCheck'
      BY <2>1 DEF NextCheck
    <2>6. QED
      BY <2>4, <2>5 DEF RebootInv
  <1>8. CASE CheckReboots
    <2>1. fired # 1
      BY <1>1, <1>2, <1>8 DEF CheckReboots, NextCheck
    <2>2. fired' \in 0 .. 1
      BY <1>3, <1>8, <2>1 DEF CheckReboots
    <2>3. QED
      BY <1>7, <1>8, <2>2 DEF CheckReboots
  <1>9. CASE Restart
    BY <1>3, <1>7, <1>9 DEF Restart
  <1>10. QED
    BY <1>5, <1>6, <1>8, <1>9

\* Settings that change disarm; the clock's client and its page disturb nothing.
LEMMA OthersCheck ==
  ASSUME RebootInv, UNCHANGED <<now, up, sleep, fired>>, sane => sane',
         sane' \in BOOLEAN, sntp' \in BOOLEAN, web' \in {"idle", "sync"},
         enabled' \in BOOLEAN, target' \in 0 .. DayMinutes - 1, offset' \in Offsets,
         armed' = (armed /\ UNCHANGED confVars)
  PROVE  RebootInv'
  <1>1. RebootTypeOK /\ RebootsOnce /\ NextCheck
    BY DEF RebootInv
  <1>2. armed' \in BOOLEAN /\ (armed' => armed /\ UNCHANGED <<enabled, target, offset>>)
    BY <1>1 DEF confVars, RebootTypeOK
  <1>3. Into' = Into /\ (armed' => LocalMinute' = LocalMinute)
    BY <1>2 DEF Into, LocalMinute, Minute
  <1>4. RebootTypeOK' /\ RebootsOnce'
    BY <1>1, <1>2 DEF RebootTypeOK, RebootsOnce
  <1>5. NextCheck'
    BY <1>1, <1>2, <1>3 DEF NextCheck
  <1>6. QED
    BY <1>4, <1>5 DEF RebootInv

LEMMA RebootStep == RebootInv /\ [RebootNext]_rebootVars => RebootInv'
  <1> SUFFICES ASSUME RebootInv, [RebootNext]_rebootVars PROVE RebootInv'
    OBVIOUS
  <1>1. RebootTypeOK /\ NextCheck
    BY DEF RebootInv
  <1>2. /\ sane \in BOOLEAN /\ sntp \in BOOLEAN /\ web \in {"idle", "sync"}
        /\ enabled \in BOOLEAN /\ target \in 0 .. DayMinutes - 1 /\ offset \in Offsets
        /\ armed \in BOOLEAN
    BY <1>1 DEF RebootTypeOK
  <1>3. CASE TimeSyncStart
    BY <1>2, <1>3, OthersCheck DEF TimeSyncStart, taskVars, confVars
  <1>4. CASE SntpReply
    BY <1>2, <1>4, OthersCheck DEF SntpReply, taskVars, confVars
  <1>5. CASE SyncNow
    BY <1>2, <1>5, OthersCheck DEF SyncNow, taskVars, confVars
  <1>6. CASE SyncTimesOut
    BY <1>2, <1>6, OthersCheck DEF SyncTimesOut, taskVars, confVars
  <1>7. ASSUME NEW e \in BOOLEAN, NEW t \in 0 .. DayMinutes - 1, NEW o \in Offsets,
               Configure(e, t, o)
        PROVE  RebootInv'
    BY <1>2, <1>7, OthersCheck DEF Configure, taskVars
  <1>8. CASE UNCHANGED rebootVars
    BY <1>2, <1>8, OthersCheck DEF rebootVars, taskVars, confVars
  <1>9. QED
    BY <1>3, <1>4, <1>5, <1>6, <1>7, <1>8, TickChecks, TaskChecks DEF RebootNext

LEMMA RebootStart == RebootInit => RebootInv
  <1> SUFFICES ASSUME RebootInit PROVE RebootInv
    OBVIOUS
  <1>1. RebootTypeOK
    <2>1. 0 \in 0 .. MinuteTicks /\ 0 \in 0 .. 2
      BY ClockAssumption
    <2>2. sane \in BOOLEAN /\ sntp \in BOOLEAN /\ up \in BOOLEAN /\ armed \in BOOLEAN
      BY DEF RebootInit
    <2>3. QED
      BY <2>1, <2>2 DEF RebootInit, RebootTypeOK
  <1>2. RebootsOnce /\ NextCheck
    BY DEF RebootInit, RebootsOnce, NextCheck
  <1>3. QED
    BY <1>1, <1>2 DEF RebootInv

\* The variables of ScheduledReboot keep their types, for minutes and days of any length.
THEOREM RebootTypeCorrect == RebootSpec => []RebootTypeOK
  <1>1. RebootInv => RebootTypeOK
    BY DEF RebootInv
  <1>2. QED
    BY <1>1, RebootStart, RebootStep, PTL DEF RebootSpec

\* However short a restart is, and whatever it does to the clock: a reboot in a minute is
\* the only one in it (auto_reboot_task sleeps first, and a whole minute).
THEOREM NoRebootLoop == RebootSpec => []RebootsOnce
  <1>1. RebootInv => RebootsOnce
    BY DEF RebootInv
  <1>2. QED
    BY <1>1, RebootStart, RebootStep, PTL DEF RebootSpec

\* A device that is up, with its settings and a clock, through the configured minute
\* misses it only with a check due in it that waits to its end.
THEOREM ConfiguredMinute == RebootSpec => MinuteKept
  <1>1. RebootInv /\ [RebootNext]_rebootVars =>
          [Minute' # Minute /\ armed /\ LocalMinute = target => up /\ sleep = 0]_rebootVars
    <2> SUFFICES ASSUME RebootInv, RebootNext, Minute' # Minute, armed, LocalMinute = target
                 PROVE  up /\ sleep = 0
      OBVIOUS
    <2>1. RebootTypeOK /\ NextCheck
      BY DEF RebootInv
    <2>2. now' # now
      BY DEF Minute
    <2>3. Tick
      BY <2>2 DEF RebootNext, Started, TimeSyncStart, SntpReply, SyncNow, SyncTimesOut,
                  Configure, CheckPasses, CheckReboots, Restart, DeviceRestarted
    <2>4. up /\ Into + sleep < MinuteTicks
      BY <2>1 DEF NextCheck
    <2>5. sleep \in 0 .. MinuteTicks /\ MinuteTicks \in Nat /\ Into \in 0 .. MinuteTicks - 1
      BY <2>1, ClockFacts DEF RebootTypeOK
    <2>6. ~(Into < MinuteTicks - 1)
      BY <2>1, <2>3, ClockFacts DEF Tick
    <2>7. QED
      BY <2>4, <2>5, <2>6
  <1>2. QED
    BY <1>1, RebootStart, RebootStep, PTL DEF RebootSpec, MinuteKept
===============================================================================
