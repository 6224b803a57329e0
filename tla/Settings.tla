-------------------------------- MODULE Settings --------------------------------
(***************************************************************************)
(* The configuration: g_config in RAM, its copy in NVS                     *)
(* (src/src/app_config.c), the forms and buttons that change either        *)
(* (src/src/web_server.c, src/src/boot_button.c), and the boot             *)
(* (src/src/main.cpp) that loads the copy and puts it to use.              *)
(*                                                                         *)
(* A field stands for the settings that are put to use in one place.  A    *)
(* value is the default, one the user chose, or one that was cut short on  *)
(* its way.  app_config_save writes NVS one field at a time, a restart may *)
(* come between any two, and the restart a handler promises comes later,   *)
(* while the one task of the web server takes further requests.  Nobody    *)
(* looks at what NVS answers: whatever it refuses, the pages say "Saved".  *)
(***************************************************************************)
EXTENDS Integers, Sequences, FiniteSets

CONSTANTS
  Default, Custom, Cut,  \* values of a field
  None,                  \* "no value", "no configuration"
  TunnelValues,          \* what a tunnel form may leave in wg
  MayFail,               \* calls that may fail
  MayRefuse,             \* fields NVS may refuse to write or to erase
  MaxCustom              \* BOUND: fields a request leaves off their default,
                         \* the network not counted

ASSUME ValuesAssumption == Cardinality({Default, Custom, Cut, None}) = 4
ASSUME TunnelAssumption == TunnelValues \subseteq {Default, Custom, Cut}
ASSUME MayFailAssumption == MayFail \subseteq {"nvs_open", "mount", "xTaskCreate"}

Values == {Default, Custom, Cut}

\* wifi: name, SSID and password; mic: source, model and sample rate; tx: transmit
\* power and roaming threshold; log: log_persist_enabled; ntp: the server of the
\* clock; wg: the tunnel.
FieldOrder == <<"wifi", "mic", "tx", "log", "ntp", "wg">>
Fields     == {"wifi", "mic", "tx", "log", "ntp", "wg"}
Applied    == {"wifi", "mic", "tx", "ntp", "wg"}  \* put to use once, not read at each use
Restarting == {"wifi", "mic"}               \* those a save can only apply by a restart
FormFields == {"wifi", "mic", "tx", "ntp"}  \* what POST /save can carry
Compared   == {"wifi", "mic", "ntp"}        \* of which its handler keeps the old value

Configs  == [Fields -> Values]
Defaults == [f \in Fields |-> Default]

VARIABLES
  g_config, nvs,    \* the configuration and its copy in NVS
  used,             \* of Applied: the value that has been put to use since boot
  boot,             \* how far app_main is
  saving,           \* app_config_save: index of the next field to write, 0: not in it
  pc, req, old,     \* the web server's task: where, in which request, its snapshot
  button,           \* monitor_task: "idle", or "erased" on its way to esp_restart
  reboot,           \* is there a reboot_task?
  \* History, for the properties:
  promised,         \* the configuration last confirmed, None while one is under way
  erased,           \* has NVS been erased since boot?
  unsaved,          \* has NVS refused some of the last save or erase?
  unborn,           \* since boot: has xTaskCreate(reboot_task) failed,
  unpointed         \* was the running clock to get another server?

bootVars   == <<boot, used>>
webVars    == <<pc, req, old>>
faultVars  == <<unsaved, unborn, unpointed>>
vars == <<g_config, nvs, bootVars, saving, webVars, button, reboot,
          promised, erased, faultVars>>

BootSteps == {"load", "log", "logsave", "wifi", "join", "web", "clock", "wg", "up"}
Requests  == {"none", "save", "wg", "toggle", "reset", "reboot"}

TypeOK ==
  /\ g_config \in Configs /\ nvs \in Configs
  /\ used \in [Applied -> Values \cup {None}]
  /\ boot \in BootSteps
  /\ saving \in 0 .. 6
  /\ pc \in {"idle", "saving", "answer"} /\ req \in Requests
  /\ old \in [Compared -> Values] \cup {None}
  /\ button \in {"idle", "erased"} /\ reboot \in BOOLEAN
  /\ promised \in Configs \cup {None}
  /\ erased \in BOOLEAN /\ unsaved \in BOOLEAN
  /\ unborn \in BOOLEAN /\ unpointed \in BOOLEAN

Init ==
  /\ g_config = Defaults /\ nvs = Defaults
  /\ used = [f \in Applied |-> None]
  /\ boot = "load" /\ saving = 0
  /\ pc = "idle" /\ req = "none" /\ old = None
  /\ button = "idle" /\ reboot = FALSE
  /\ promised = None /\ erased = FALSE
  /\ unsaved = FALSE /\ unborn = FALSE /\ unpointed = FALSE

\* esp_restart, a crash or a power cut: RAM is lost, NVS keeps what is written.
Restarted ==
  /\ boot' = "load" /\ g_config' = Defaults
  /\ used' = [f \in Applied |-> None]
  /\ saving' = 0 /\ pc' = "idle" /\ req' = "none" /\ old' = None
  /\ button' = "idle" /\ reboot' = FALSE
  /\ erased' = FALSE /\ unsaved' = FALSE /\ unborn' = FALSE /\ unpointed' = FALSE
  /\ UNCHANGED <<nvs, promised>>

------------------------------------------------------------------------------
(* app_main.                                                                *)

AppConfigLoad ==
  /\ boot = "load"
  /\ g_config' = nvs
  /\ boot' = IF nvs["log"] = Default THEN "wifi" ELSE "log"
  /\ UNCHANGED <<nvs, used, saving, webVars, button, reboot, promised, erased,
                 faultVars>>

\* log_persist_init saves the configuration whether its mount works or not.
LogPersistInit(ok) ==
  /\ boot = "log" /\ (ok \/ "mount" \in MayFail)
  /\ g_config' = IF ok THEN g_config ELSE [g_config EXCEPT !["log"] = Default]
  /\ promised' = IF ok THEN promised ELSE None
  /\ saving' = 1 /\ boot' = "logsave"
  /\ UNCHANGED <<nvs, used, webVars, button, reboot, erased, faultVars>>

LogPersistInitSaved ==
  /\ boot = "logsave" /\ saving = 0
  /\ boot' = "wifi"
  /\ UNCHANGED <<g_config, nvs, used, saving, webVars, button, reboot, promised,
                 erased, faultVars>>

\* wifi_manager_apply_tx_power and _roaming_rssi: the driver takes both at once.  Where it
\* refuses one, that is logged and nothing else.
ApplyTxPower(u) == [u EXCEPT !["tx"] = g_config["tx"]]

WifiManagerStart ==
  /\ boot = "wifi"
  /\ used' = ApplyTxPower([used EXCEPT !["wifi"] = g_config["wifi"]])
  /\ boot' = "join"
  /\ UNCHANGED <<g_config, nvs, saving, webVars, button, reboot, promised, erased,
                 faultVars>>

\* On a network or in the setup AP; from here the web server takes requests.
WebServerStart ==
  /\ boot = "join"
  /\ boot' = "web"
  /\ UNCHANGED <<g_config, nvs, used, saving, webVars, button, reboot, promised,
                 erased, faultVars>>

\* In the setup AP, the only place without a network name, audio is skipped.
SetupOnly ==
  /\ boot = "web"
  /\ boot' = "up"
  /\ UNCHANGED <<g_config, nvs, used, saving, webVars, button, reboot, promised,
                 erased, faultVars>>

\* time_sync_start: IDF refuses to start the client of the clock a second time.
TimeSyncStarted(u) ==
  [u EXCEPT !["ntp"] = IF u["ntp"] = None THEN g_config["ntp"] ELSE u["ntp"]]

ClockStart ==
  /\ boot = "web" /\ used["wifi"] # Default /\ used["ntp"] = None
  /\ used' = TimeSyncStarted(used)
  /\ boot' = "clock"
  /\ UNCHANGED <<g_config, nvs, saving, webVars, button, reboot, promised, erased,
                 faultVars>>

\* ESP_ERROR_CHECK, where a form has started the client already.
ClockAborts ==
  /\ boot = "web" /\ used["wifi"] # Default /\ used["ntp"] # None
  /\ Restarted

WireguardManagerStart ==
  /\ boot = "clock"
  /\ used' = [used EXCEPT !["wg"] = g_config["wg"]]
  /\ boot' = "wg"
  /\ UNCHANGED <<g_config, nvs, saving, webVars, button, reboot, promised, erased,
                 faultVars>>

AudioPipelineStart ==
  /\ boot = "wg"
  /\ used' = [used EXCEPT !["mic"] = g_config["mic"]]
  /\ boot' = "up"
  /\ UNCHANGED <<g_config, nvs, saving, webVars, button, reboot, promised, erased,
                 faultVars>>

------------------------------------------------------------------------------
(* app_config_save, by whoever set saving to 1: app_main or the web server. *)

OpenFails ==
  /\ saving = 1 /\ "nvs_open" \in MayFail
  /\ saving' = 0 /\ unsaved' = TRUE
  /\ promised' = None
  /\ UNCHANGED <<g_config, nvs, bootVars, webVars, button, reboot, erased, unborn,
                 unpointed>>

\* MUTANT: the last setting is loaded at boot but never saved.
WriteFieldButLast ==
  /\ saving # 0
  /\ LET f == FieldOrder[saving] IN nvs' = [nvs EXCEPT ![f] = g_config[f]]
  /\ saving' = IF saving = Len(FieldOrder) - 1 THEN 0 ELSE saving + 1
  /\ UNCHANGED <<g_config, bootVars, webVars, button, reboot, promised, erased,
                 faultVars>>

WriteField ==
  /\ saving # 0
  /\ LET f == FieldOrder[saving] IN nvs' = [nvs EXCEPT ![f] = g_config[f]]
  /\ saving' = IF saving = Len(FieldOrder) THEN 0 ELSE saving + 1
  /\ UNCHANGED <<g_config, bootVars, webVars, button, reboot, promised, erased,
                 faultVars>>

\* nvs_set_* or the nvs_commit after it refuses the field; the next one is written.
WriteRefused ==
  /\ saving # 0 /\ FieldOrder[saving] \in MayRefuse
  /\ saving' = IF saving = Len(FieldOrder) THEN 0 ELSE saving + 1
  /\ unsaved' = TRUE /\ promised' = None
  /\ UNCHANGED <<g_config, nvs, bootVars, webVars, button, reboot, erased, unborn,
                 unpointed>>

AppConfigSave == OpenFails \/ WriteField \/ WriteRefused

------------------------------------------------------------------------------
(* The one task of the web server.                                          *)

Idle == boot \in {"web", "clock", "wg", "up"} /\ pc = "idle"

FewCustom ==
  Cardinality({f \in Fields \ {"wifi"} : g_config'[f] # Default}) <= MaxCustom

\* The handlers that save: what NVS refused before is written again.
SaveBegins ==
  /\ FewCustom
  /\ pc' = "saving" /\ saving' = 1
  /\ promised' = None /\ unsaved' = FALSE
  /\ UNCHANGED <<nvs, bootVars, button, reboot, erased, unborn, unpointed>>

\* POST /save: a form with some of the fields, received whole or refused.  Valid
\* fields are copied, the others left alone.
TakeForm(form) ==
  /\ Idle
  /\ old' = [f \in Compared |-> g_config[f]]
  /\ g_config' =
       [f \in Fields |-> IF f \in DOMAIN form THEN form[f] ELSE g_config[f]]
  /\ req' = "save" /\ SaveBegins

Forms == UNION {[S -> {Default, Custom}] : S \in SUBSET FormFields}

\* POST /wireguard/save: one receive, whose data are parsed whole or not.
TakeTunnel(value) ==
  /\ Idle
  /\ g_config' = [g_config EXCEPT !["wg"] = value]
  /\ req' = "wg" /\ SaveBegins /\ UNCHANGED old

\* POST /logs/persist/toggle, where log_persist_set_enabled succeeds.
TakeToggle ==
  /\ Idle
  /\ g_config' = [g_config EXCEPT
                    !["log"] = IF g_config["log"] = Default THEN Custom ELSE Default]
  /\ req' = "toggle" /\ SaveBegins /\ UNCHANGED old

TakeReboot ==
  /\ Idle
  /\ req' = "reboot" /\ pc' = "answer"
  /\ UNCHANGED <<g_config, nvs, bootVars, saving, old, button, reboot, promised,
                 erased, faultVars>>

\* What nvs_open, nvs_erase_all and nvs_commit may leave of the saved fields.
Leftovers ==
  SUBSET (Fields \cap MayRefuse)
    \cup (IF "nvs_open" \in MayFail THEN {Fields} ELSE {})

\* app_config_factory_reset: g_config keeps the settings until the restart.
FactoryReset(kept) ==
  /\ nvs' = [f \in Fields |-> IF f \in kept THEN nvs[f] ELSE Default]
  /\ UNCHANGED g_config
  /\ erased' = (erased \/ kept # Fields)

TakeReset(kept) ==
  /\ Idle
  /\ req' = "reset" /\ pc' = "answer"
  /\ FactoryReset(kept)
  /\ promised' = IF kept = {} THEN Defaults ELSE None
  /\ unsaved' = (kept # {})
  /\ UNCHANGED <<bootVars, saving, old, button, reboot, unborn, unpointed>>

\* Is there another server to point the clock's client to?
Repointing == req = "save" /\ old["ntp"] # g_config["ntp"]

\* What follows app_config_save: transmit power and roaming are put to use, and the
\* client is pointed to its server, unless an access point is up.
Saved(ap) ==
  /\ pc = "saving" /\ saving = 0 /\ pc' = "answer"
  /\ LET live == IF req = "save" THEN ApplyTxPower(used) ELSE used
     IN  used' = IF Repointing /\ ~ap THEN TimeSyncStarted(live) ELSE live
  /\ unpointed' = (unpointed \/ (Repointing /\ used["ntp"] # None))
  /\ UNCHANGED <<g_config, nvs, boot, saving, req, old, button, reboot, promised,
                 erased, unsaved, unborn>>

\* A tunnel form, a reset and the reboot button end in a restart whatever they changed.
RebootAnyway == req \in {"wg", "reset", "reboot"}

\* MUTANT: the microphone's settings are forgotten in reboot_needed.
RebootNeededForWifi ==
  \/ RebootAnyway
  \/ req = "save" /\ old["wifi"] # g_config["wifi"]

RebootNeeded ==
  \/ RebootAnyway
  \/ req = "save" /\ \E f \in Restarting : old[f] # g_config[f]

\* The answer, and reboot_task where one is due; nothing checks its creation.
Answer(ok) ==
  /\ pc = "answer" /\ (ok \/ "xTaskCreate" \in MayFail)
  /\ reboot' = (reboot \/ (RebootNeeded /\ ok))
  /\ unborn' = (unborn \/ (RebootNeeded /\ ~ok))
  /\ promised' = IF req \in {"save", "wg", "toggle"} /\ ~erased /\ ~unsaved
                 THEN g_config ELSE promised
  /\ pc' = "idle" /\ req' = "none" /\ old' = None
  /\ UNCHANGED <<g_config, nvs, bootVars, saving, button, erased, unsaved, unpointed>>

RebootTask == reboot /\ Restarted

------------------------------------------------------------------------------
(* BOOT button: the hold.                                                   *)

\* An erase in the middle of a save leaves neither configuration.
ButtonErases(kept) ==
  /\ boot \in {"wifi", "join", "web", "clock", "wg", "up"} /\ button = "idle"
  /\ FactoryReset(kept)
  /\ button' = "erased"
  /\ promised' = IF kept = {} /\ saving = 0 THEN Defaults ELSE None
  /\ unsaved' = (unsaved \/ kept # {})
  /\ UNCHANGED <<bootVars, saving, webVars, reboot, unborn, unpointed>>

ButtonRestarts == button = "erased" /\ Restarted

PowerCut == Restarted

Next ==
  \/ AppConfigLoad \/ LogPersistInitSaved \/ WifiManagerStart \/ WebServerStart
  \/ SetupOnly \/ ClockStart \/ ClockAborts \/ WireguardManagerStart
  \/ AudioPipelineStart \/ AppConfigSave
  \/ \E form \in Forms : TakeForm(form)
  \/ \E value \in TunnelValues : TakeTunnel(value)
  \/ TakeToggle \/ TakeReboot
  \/ \E ap \in BOOLEAN : Saved(ap)
  \/ \E ok \in BOOLEAN : LogPersistInit(ok) \/ Answer(ok)
  \/ \E kept \in Leftovers : TakeReset(kept) \/ ButtonErases(kept)
  \/ RebootTask \/ ButtonRestarts \/ PowerCut

Spec == Init /\ [][Next]_vars

------------------------------------------------------------------------------
(* Properties.                                                              *)

\* A device that is up, with no request in hand and no restart on its way, runs on
\* the configuration its pages show, and NVS holds the same: save_post_handler's choice
\* between "applied live" and a reboot is right for every form, also for one that comes
\* while the boot is still going on.  Except where the page says more than was done:
\* NVS refused a write, the reboot's task was not created, or the clock was running
\* and was to get another server (time_sync.h:15 has it "safe to call again ... to pick
\* up the new server").
QuietMeansAgreed ==
  boot = "up" /\ pc = "idle" /\ ~reboot /\ button = "idle" /\ ~unborn =>
    /\ ~unsaved => nvs = g_config
    /\ \A f \in Applied :
         used[f] \in {None, g_config[f]} \/ (f = "ntp" /\ unpointed)

\* What a page has confirmed, saved or erased, is in NVS until the next request
\* changes it, and is what every boot since has loaded, whenever the restarts come,
\* and whatever NVS refused before or after: only the save or erase that NVS refuses
\* in part is confirmed and not kept.
PromiseKept ==
  promised # None =>
    /\ nvs = promised
    /\ boot # "load" /\ ~erased => g_config = promised

\* web_server.c:1131 says of a form: "Never parse a truncated form: a field cut
\* mid-value (e.g. a clipped password) would still pass validation and get
\* persisted".  Does not hold: POST /wireguard/save receives once and parses what
\* it has.
CutFormNeverSaved == \A f \in Fields : nvs[f] # Cut
===============================================================================
