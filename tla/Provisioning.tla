---------------------------- MODULE Provisioning ----------------------------
(***************************************************************************)
(* The commands that bring things from the checkout into the data root and *)
(* record where they came from: the second half of `faff update`,          *)
(* `faff init`, `faff skill install`, `faff update-extension`, and the     *)
(* setup wizards of a provider, a channel, web search and voice.  There is *)
(* one skill and one extension, which is what checkout.extension says: one *)
(* of two channels, or for search or voice.  A hash is the tree it was     *)
(* taken of, without what it leaves out.                                   *)
(***************************************************************************)
EXTENDS DataRoot, FiniteSetsExt

CONSTANTS
    Key,        \* names of environment variables that hold API keys
    NoKey,      \* what a model of a provider that needs no key has for it
    NoModel     \* a slot without a model

ASSUME ProvisioningAssumption == {NoKey, NoModel} \cap Key = {} /\ NoKey # NoModel

Tree(version, edit) == [version |-> version, edit |-> edit, hidden |-> 0, whole |-> TRUE]
Torn(tree) == [tree EXCEPT !.whole = FALSE]
NoTree == Torn(Tree(0, 0))
Template == Tree(checkout.version, 0)

(* _dir_hash: dotfiles, directories of such a name and __pycache__ are not *)
(* looked at.  (The extension is a file, which has nothing of the kind.)   *)
Hash(tree) == [tree EXCEPT !.hidden = 0]

Origin(home, hash) == [home |-> home, hash |-> hash, whole |-> TRUE]
NoEntry == Origin("none", NoTree)

(* An origin file that cannot be read counts as empty. *)
Entry(file) == IF Has(file) /\ root[file].whole THEN root[file] ELSE NoEntry

Jobs(form) == [form |-> form, whole |-> TRUE]
Slots == <<"main", "cheap", "vision">>
Config(models, on) == [slots |-> [s \in {"main", "cheap", "vision"} |-> models], enabled |-> on]
NewConfig == Config(NoModel, "no")

(* What the extension may be for.  A channel imports a package that the    *)
(* image does not have of itself.                                          *)
ChannelKinds == {"telegram", "discord"}
Kinds == ChannelKinds \cup {"search", "voice"}

others == <<dirs, backups, made, legacy, nested, checkout, copied, archive>>

(* Writes a file in place: for a moment it is cut short. *)
InPlace(step, file, content, middle, next) ==
    \/ (At(step) /\ Put(file, Torn(content)) /\ Goto(middle))
    \/ (At(middle) /\ Put(file, content) /\ Goto(next))

-----------------------------------------------------------------------------
(* Skills: _sync_builtin_skills, run_skill_install, _replace_tree *)

AfterSkill == CASE cmd.op = "update" -> [cmd EXCEPT !.at = "heartbeatJob"]
                [] cmd.op = "init" -> [cmd EXCEPT !.at = "config"]
                [] cmd.op = "install" -> Idle

(* A built-in skill that nobody has touched since it was recorded. *)
Pristine == Hash(root["skill"]) = Entry("skillOrigin").hash

OwnsSkill ==
    /\ Entry("skillOrigin").home = "templates"
    /\ Entry("skillOrigin").hash # NoTree

(* Mutant: it is replaced with local changes. *)
StaleWhateverItHolds == Has("skill") /\ OwnsSkill /\ Template # Hash(root["skill"])

StaleSkill == Has("skill") /\ OwnsSkill /\ Pristine /\ Template # Hash(root["skill"])

(* One that is the template but has no entry gets one. *)
Unrecorded ==
    /\ Has("skill")
    /\ Entry("skillOrigin").home # "contrib"
    /\ Entry("skillOrigin").hash = NoTree
    /\ Hash(root["skill"]) = Template

(* A workspace file that is missing is copied first.  What the hash leaves *)
(* out of the skill is not looked at.                                      *)
SyncSkill ==
    /\ At("sync")
    /\ root' = IF "workspace" \in dirs /\ ~Has("notes") THEN With(root, "notes", 0) ELSE root
    /\ cmd' = CASE "workspace" \notin dirs -> Idle
                [] checkout.home = "contrib" /\ "workspace" \in dirs -> AfterSkill
                [] OTHER ->
                   IF ~Has("skill") THEN [cmd EXCEPT !.at = "copyTree"]
                   ELSE IF StaleSkill THEN [cmd EXCEPT !.at = "stage"]
                   ELSE IF Unrecorded THEN [cmd EXCEPT !.at = "recordSkill"]
                   ELSE AfterSkill
    /\ late' = {w \in late : w[1] = "skill" => w[2].edit = 0}
    /\ UNCHANGED <<others, replaced, halfway, bounds>>

InstallSkill(force) ==
    /\ ~Running
    /\ checkout.home = "contrib"
    /\ "workspace" \in dirs
    /\ Has("skill") =>
          /\ Entry("skillOrigin").home # "none"
          /\ Pristine \/ force \/ Entry("skillOrigin").hash = NoTree
    /\ Counted("commands", MaxCommands)
    /\ cmd' = [Idle EXCEPT !.op = "install", !.at = "stage", !.force = force]
    /\ late' = {}
    /\ UNCHANGED <<root, others, replaced, halfway>>

(* Where there was no tree it is copied in place, which can be cut short. *)
CopyTree ==
    /\ InPlace("copyTree", "skill", Template, "copyingTree", "recordSkill")
    /\ UNCHANGED <<others, history, bounds>>

Stage ==
    /\ InPlace("stage", "skillNew", Template, "staging", "swap")
    /\ UNCHANGED <<others, history, bounds>>

Aside ==
    /\ At("swap")
    /\ Has("skill")
    /\ root' = With(Without(root, {"skill"}), "skillOld", root["skill"])
    /\ replaced' = IF cmd.op = "update" THEN replaced \cup Taken({"skill"}) ELSE replaced
    /\ Goto("place")
    /\ UNCHANGED <<others, late, halfway, bounds>>

Place ==
    /\ At("place") \/ (At("swap") /\ ~Has("skill"))
    /\ root' = With(Without(root, {"skillNew"}), "skill", root["skillNew"])
    /\ Goto(IF At("place") THEN "drop" ELSE "recordSkill")
    /\ UNCHANGED <<others, history, bounds>>

DropOld ==
    /\ At("drop")
    /\ root' = Without(root, {"skillOld"})
    /\ Goto("recordSkill")
    /\ UNCHANGED <<others, history, bounds>>

RecordSkill ==
    /\ \/ /\ At("recordSkill")
          /\ Put("skillOrigin", Torn(NoEntry))
          /\ Goto("recordingSkill")
       \/ /\ At("recordingSkill")
          /\ Put("skillOrigin", Origin(checkout.home, Template))
          /\ cmd' = AfterSkill
    /\ UNCHANGED <<others, history, bounds>>

Skill ==
    \/ SyncSkill \/ CopyTree \/ Stage \/ Aside \/ Place \/ DropOld \/ RecordSkill
    \/ \E force \in BOOLEAN : InstallSkill(force)

-----------------------------------------------------------------------------
(* The rest of run_update and of run_init *)

(* _migrate_heartbeat_job rewrites a job of the old form in place. *)
MigrateHeartbeat ==
    /\ \/ /\ At("heartbeatJob")
          /\ IF Has("jobs") /\ root["jobs"] = Jobs("old")
             THEN /\ Put("jobs", Torn(Jobs("new")))
                  /\ replaced' = replaced \cup Taken({"jobs"})
                  /\ Goto("writingJobs")
             ELSE Finish /\ UNCHANGED <<root, replaced>>
       \/ /\ At("writingJobs") /\ cmd.op = "update"
          /\ Put("jobs", Jobs("new"))
          /\ Finish
          /\ UNCHANGED replaced
    /\ UNCHANGED <<others, late, halfway, bounds>>

RunInit ==
    /\ Begin("init", "sync")
    /\ dirs' = {"workspace", "state", "extensions"}
    /\ UNCHANGED <<root, backups, made, legacy, nested, checkout, copied, archive, replaced, halfway>>

(* A file that is there is left alone, but for the time zone in config.    *)
CreateMissing ==
    LET missing == [config |-> NewConfig, keys |-> {}, jobs |-> Jobs("empty"),
                    requirements |-> {}, extOrigin |-> NoEntry]
    IN /\ At("config")
       /\ \/ \E i \in DOMAIN missing :
                /\ ~Has(i)
                /\ i # "config" => Has("config")
                /\ Put(i, missing[i])
                /\ UNCHANGED cmd
          \/ DOMAIN missing \subseteq DOMAIN root /\ Finish /\ UNCHANGED root
       /\ UNCHANGED <<others, history, bounds>>

-----------------------------------------------------------------------------
(* Extensions: run_update_extension and install_extension *)

BeginUpdateExtension ==
    /\ "extensions" \in dirs
    /\ Entry("extOrigin").hash # NoTree
    /\ ~(Has("ext") /\ root["ext"] = Template)
    /\ Begin("extension", IF Has("ext") THEN "bak" ELSE "replace")
    /\ UNCHANGED <<root, others, replaced, halfway>>

Bak ==
    /\ At("bak")
    /\ Put("extBak", (IF Has("extBak") THEN root["extBak"] ELSE {}) \cup {root["ext"]})
    /\ Seen({"ext"})
    /\ Goto("replace")
    /\ UNCHANGED <<others, replaced, halfway, bounds>>

(* Staged beside the old version, which is replaced in one step. *)
ReplaceExtension ==
    /\ At("replace")
    /\ Put("ext", Template)
    /\ Goto("recordExtension")
    /\ UNCHANGED <<others, history, bounds>>

(* The wizards ask for the secret and install the extension in this order. *)
SetupTelegram == <<"copyExtension", "requirement", "recordExtension", "secret", "enable", "defaultJobs">>
SetupDiscord == <<"copyExtension", "requirement", "recordExtension", "secret", "enable", "defaultJobs">>
SetupSearch == <<"copyExtension", "recordExtension", "secret", "enable", "done">>
SetupVoice == <<"secret", "copyExtension", "recordExtension", "enable", "done">>
Setup == CASE checkout.extension = "telegram" -> SetupTelegram
           [] checkout.extension = "discord" -> SetupDiscord
           [] checkout.extension = "search" -> SetupSearch
           [] checkout.extension = "voice" -> SetupVoice
After(step) == Setup[1 + CHOOSE n \in DOMAIN Setup : Setup[n] = step]
Onward(step) == IF After(step) = "done" THEN Finish ELSE Goto(After(step))

(* `faff setup` asks for a config before it starts a wizard. *)
BeginWizard ==
    /\ Has("config")
    /\ Begin("wizard", Setup[1])
    /\ UNCHANGED <<root, others, replaced, halfway>>

(* A wizard stops at an unreadable origin file, and at a file that is not  *)
(* recorded in it.                                                         *)
MayInstall ==
    /\ Has("extOrigin") => root["extOrigin"].whole
    /\ Has("ext") => Entry("extOrigin").hash # NoTree

RefuseExtension ==
    /\ At("copyExtension")
    /\ ~MayInstall
    /\ Finish
    /\ UNCHANGED <<root, others, history, bounds>>

(* In place, whether or not there is a version there. *)
CopyExtension ==
    /\ At("copyExtension") => MayInstall
    /\ InPlace("copyExtension", "ext", Template, "copyingExtension", After("copyExtension"))
    /\ dirs' = dirs \cup {"extensions"}
    /\ UNCHANGED <<backups, made, legacy, nested, checkout, copied, archive, history, bounds>>

(* The image has the package when it has been built again. *)
AddRequirement ==
    /\ At("requirement")
    /\ Put("requirements", {"package"})
    /\ Onward("requirement")
    /\ UNCHANGED <<others, history, bounds>>

RecordExtension ==
    /\ \/ /\ At("recordExtension")
          /\ Put("extOrigin", Torn(NoEntry))
          /\ Goto("recordingExtension")
       \/ /\ At("recordingExtension")
          /\ Put("extOrigin", Origin("contrib", Template))
          /\ IF cmd.op = "extension" THEN Finish ELSE Onward("recordExtension")
    /\ UNCHANGED <<others, history, bounds>>

Extension ==
    \/ BeginUpdateExtension \/ Bak \/ ReplaceExtension
    \/ BeginWizard \/ RefuseExtension \/ CopyExtension \/ AddRequirement \/ RecordExtension

-----------------------------------------------------------------------------
(* What the wizards write to .env, config.json and jobs.json.  The first   *)
(* two are replaced in one step each.                                      *)

KeysIn == IF Has("keys") THEN root["keys"] ELSE {}

(* A channel's token, or the key of the search or voice service. *)
SaveSecret ==
    /\ At("secret")
    /\ Put("keys", KeysIn \cup {"secret"})
    /\ Onward("secret")
    /\ UNCHANGED <<others, history, bounds>>

Enable ==
    /\ At("enable")
    /\ Put("config", [root["config"] EXCEPT !.enabled = checkout.extension])
    /\ Onward("enable")
    /\ UNCHANGED <<others, history, bounds>>

(* ensure_default_jobs adds what is missing and keeps what is there. *)
DefaultJobs ==
    /\ \/ /\ At("defaultJobs")
          /\ IF ~Has("jobs") \/ root["jobs"] = Jobs("empty")
             THEN /\ Put("jobs", Torn(Jobs("new")))
                  /\ Goto("writingJobs")
                  /\ dirs' = dirs \cup {"workspace"}
             ELSE Finish /\ UNCHANGED <<root, dirs>>
       \/ /\ At("writingJobs") /\ cmd.op = "wizard"
          /\ Put("jobs", Jobs("new"))
          /\ Finish
          /\ UNCHANGED dirs
    /\ UNCHANGED <<backups, made, legacy, nested, checkout, copied, archive, history, bounds>>

(* Mutant: the config names the key before .env has it. *)
SlotsFirst(key) ==
    /\ Has("config")
    /\ ~Running
    /\ Counted("commands", MaxCommands)
    /\ cmd' = [Idle EXCEPT !.op = "provider", !.at = "slots", !.key = key]
    /\ late' = {}
    /\ UNCHANGED <<root, others, replaced, halfway>>

(* The key is in the shell's environment, or asked for and saved. *)
BeginProviderWizard(key) ==
    /\ Has("config")
    /\ ~Running
    /\ Counted("commands", MaxCommands)
    /\ cmd' = [Idle EXCEPT !.op = "provider", !.at = "slots", !.key = key]
    /\ late' = {}
    /\ IF key \in Exported THEN UNCHANGED root ELSE Put("keys", KeysIn \cup {key})
    /\ UNCHANGED <<others, replaced, halfway>>

(* _update_config_models: slot by slot. *)
Unset == {n \in DOMAIN Slots : root["config"].slots[Slots[n]] # cmd.key}

SetSlots ==
    /\ At("slots")
    /\ IF Unset = {} THEN Finish /\ UNCHANGED root
       ELSE /\ root' = [root EXCEPT !["config"].slots[Slots[Min(Unset)]] = cmd.key]
            /\ UNCHANGED cmd
    /\ UNCHANGED <<others, history, bounds>>

Wizards ==
    \/ SaveSecret \/ Enable \/ DefaultJobs
    \/ \E key \in Key : BeginProviderWizard(key)
    \/ SetSlots
=============================================================================
