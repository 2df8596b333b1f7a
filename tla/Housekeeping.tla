---------------------------- MODULE Housekeeping ----------------------------
(***************************************************************************)
(* The commands of DataRoot and Provisioning in any order, killed          *)
(* anywhere, with the service and its user at work on the same files, and  *)
(* the checkout upgraded in between.                                       *)
(***************************************************************************)
EXTENDS Provisioning

Item == DOMAIN Part

TreeType == [version : Nat, edit : Nat, hidden : Nat, whole : BOOLEAN]
OriginType == [home : {"none", "templates", "contrib"}, hash : TreeType, whole : BOOLEAN]
SlotName == {"main", "cheap", "vision"}
ConfigType == [slots : [SlotName -> Key \cup {NoKey, NoModel}], enabled : Kinds \cup {"no"}]

(* A recorded hash is that of a tree nobody has edited yet.                *)
GoodOrigin(o) ==
    /\ o \in OriginType
    /\ o.hash.edit = 0 /\ o.hash.hidden = 0
    /\ o.hash = NoTree \/ o.hash.whole
    /\ o.home # "none" => o.hash # NoTree

Fits(i, content) ==
    /\ i = "config" => content \in ConfigType
    /\ i \in {"skill", "skillNew", "skillOld", "ext"} => content \in TreeType
    /\ i \in {"skillOrigin", "extOrigin"} => GoodOrigin(content)

Dir(d) == DOMAIN d \subseteq Item /\ \A i \in DOMAIN d : Fits(i, d[i])

(* The keys that a config names, and the secret of its extension, are in   *)
(* .env or in the shell.                                                   *)
KeysOf(d) == IF "keys" \in DOMAIN d THEN d["keys"] ELSE {}
BackedDir(d) ==
    "config" \in DOMAIN d =>
        /\ \A s \in SlotName : d["config"].slots[s] \in KeysOf(d) \cup Exported \cup {NoKey, NoModel}
        /\ d["config"].enabled # "no" => "secret" \in KeysOf(d) \cup Exported

(* The extension that a config enables is there, and recorded, and the     *)
(* package that a channel imports is listed for the image.                 *)
PackageListed(d) == "requirements" \in DOMAIN d /\ "package" \in d["requirements"]
RecordedDir(d) ==
    "config" \in DOMAIN d /\ d["config"].enabled # "no" =>
        /\ {"ext", "extOrigin"} \subseteq DOMAIN d
        /\ d["extOrigin"].whole => d["extOrigin"].hash # NoTree
        /\ d["config"].enabled \in ChannelKinds => PackageListed(d)

SoundTarball(b) ==
    /\ b.half = "no" => BackedDir(b.data)
    /\ b.half # "apart" /\ ~b.old => RecordedDir(b.data)

(* What the program can be started on: the data root, or a checkout that   *)
(* still holds it, as a setup that was finished has left it, with tarballs *)
(* of such roots.                                                          *)
ASSUME BeginningsAssumption ==
    \A b \in Beginnings :
        /\ Dir(b.root) /\ Dir(b.legacy)
        /\ b.backups \in Seq(Range(b.backups))
        /\ \A n \in DOMAIN b.backups :
              /\ Dir(b.backups[n].data) /\ b.backups[n].half = "no"
              /\ b.backups[n].whole => SoundTarball(b.backups[n])
        /\ b.dirs \subseteq {"workspace", "state", "extensions"}
        /\ "extensions" \in b.dirs \/ "requirements" \in DOMAIN b.root => "state" \in b.dirs
        /\ \A i \in DOMAIN b.root : Part[i] \in b.dirs \cup {"requirements"}
        /\ LET d == IF "state" \in b.dirs THEN b.root ELSE b.legacy
           IN  BackedDir(d) /\ RecordedDir(d)
        /\ b.home \in {"templates", "contrib"}
        /\ b.extension \in Kinds
        /\ b.installed \in BOOLEAN

Init ==
    /\ \E b \in Beginnings :
          /\ root = b.root
          /\ dirs = b.dirs
          /\ backups = b.backups
          /\ legacy = b.legacy
          /\ checkout = [version |-> 1, home |-> b.home, extension |-> b.extension,
                         installed |-> b.installed]
          /\ made = Len(b.backups)
    /\ nested = Empty
    /\ cmd = Idle
    /\ copied = Empty
    /\ archive = [data |-> Empty, whole |-> FALSE, old |-> FALSE, half |-> "no"]
    /\ replaced = {} /\ late = {} /\ halfway = "no"
    /\ bounds = [commands |-> 0, kills |-> 0, writes |-> 0, upgrades |-> 0]

(* SIGKILL, ctrl-C at a prompt, the container's end. *)
Kill ==
    /\ Running
    /\ Counted("kills", MaxKills)
    /\ Finish
    /\ copied' = Empty
    /\ replaced' = AfterMove
    /\ UNCHANGED <<root, dirs, backups, made, legacy, nested, checkout, archive, late, halfway>>

(* What somebody else writes is not for a command to keep afterwards.      *)
Write(item, content) ==
    /\ Counted("writes", MaxWrites)
    /\ Put(item, content)
    /\ replaced' = {r \in replaced : ~(r[4] = "moved" /\ r[1] = item /\ Has(item) /\ r[2] = root[item])}
    /\ late' = IF Running THEN late \cup {<<item, content>>} ELSE late
    /\ UNCHANGED <<dirs, backups, made, legacy, nested, checkout, cmd, copied, archive, halfway>>

(* The service writes its database and the workspace, and makes what is    *)
(* missing there; but not in a directory on its way into the data root,    *)
(* before which it is asked to be stopped.                                 *)
Serve ==
    \E item \in {"db", "notes"} :
        /\ Has(item) \/ (Part[item] \in dirs /\ ~At("moving"))
        /\ Write(item, bounds.writes + 1)

(* The user, or the agent for him, edits the skill or the extension: in    *)
(* the skill perhaps only what its hash leaves out.                        *)
Edit ==
    \/ \E item \in {"skill", "ext"} :
          /\ Has(item)
          /\ root[item].whole
          /\ Write(item, [root[item] EXCEPT !.edit = bounds.writes + 1])
    \/ /\ Has("skill")
       /\ root["skill"].whole
       /\ Write("skill", [root["skill"] EXCEPT !.hidden = bounds.writes + 1])

(* To have it copied anew, as the documentation says. *)
DeleteSkill ==
    /\ ~Running
    /\ Has("skill")
    /\ Counted("writes", MaxWrites)
    /\ root' = Without(root, {"skill"})
    /\ UNCHANGED <<dirs, backups, made, legacy, nested, checkout, cmd, copied, archive, history>>

(* A new version of the checkout, which may ship the skill elsewhere. *)
Upgrade ==
    /\ ~Running
    /\ Counted("upgrades", MaxUpgrades)
    /\ \E home \in {checkout.home, "contrib"} :
          checkout' = [checkout EXCEPT !.version = @ + 1, !.home = home]
    /\ UNCHANGED <<root, dirs, backups, made, legacy, nested, cmd, copied, archive, history>>

(* `docker compose build` installs what the checkout's copy of the         *)
(* requirements lists, and the copy may be behind.                         *)
Rebuild ==
    /\ ~Running
    /\ Counted("upgrades", MaxUpgrades)
    /\ \E built \in BOOLEAN : checkout' = [checkout EXCEPT !.installed = built]
    /\ UNCHANGED <<root, dirs, backups, made, legacy, nested, cmd, copied, archive, history>>

(* What must be there for `faff run` and `faff chat` to start.  .env is    *)
(* their environment, or the shell it was set up from.                     *)
Environment == KeysIn \cup Exported

CheckProviderConfigured == root["config"].slots["main"] # NoModel

(* load_config refuses a model whose key is not set. *)
ParseModel(slot) == root["config"].slots[slot] \in Environment \cup {NoKey, NoModel}
LoadConfig ==
    /\ root["config"].slots["main"] # NoModel
    /\ \A slot \in DOMAIN root["config"].slots : ParseModel(slot)

Enabled(kinds) == root["config"].enabled \in kinds

(* A module that is cut short does not compile, and one whose package is   *)
(* not installed cannot be imported.                                       *)
ImportClass ==
    /\ Has("ext") /\ root["ext"].whole
    /\ Enabled(ChannelKinds) => checkout.installed

WireSearchProvider == Enabled({"search"}) => "secret" \in Environment /\ ImportClass
WireTranscriber == Enabled({"voice"}) => ImportClass /\ "secret" \in Environment
Wire == LoadConfig /\ WireTranscriber /\ WireSearchProvider

(* A channel that cannot be built is left out; without one the service     *)
(* does not start.                                                         *)
BuildChannels == Enabled(ChannelKinds) /\ ImportClass /\ "secret" \in Environment

CmdChat == Has("config") /\ CheckProviderConfigured /\ Wire
CmdRun == Has("config") /\ CheckProviderConfigured /\ Wire /\ BuildChannels

Next ==
    \/ RunBackup \/ SnapshotData \/ Restore \/ Update
    \/ Skill \/ MigrateHeartbeat \/ RunInit \/ CreateMissing \/ Extension \/ Wizards
    \/ Kill \/ Serve \/ Edit \/ DeleteSkill \/ Upgrade \/ Rebuild

Spec == Init /\ [][Next]_vars

-----------------------------------------------------------------------------
TypeOK ==
    /\ DOMAIN root \subseteq DOMAIN Part
    /\ DOMAIN legacy \subseteq DOMAIN Part
    /\ DOMAIN nested \subseteq DOMAIN Part
    /\ dirs \subseteq {"workspace", "state", "extensions"}
    /\ made \in Nat /\ Len(backups) <= made
    /\ halfway \in {"no", "restore", "apart"}

(* What a restore without --force, or an update, takes out of the data     *)
(* root or the checkout can be had again: it is in a whole tarball in      *)
(* backups/, or it was moved and is in the data root, until MaxSnapshots   *)
(* tarballs have been made since.  The exception is a restore into a root  *)
(* without state/: nothing is saved then, whatever workspace/ holds.       *)
Recoverable(item, content) ==
    \/ \E n \in DOMAIN backups :
          /\ backups[n].whole
          /\ item \in DOMAIN backups[n].data
          /\ backups[n].data[item] = content
    \/ Has(item) /\ root[item] = content
    \/ item \in DOMAIN nested /\ nested[item] = content

ReplacedIsRecoverable ==
    \A r \in replaced : Recoverable(r[1], r[2]) \/ made >= r[3] + MaxSnapshots

(* A restore that says it is done leaves what is in the tarball and nothing*)
(* else, but for what the service wrote meanwhile; from a tarball of the   *)
(* state-only layout, in state/.                                           *)
RestoredIsTheArchive ==
    At("restored") =>
        \A i \in DOMAIN Part : Part[i] \in Target =>
            /\ i \in DOMAIN archive.data => Has(i)
            /\ Has(i) => \/ i \in DOMAIN archive.data /\ root[i] = archive.data[i]
                         \/ \E w \in late : w[1] = i

(* A skill edited after its installation is not replaced or removed by     *)
(* update, init or an install, and an edited extension is kept as a .bak   *)
(* by update-extension.  What may go: an edit made while the command runs, *)
(* after it has looked; a skill when the install is forced; and an         *)
(* extension when its wizard is run again, which keeps no copy.  Of a skill*)
(* that is as it was installed but for what the hash leaves out, nothing is*)
(* promised: dotfiles and __pycache__ go with the old tree, unannounced.   *)
(* (What update takes away so is still in its snapshot.)                   *)
Edited(item) == Has(item) /\ root[item].edit # 0
Stays(item) == item \in DOMAIN root' /\ root'[item] = root[item]

KeepsEdits ==
    /\ Edited("skill") /\ ~Stays("skill") =>
          \/ <<"skill", root["skill"]>> \in late
          \/ cmd.op = "restore"
          \/ cmd.op = "install" /\ cmd.force
          \/ bounds'.writes # bounds.writes
    /\ Edited("ext") /\ ~Stays("ext") =>
          \/ <<"ext", root["ext"]>> \in late
          \/ Has("extBak") /\ root["ext"] \in root["extBak"]
          \/ cmd.op \in {"restore", "wizard"}
          \/ bounds'.writes # bounds.writes
LocalEditsKept == [][KeepsEdits]_vars

(* `faff run` and `faff chat` start from what the commands leave, at every *)
(* moment and whatever was killed, once there is a model: no config names a*)
(* key that is neither in .env nor in the shell that ran the wizard, or an *)
(* extension that is not there.  Except while a restore, or the move out of*)
(* the checkout, is under way or was cut short (neither is taken up again  *)
(* where it stopped); after a restore from a state-only tarball whose      *)
(* config enables an extension, as extensions/ is not in it; and while an  *)
(* extension is copied over by a wizard that is run again.  And with a     *)
(* channel `faff run` needs the image built again if its package is not in *)
(* it, as after the wizard, which says so: then it is in the requirements, *)
(* and nothing else is missing.                                            *)
ConfigIsBacked ==
    Has("config") /\ halfway = "no" /\ CheckProviderConfigured =>
        \/ CmdChat /\ (Enabled(ChannelKinds) => CmdRun)
        \/ /\ LoadConfig /\ "secret" \in Environment /\ Has("ext")
           /\ \/ ~root["ext"].whole
              \/ Enabled(ChannelKinds) /\ ~checkout.installed /\ PackageListed(root)
=============================================================================
