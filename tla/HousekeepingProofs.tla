------------------------- MODULE HousekeepingProofs -------------------------
(***************************************************************************)
(* What update, backup, restore, init, the installs and the wizards leave  *)
(* behind, whatever they were killed in and whatever is written meanwhile. *)
(* One command runs at a time, so the invariant says, for every step of    *)
(* every command, what the steps before it have done: Snapshot, Exact,     *)
(* Untouched, Unpacking, Progress and Move.  Of what was taken away,       *)
(* Watched says where it is kept; and at any moment a config names only    *)
(* keys and an extension that are there (Backed, Recorded), in the data    *)
(* root, in every whole tarball (Tarballs), and in a checkout that is yet  *)
(* to be moved.                                                            *)
(***************************************************************************)
EXTENDS Doctor, NaturalsInduction, WellFoundedInduction, TLAPS

-----------------------------------------------------------------------------
Sound(d) == BackedDir(d) /\ RecordedDir(d)

(* What this speaks of.  Of the extension it only says that it is there.   *)
Core == {"keys", "config", "ext", "extOrigin", "requirements"}
Alike(d, e) ==
    \A i \in Core : /\ i \in DOMAIN d <=> i \in DOMAIN e
                    /\ i \in DOMAIN d /\ i # "ext" => d[i] = e[i]

SnapshotSteps == {"copyState", "copyWorkspace", "copyRest", "tar", "write"}
SkillSteps == {"copyTree", "copyingTree", "stage", "staging", "swap", "place", "drop",
               "recordSkill", "recordingSkill"}
RecordSteps == {"recordExtension", "recordingExtension"}

Ops == {"none", "backup", "restore", "update", "init", "install", "extension", "wizard", "provider"}

Stations ==
    SnapshotSteps \cup SkillSteps \cup RecordSteps
    \cup {"idle", "clear", "extract", "restored", "move", "moving", "rotate", "sync",
          "heartbeatJob", "writingJobs", "config", "bak", "replace", "copyExtension",
          "copyingExtension", "requirement", "secret", "enable", "defaultJobs", "slots"}

(* Where a command can be.                                                 *)
Where(op, step) ==
    \/ op = "none" /\ step = "idle"
    \/ op \in {"backup", "restore", "update"} /\ step \in SnapshotSteps
    \/ op = "restore" /\ step \in {"clear", "extract", "restored"}
    \/ op = "update" /\ step \in {"move", "moving", "rotate", "heartbeatJob", "writingJobs"}
    \/ op \in {"update", "init"} /\ step \in {"sync", "copyTree", "copyingTree"}
    \/ op \in {"update", "init", "install"} /\ step \in SkillSteps \ {"copyTree", "copyingTree"}
    \/ op = "init" /\ step = "config"
    \/ op = "extension" /\ step \in {"bak", "replace"}
    \/ op \in {"extension", "wizard"} /\ step \in RecordSteps
    \/ op = "wizard" /\ step \in {"copyExtension", "copyingExtension", "requirement", "secret",
                                  "enable", "defaultJobs", "writingJobs"}
    \/ op = "provider" /\ step = "slots"

Command ==
    /\ cmd \in [op : Ops, at : Stations, force : BOOLEAN, stateless : BOOLEAN,
                left : SUBSET Item, into : {"root", "nested"}, key : Key \cup {"none"}]
    /\ Where(cmd.op, cmd.at)

Types ==
    /\ Dir(root) /\ Dir(legacy) /\ Dir(nested) /\ Dir(copied) /\ Dir(archive.data)
    /\ \A n \in DOMAIN backups : Dir(backups[n].data)
    /\ made \in Nat /\ Len(backups) <= made
    /\ dirs \subseteq {"workspace", "state", "extensions"}
    /\ checkout \in [version : Nat, home : {"templates", "contrib"},
                     extension : Kinds, installed : BOOLEAN]
    /\ halfway \in {"no", "restore", "apart"}
    /\ bounds \in [commands : Nat, kills : Nat, writes : Nat, upgrades : Nat]
    /\ \A w \in late : w[1] \in {"db", "notes", "skill", "ext"}
    /\ \A r \in replaced : r[3] \in Nat /\ r[3] <= made /\ r[4] \in {"saved", "moved"}

Listed == \E S : backups \in Seq(S)

(* No item without its directory, and extensions/ not before state/.       *)
Placed ==
    /\ \A i \in DOMAIN root : Part[i] # "requirements" => Part[i] \in dirs
    /\ "extensions" \in dirs \/ Has("requirements") => "state" \in dirs

(* What a command has found when it began is there until it ends.          *)
Found ==
    /\ cmd.at \in SkillSteps => "workspace" \in dirs
    /\ cmd.op = "init" => {"workspace", "state", "extensions"} \subseteq dirs
    /\ cmd.op \in {"wizard", "provider"} => Has("config")
    /\ cmd.op = "provider" => cmd.key \in Key /\ cmd.key \in Environment
    /\ cmd.op = "extension" => "extensions" \in dirs
    /\ At("writingJobs") => Has("jobs")

(* What the steps before this one have done.                               *)
Gone(p) == ItemsOf(p) \cap DOMAIN legacy = {}
Course ==
    /\ cmd.at \in {"staging", "swap", "place"} => Has("skillNew")
    /\ cmd.op = "wizard" /\ checkout.extension \in {"search", "voice"} =>
          cmd.at \notin {"requirement", "defaultJobs", "writingJobs"}
    /\ cmd.op = "wizard" /\ cmd.at \in RecordSteps \cup {"requirement"} => "extensions" \in dirs
    /\ cmd.at \in {"extract", "restored"} => cmd.left \subseteq DOMAIN archive.data /\ "state" \in dirs
    /\ cmd.at \in {"move", "moving"} => "state" \in dirs \/ ~Gone("state")
    /\ At("moving") => MovePart \in dirs /\ ~Gone(MovePart)

Base == Listed /\ Command /\ Types /\ Placed /\ Found

(* The staging directory holds what has been copied, or what was there     *)
(* when it was.                                                            *)
Staged(i) ==
    \/ At("copyWorkspace") /\ Part[i] = "state"
    \/ At("copyRest") /\ Part[i] \in {"state", "workspace"}
    \/ At("tar") \/ At("write")
Snapshot ==
    cmd.at \in {"copyWorkspace", "copyRest", "tar", "write"} =>
        \A i \in Item :
            /\ i \in DOMAIN copied =>
                  Staged(i) /\ Has(i) /\ (copied[i] = root[i] \/ <<i, root[i]>> \in late)
            /\ Staged(i) /\ Has(i) /\ i \notin DOMAIN copied =>
                  i \in {"db", "notes"} /\ <<i, root[i]>> \in late

(* The newest tarball, before it is written.                               *)
Opened ==
    At("write") =>
        /\ Len(backups) >= 1
        /\ ~backups[Len(backups)].whole /\ ~backups[Len(backups)].old
        /\ backups[Len(backups)].half = halfway

(* What may be replaced is in the newest tarball.                          *)
Saves(b, i, content) == b.whole /\ i \in DOMAIN b.data /\ b.data[i] = content
Safe(i) ==
    Has(i) => \/ <<i, root[i]>> \in late
              \/ Len(backups) >= 1 /\ Saves(backups[Len(backups)], i, root[i])
Saved ==
    /\ At("clear") /\ ~cmd.force /\ ~cmd.stateless => \A i \in Item : Safe(i)
    /\ cmd.op = "update" /\ cmd.at \in {"rotate", "sync", "stage", "staging", "swap"} => Safe("skill")
    /\ cmd.op = "update" /\ cmd.at \in SkillSteps \cup {"rotate", "sync", "heartbeatJob"}
          => Safe("jobs")

Exact ==
    /\ cmd.at \in {"extract", "restored"} =>
          \A i \in Item : Part[i] \in Target =>
                /\ i \in DOMAIN archive.data \ cmd.left => Has(i)
                /\ Has(i) => \/ i \in DOMAIN archive.data \ cmd.left /\ root[i] = archive.data[i]
                             \/ \E w \in late : w[1] = i
    /\ At("restored") => cmd.left = {}

(* The skill that is going to be replaced is as it was installed.          *)
Untouched ==
    /\ cmd.at \in {"stage", "staging", "swap"} /\ Has("skill") =>
          \/ root["skill"].edit = 0
          \/ <<"skill", root["skill"]>> \in late
          \/ cmd.op = "install" /\ cmd.force
    /\ cmd.at \in {"copyTree", "place"} => ~Has("skill")
    /\ At("copyingTree") => Has("skill") /\ root["skill"].edit = 0 /\ ~root["skill"].whole

Backup ==
    At("replace") /\ Has("ext") =>
        \/ <<"ext", root["ext"]>> \in late
        \/ Has("extBak") /\ root["ext"] \in root["extBak"]

Backed == halfway = "no" => BackedDir(root)
Recorded == halfway # "apart" => RecordedDir(root)

Tarballs ==
    /\ \A n \in DOMAIN backups : backups[n].whole => SoundTarball(backups[n])
    /\ cmd.op = "restore" => SoundTarball(archive)

(* The config is not unpacked before the extension it may enable.          *)
Unpacking ==
    At("extract") =>
        /\ halfway = IF archive.half = "apart" \/ Mixing THEN "apart" ELSE "restore"
        /\ "config" \in DOMAIN archive.data \ cmd.left =>
              cmd.left \cap {"ext", "extOrigin", "requirements"} = {}

(* What the steps of a wizard have done before it enables the extension.   *)
OriginThere == Has("extOrigin") /\ (root["extOrigin"].whole => root["extOrigin"].hash # NoTree)
Progress ==
    cmd.op = "wizard" =>
        /\ cmd.at \in RecordSteps \cup {"copyingExtension", "requirement", "enable"} => Has("ext")
        /\ At("recordingExtension") \/ At("enable") => OriginThere
        /\ At("secret") /\ checkout.extension # "voice" => Has("ext") /\ OriginThere
        /\ At("enable") => "secret" \in KeysIn
        /\ checkout.extension = "voice" /\ ~At("secret") => "secret" \in KeysIn
        /\ checkout.extension \in ChannelKinds /\ cmd.at \in RecordSteps \cup {"secret", "enable"} =>
              PackageListed(root)

(* The data root as it will be after the move.                             *)
Joint == Over(root, legacy)
Unmoved == "state" \notin dirs => Sound(legacy)
Move ==
    cmd.at \in {"move", "moving"} =>
        /\ Sound(Joint)
        /\ ~Has("requirements")
        /\ \A p \in {"state", "extensions"} : p \in dirs => Gone(p) \/ (At("moving") /\ MovePart = p)
        /\ At("moving") => halfway = "apart" /\ (cmd.into = "nested" => MovePart = "workspace")

(* What has been copied out of the checkout is still in both places.       *)
Arrived ==
    At("moving") =>
        \A i \in ToMove \cap There :
            IF cmd.into = "root" THEN root[i] = legacy[i] \/ <<i, root[i]>> \in late
                                 ELSE nested[i] = legacy[i]

(* What was taken away can be had again.                                   *)
Kept(r) ==
    \/ made >= r[3] + MaxSnapshots
    \/ \E n \in DOMAIN backups : Saves(backups[n], r[1], r[2]) /\ made - Len(backups) + n >= r[3]
Carried(r) ==
    \/ Has(r[1]) /\ root[r[1]] = r[2]
    \/ r[1] \in DOMAIN nested /\ nested[r[1]] = r[2]
Watched ==
    \A r \in replaced :
        /\ r[4] = "saved" => Kept(r)
        /\ r[4] = "moved" => cmd.at \in {"move", "moving"} /\ Carried(r)

-----------------------------------------------------------------------------
(* Directories as functions                                                *)

LEMMA OverIs ==
    ASSUME NEW f, NEW g
    PROVE  /\ DOMAIN Over(f, g) = DOMAIN f \cup DOMAIN g
           /\ \A i \in DOMAIN f : Over(f, g)[i] = f[i]
           /\ \A i \in DOMAIN g \ DOMAIN f : Over(f, g)[i] = g[i]
BY DEF Over

LEMMA WithoutIs ==
    ASSUME NEW d, NEW items
    PROVE  /\ DOMAIN Without(d, items) = DOMAIN d \ items
           /\ \A j \in DOMAIN d \ items : Without(d, items)[j] = d[j]
BY DEF Without, Restrict

LEMMA PutIs ==
    ASSUME NEW i, NEW content, Put(i, content)
    PROVE  /\ DOMAIN root' = DOMAIN root \cup {i}
           /\ root'[i] = content
           /\ \A j \in DOMAIN root \ {i} : root'[j] = root[j]
BY DEF Put, With

LEMMA PartIs ==
    /\ Item = {"keys", "config", "db", "jobs", "notes", "skillOrigin", "skill", "skillNew", "skillOld",
               "extOrigin", "ext", "extBak", "requirements"}
    /\ \A i \in {"keys", "config", "db"} : Part[i] = "state"
    /\ \A i \in {"jobs", "notes", "skillOrigin", "skill", "skillNew", "skillOld"} : Part[i] = "workspace"
    /\ \A i \in {"extOrigin", "ext", "extBak"} : Part[i] = "extensions"
    /\ Part["requirements"] = "requirements"
BY DEF Item, Part

LEMMA DirOver ==
    ASSUME NEW f, NEW g, Dir(f), Dir(g)
    PROVE  Dir(Over(f, g))
<1>1. DOMAIN f \subseteq Item /\ DOMAIN g \subseteq Item
  BY DEF Dir
<1>2. \A i \in DOMAIN Over(f, g) : Fits(i, Over(f, g)[i])
  BY DEF Dir, Over
<1>3. QED
  BY <1>1, <1>2 DEF Dir, Over

LEMMA DirWith ==
    ASSUME NEW d, Dir(d), NEW i \in Item, NEW content, Fits(i, content)
    PROVE  Dir(With(d, i, content))
BY DEF Dir, With

LEMMA DirWithout ==
    ASSUME NEW d, Dir(d), NEW items
    PROVE  Dir(Without(d, items))
BY DEF Dir, Without, Restrict

LEMMA DirRestrict ==
    ASSUME NEW d, Dir(d), NEW items, items \subseteq DOMAIN d
    PROVE  Dir(Restrict(d, items))
BY DEF Dir, Restrict

LEMMA DirEmpty == Dir(Empty)
BY DEF Dir, Empty

LEMMA TreesFit ==
    ASSUME Types
    PROVE  /\ Template \in TreeType /\ Template.edit = 0 /\ Template.hidden = 0 /\ Template.whole
           /\ Torn(Template) \in TreeType /\ Torn(Template).edit = 0 /\ ~Torn(Template).whole
           /\ NoTree \in TreeType /\ NoTree.edit = 0 /\ NoTree.hidden = 0 /\ ~NoTree.whole
           /\ Template # NoTree
BY DEF Types, Template, Torn, Tree, NoTree, TreeType

LEMMA OriginsFit ==
    ASSUME Types
    PROVE  /\ GoodOrigin(NoEntry) /\ GoodOrigin(Torn(NoEntry))
           /\ GoodOrigin(Origin(checkout.home, Template)) /\ GoodOrigin(Origin("contrib", Template))
           /\ NoEntry.hash = NoTree /\ NoEntry.home = "none"
           /\ ~Torn(NoEntry).whole
           /\ Origin("contrib", Template).hash = Template
           /\ Origin(checkout.home, Template).hash = Template
<1>1. checkout.home \in {"templates", "contrib"}
  BY DEF Types
<1>2. GoodOrigin(NoEntry) /\ GoodOrigin(Torn(NoEntry)) /\ ~Torn(NoEntry).whole
  BY TreesFit DEF NoEntry, Origin, GoodOrigin, OriginType, Torn
<1>3. ASSUME NEW home \in {"templates", "contrib"}
      PROVE  GoodOrigin(Origin(home, Template))
  BY TreesFit DEF Origin, GoodOrigin, OriginType
<1>4. QED
  BY <1>1, <1>2, <1>3 DEF NoEntry, Origin

LEMMA ConfigsFit ==
    /\ NewConfig \in ConfigType /\ NewConfig.enabled = "no"
    /\ \A s \in SlotName : NewConfig.slots[s] = NoModel
BY DEF NewConfig, Config, ConfigType, SlotName

(* What the entry in an origin file is good for.                           *)
LEMMA EntryIs ==
    ASSUME Types, NEW file \in {"skillOrigin", "extOrigin"}
    PROVE  GoodOrigin(Entry(file))
<1>1. file \in Item
  BY PartIs
<1>2. Has(file) => GoodOrigin(root[file])
  BY <1>1 DEF Types, Dir, Fits, Has
<1>3. QED
  BY <1>2, OriginsFit DEF Entry

(* A hash looks at everything that an edit changes but what is hidden.     *)
LEMMA HashIs ==
    ASSUME NEW tree \in TreeType
    PROVE  /\ Hash(tree) \in TreeType /\ Hash(tree).edit = tree.edit /\ Hash(tree).hidden = 0
           /\ Hash(tree).version = tree.version /\ Hash(tree).whole = tree.whole
<1>1. Hash(tree) = [version |-> tree.version, edit |-> tree.edit, hidden |-> 0, whole |-> tree.whole]
  BY DEF Hash, TreeType
<1>2. QED
  BY <1>1 DEF TreeType

LEMMA PristineIs ==
    ASSUME Types, Has("skill"), Pristine
    PROVE  root["skill"].edit = 0
<1>1. root["skill"] \in TreeType
  BY PartIs DEF Types, Dir, Fits, Has
<1>2. Entry("skillOrigin").hash.edit = 0
  BY EntryIs DEF GoodOrigin
<1>3. QED
  BY <1>1, <1>2, HashIs DEF Pristine

-----------------------------------------------------------------------------
(* The command that runs                                                   *)

LEMMA StepsOf ==
    ASSUME Command
    PROVE  /\ ~Running <=> At("idle")
           /\ cmd.at \in SnapshotSteps => cmd.op \in {"backup", "restore", "update"}
           /\ cmd.at \in {"clear", "extract", "restored"} => cmd.op = "restore"
           /\ cmd.at \in {"move", "moving", "rotate", "heartbeatJob"} => cmd.op = "update"
           /\ cmd.at \in {"copyTree", "copyingTree", "sync"} => cmd.op \in {"update", "init"}
           /\ cmd.at \in SkillSteps => cmd.op \in {"update", "init", "install"}
           /\ At("config") => cmd.op = "init"
           /\ At("slots") => cmd.op = "provider"
           /\ cmd.at \in {"bak", "replace"} => cmd.op = "extension"
           /\ cmd.at \in RecordSteps => cmd.op \in {"extension", "wizard"}
           /\ cmd.at \in {"copyExtension", "copyingExtension", "requirement", "secret", "enable",
                          "defaultJobs"} => cmd.op = "wizard"
           /\ At("writingJobs") => cmd.op \in {"update", "wizard"}
BY DEF Command, Where, SnapshotSteps, SkillSteps, RecordSteps, Running, At

(* One step of a command: only its place changes.                          *)
Advances(step) ==
    /\ cmd'.at = step
    /\ cmd'.op = cmd.op /\ cmd'.force = cmd.force /\ cmd'.stateless = cmd.stateless
    /\ cmd'.left = cmd.left /\ cmd'.into = cmd.into /\ cmd'.key = cmd.key

LEMMA WhereIs ==
    ASSUME NEW op, NEW step, Where(op, step)
    PROVE  op \in Ops /\ step \in Stations
BY DEF Where, Ops, Stations, SnapshotSteps, SkillSteps, RecordSteps

LEMMA GotoIs ==
    ASSUME Command, NEW step, Where(cmd.op, step), Goto(step)
    PROVE  Command' /\ Advances(step)
BY WhereIs DEF Command, Goto, Advances

(* A command as it begins.                                                 *)
LEMMA Fresh ==
    ASSUME NEW op \in Ops, NEW step \in Stations, NEW force \in BOOLEAN, NEW stateless \in BOOLEAN,
           NEW key \in Key \cup {"none"}
    PROVE  [op |-> op, at |-> step, force |-> force, stateless |-> stateless, left |-> {},
            into |-> "root", key |-> key]
           \in [op : Ops, at : Stations, force : BOOLEAN, stateless : BOOLEAN,
                left : SUBSET Item, into : {"root", "nested"}, key : Key \cup {"none"}]
<1>1. {} \in SUBSET Item /\ "root" \in {"root", "nested"}
  OBVIOUS
<1>2. QED
  BY <1>1

LEMMA FinishIs ==
    ASSUME cmd' = Idle
    PROVE  Command' /\ cmd'.op = "none" /\ cmd'.at = "idle"
<1>1. "none" \in Key \cup {"none"} /\ FALSE \in BOOLEAN
  OBVIOUS
<1>2. Where("none", "idle")
  BY DEF Where
<1>3. QED
  BY <1>1, <1>2, WhereIs, Fresh DEF Command, Idle

LEMMA BeginIs ==
    ASSUME NEW op, NEW step, Begin(op, step), Where(op, step)
    PROVE  /\ Command' /\ cmd'.op = op /\ cmd'.at = step /\ late' = {}
           /\ ~cmd'.force /\ ~cmd'.stateless
<1>1. /\ cmd' = [op |-> op, at |-> step, force |-> FALSE, stateless |-> FALSE, left |-> {},
                 into |-> "root", key |-> "none"]
      /\ late' = {}
  BY DEF Begin, Idle
<1>2. "none" \in Key \cup {"none"} /\ FALSE \in BOOLEAN
  OBVIOUS
<1>3. cmd' \in [op : Ops, at : Stations, force : BOOLEAN, stateless : BOOLEAN,
                left : SUBSET Item, into : {"root", "nested"}, key : Key \cup {"none"}]
  BY <1>1, <1>2, WhereIs, Fresh
<1>4. cmd'.op = op /\ cmd'.at = step /\ ~cmd'.force /\ ~cmd'.stateless
  BY <1>1
<1>5. QED
  BY <1>1, <1>3, <1>4 DEF Command

(* Types that a step keeps when it leaves everything but these alone.      *)
Counts == [commands : Nat, kills : Nat, writes : Nat, upgrades : Nat]

LEMMA CountedIs ==
    ASSUME Types, NEW what \in {"commands", "kills", "writes", "upgrades"}, NEW limit, Counted(what, limit)
    PROVE  bounds' \in Counts
BY DEF Types, Counted, Counts

LEMMA TakenIs ==
    ASSUME NEW items, NEW r \in Taken(items)
    PROVE  /\ r[1] \in items /\ Has(r[1]) /\ r[2] = root[r[1]] /\ r[3] = made /\ r[4] = "saved"
           /\ <<r[1], root[r[1]]>> \notin late
<1>1. PICK j \in {k \in items \cap DOMAIN root : <<k, root[k]>> \notin late} :
          r = <<j, root[j], made, "saved">>
  BY DEF Taken
<1>2. r[1] = j /\ r[2] = root[j] /\ r[3] = made /\ r[4] = "saved"
  BY <1>1
<1>3. j \in items /\ Has(j) /\ <<j, root[j]>> \notin late
  BY DEF Has
<1>4. QED
  BY <1>2, <1>3

LEMMA StillTypes ==
    ASSUME Listed, Types, Dir(root)', dirs' \subseteq {"workspace", "state", "extensions"},
           late' \subseteq late, bounds' \in Counts,
           UNCHANGED <<backups, made, legacy, nested, checkout, copied, archive, halfway>>,
           replaced' \subseteq replaced \cup Taken(Item)
    PROVE  Listed' /\ Types'
<1>1. Listed'
  BY DEF Listed
<1>2. /\ Dir(legacy)' /\ Dir(nested)' /\ Dir(copied)' /\ Dir(archive.data)'
      /\ \A n \in DOMAIN backups' : Dir(backups'[n].data)
      /\ made' \in Nat /\ Len(backups') <= made'
  BY DEF Types
<1>3. ASSUME NEW r \in replaced'
      PROVE  r[3] \in Nat /\ r[3] <= made' /\ r[4] \in {"saved", "moved"}
  <2>1. CASE r \in replaced
    BY <2>1 DEF Types
  <2>2. CASE r \in Taken(Item)
    <3>1. r[3] = made /\ r[4] = "saved"
      BY <2>2, TakenIs
    <3>2. QED
      BY <1>2, <3>1 DEF Types
  <2>3. QED
    BY <2>1, <2>2
<1>4. /\ checkout' \in [version : Nat, home : {"templates", "contrib"},
                       extension : Kinds, installed : BOOLEAN]
      /\ halfway' \in {"no", "restore", "apart"}
      /\ \A w \in late' : w[1] \in {"db", "notes", "skill", "ext"}
  BY DEF Types
<1>5. Types'
  BY <1>2, <1>3, <1>4 DEF Types, Counts
<1>6. QED
  BY <1>1, <1>5

(* Where an item may be put.                                               *)
Ground == dirs \cup {p \in {"requirements"} : "state" \in dirs}

LEMMA DirPut ==
    ASSUME Types, NEW i \in Item, NEW content, Fits(i, content), Put(i, content)
    PROVE  Dir(root)'
BY DirWith DEF Types, Put

LEMMA PutKeeps ==
    ASSUME NEW i, NEW content, Put(i, content)
    PROVE  /\ \A j : Has(j) => Has(j)'
           /\ i # "keys" => KeysIn' = KeysIn
BY PutIs DEF Has, KeysIn

(* One file is written, in a directory that is there or made for it.       *)
LEMMA PutBase ==
    ASSUME Base, NEW i \in Item, NEW content, Fits(i, content), Put(i, content),
           UNCHANGED <<backups, made, legacy, nested, checkout, copied, archive, halfway, bounds>>,
           late' \subseteq late, replaced' \subseteq replaced \cup Taken(Item),
           \/ dirs' = dirs /\ Part[i] \in Ground
           \/ dirs' = dirs \cup {Part[i]} /\ Part[i] # "requirements" /\ "state" \in dirs
    PROVE  Listed' /\ Types' /\ Placed' /\ dirs \subseteq dirs'
<1>1. Part[i] \in {"workspace", "state", "extensions", "requirements"}
  BY PartIs
<1>2. dirs' \subseteq {"workspace", "state", "extensions"} /\ bounds' \in Counts
  BY <1>1 DEF Base, Types, Counts
<1>3. Listed' /\ Types'
  BY <1>2, DirPut, StillTypes DEF Base
<1>4. Placed'
  <2>1. \A j : Has(j)' <=> Has(j) \/ j = i
    BY PutIs DEF Has
  <2>2. Part[i] = "requirements" <=> i = "requirements"
    BY PartIs
  <2>3. i = "requirements" => "state" \in dirs
    BY <2>2 DEF Ground, Base, Types
  <2>4. Part[i] # "requirements" => Part[i] \in dirs'
    BY DEF Ground
  <2>5. dirs \subseteq dirs' /\ (dirs' # dirs => "state" \in dirs)
    OBVIOUS
  <2>6. "extensions" \in dirs \/ Has("requirements") => "state" \in dirs
    BY DEF Base, Placed
  <2>7. \A j \in DOMAIN root' : Part[j] # "requirements" => Part[j] \in dirs'
    BY <2>1, <2>4, <2>5 DEF Base, Placed, Has
  <2>8. "extensions" \in dirs' \/ Has("requirements")' => "state" \in dirs'
    BY <2>1, <2>3, <2>5, <2>6
  <2>9. QED
    BY <2>7, <2>8 DEF Placed
<1>5. QED
  BY <1>3, <1>4

(* Nothing is written.                                                     *)
LEMMA SameBase ==
    ASSUME Base, UNCHANGED <<root, backups, made, legacy, nested, checkout, copied, archive, halfway>>,
           bounds' \in Counts, late' \subseteq late, replaced' \subseteq replaced \cup Taken(Item),
           dirs \subseteq dirs', dirs' \subseteq {"workspace", "state", "extensions"},
           "state" \in dirs \/ dirs' = dirs
    PROVE  Listed' /\ Types' /\ Placed'
<1>1. Dir(root)' /\ Placed'
  BY DEF Base, Types, Placed, Has
<1>2. QED
  BY <1>1, StillTypes DEF Base

(* What the command has found is still there.                              *)
LEMMA FoundKept ==
    ASSUME Found, dirs \subseteq dirs', Has("config") => Has("config")', KeysIn \subseteq KeysIn',
           \/ cmd'.op = "none" /\ cmd'.at = "idle"
           \/ /\ cmd'.op = cmd.op /\ cmd'.key = cmd.key
              /\ cmd'.at \in SkillSteps => "workspace" \in dirs'
              /\ cmd'.at = "writingJobs" => Has("jobs")'
    PROVE  Found'
BY DEF Found, SkillSteps, At, Environment

LEMMA CountsKept == ASSUME Types, UNCHANGED bounds PROVE bounds' \in Counts
BY DEF Types, Counts

(* How a step leaves its command: at an end, or further on.                *)
Ended == cmd'.op = "none" /\ cmd'.at = "idle"
Onto(steps) == cmd'.at \in steps /\ Advances(cmd'.at)

LEMMA OntoIs ==
    ASSUME Command, NEW step, Where(cmd.op, step), Goto(step)
    PROVE  Command' /\ Onto({step})
BY GotoIs DEF Onto, Advances

LEMMA FoundOnto ==
    ASSUME Found, dirs \subseteq dirs', Has("config") => Has("config")', KeysIn \subseteq KeysIn',
           NEW steps, Onto(steps) \/ Ended,
           "workspace" \in dirs \/ steps \cap SkillSteps = {},
           "writingJobs" \in steps => Has("jobs")'
    PROVE  Found'
BY FoundKept DEF Onto, Advances, Ended

-----------------------------------------------------------------------------
(* What every step keeps: types, places and what a command has found       *)

LEMMA AfterSkillIs ==
    ASSUME Command, cmd.op \in {"update", "init", "install"}, cmd' = AfterSkill
    PROVE  /\ Command' /\ (Ended \/ Onto({"heartbeatJob", "config"}))
           /\ cmd'.at = "heartbeatJob" => cmd.op = "update"
           /\ cmd'.at = "config" => cmd.op = "init"
<1>1. CASE cmd.op = "update"
  <2>1. Goto("heartbeatJob")
    BY <1>1 DEF AfterSkill, Goto
  <2>2. Where(cmd.op, "heartbeatJob")
    BY <1>1 DEF Where
  <2>3. Command' /\ Onto({"heartbeatJob"})
    BY <2>1, <2>2, OntoIs
  <2>4. QED
    BY <1>1, <2>3 DEF Onto
<1>2. CASE cmd.op = "init"
  <2>1. Goto("config")
    BY <1>2 DEF AfterSkill, Goto
  <2>2. Where(cmd.op, "config")
    BY <1>2 DEF Where
  <2>3. Command' /\ Onto({"config"})
    BY <2>1, <2>2, OntoIs
  <2>4. QED
    BY <1>2, <2>3 DEF Onto
<1>3. CASE cmd.op = "install"
  BY <1>3, FinishIs DEF AfterSkill, Ended
<1>4. QED
  BY <1>1, <1>2, <1>3

SkillAfter == {"stage", "copyTree", "copyingTree", "staging", "swap", "place", "drop", "recordSkill",
               "recordingSkill", "heartbeatJob", "config"}

LEMMA SyncSkillBase ==
    ASSUME Base, SyncSkill
    PROVE  Base' /\ (Ended \/ Onto(SkillAfter))
<1>1. cmd.op \in {"update", "init"} /\ Command /\ Found
  BY StepsOf DEF SyncSkill, Base, At
<1>2. /\ Command' /\ (Ended \/ Onto(SkillAfter))
      /\ "workspace" \in dirs \/ Ended
  <2>1. CASE "workspace" \notin dirs
    BY <2>1, FinishIs DEF SyncSkill, Ended
  <2>2. CASE "workspace" \in dirs /\ cmd' = AfterSkill
    BY <1>1, <2>2, AfterSkillIs DEF Onto, SkillAfter
  <2>3. CASE "workspace" \in dirs /\ \E step \in {"copyTree", "stage", "recordSkill"} : Goto(step)
    BY <1>1, <2>3, OntoIs DEF Where, Onto, SkillAfter, SkillSteps
  <2>4. QED
    BY <2>1, <2>2, <2>3 DEF SyncSkill, Goto
<1>3. Listed' /\ Types' /\ Placed' /\ dirs \subseteq dirs'
  <2>1. late' \subseteq late /\ replaced' = replaced /\ bounds' = bounds /\ dirs' = dirs
    BY DEF SyncSkill, Seen, others
  <2>2. UNCHANGED <<backups, made, legacy, nested, checkout, copied, archive, halfway>>
    BY DEF SyncSkill, others
  <2>3. CASE root' = root
    BY <2>1, <2>2, <2>3, SameBase, CountsKept DEF Base, Types
  <2>4. CASE Put("notes", 0) /\ "workspace" \in dirs
    <3>1. "notes" \in Item /\ Fits("notes", 0) /\ Part["notes"] = "workspace"
      BY PartIs DEF Fits
    <3>2. QED
      BY <2>1, <2>2, <2>4, <3>1, PutBase DEF Ground
  <2>5. QED
    BY <2>3, <2>4 DEF SyncSkill, Put
<1>4. (Has("config") => Has("config")') /\ KeysIn' = KeysIn
  <2>1. root' = root \/ Put("notes", 0)
    BY DEF SyncSkill, Put
  <2>2. QED
    BY <2>1, PutKeeps DEF Has, KeysIn
<1>5. Found'
  <2>1. CASE Ended
    BY <1>1, <1>3, <1>4, <2>1, FoundKept DEF Ended
  <2>2. CASE Onto(SkillAfter) /\ "workspace" \in dirs
    <3>1. "writingJobs" \notin SkillAfter
      BY DEF SkillAfter
    <3>2. QED
      BY <1>1, <1>3, <1>4, <2>2, <3>1, FoundOnto
  <2>3. QED
    BY <1>2, <2>1, <2>2
<1>6. QED
  BY <1>2, <1>3, <1>5 DEF Base

(* One step of a command that writes one file.                             *)
LEMMA PutStep ==
    ASSUME Base, NEW i \in Item, NEW content, Fits(i, content), Put(i, content), i # "keys",
           UNCHANGED <<others, history, bounds>>, Part[i] \in Ground,
           NEW steps, Command', Onto(steps) \/ Ended,
           "workspace" \in dirs \/ steps \cap SkillSteps = {},
           "writingJobs" \in steps => Has("jobs")'
    PROVE  Base'
<1>1. Listed' /\ Types' /\ Placed' /\ dirs \subseteq dirs'
  BY PutBase DEF others, history
<1>2. (Has("config") => Has("config")') /\ KeysIn' = KeysIn
  BY PutKeeps
<1>3. Found'
  BY <1>1, <1>2, FoundOnto DEF Base
<1>4. QED
  BY <1>1, <1>3 DEF Base

LEMMA CopyTreeBase ==
    ASSUME Base, CopyTree
    PROVE  Base' /\ Onto({"copyingTree", "recordSkill"})
<1>1. cmd.at \in {"copyTree", "copyingTree"} /\ cmd.op \in {"update", "init"} /\ "workspace" \in dirs
  BY StepsOf DEF CopyTree, InPlace, Base, At, Found, SkillSteps
<1>2. Goto("copyingTree") \/ Goto("recordSkill")
  BY DEF CopyTree, InPlace
<1>3. Command' /\ Onto({"copyingTree", "recordSkill"})
  BY <1>1, <1>2, OntoIs DEF Base, Where, Onto, SkillSteps
<1>4. "skill" \in Item /\ Part["skill"] = "workspace" /\ Fits("skill", Template) /\ Fits("skill", Torn(Template))
  BY PartIs, TreesFit DEF Fits, Base
<1>5. Put("skill", Template) \/ Put("skill", Torn(Template))
  BY DEF CopyTree, InPlace
<1>6. Base'
  BY <1>1, <1>3, <1>4, <1>5, PutStep DEF CopyTree, Ground
<1>7. QED
  BY <1>3, <1>6

LEMMA StageBase ==
    ASSUME Base, Stage
    PROVE  Base' /\ Onto({"staging", "swap"})
<1>1. cmd.at \in {"stage", "staging"} /\ cmd.op \in {"update", "init", "install"} /\ "workspace" \in dirs
  BY StepsOf DEF Stage, InPlace, Base, At, Found, SkillSteps
<1>2. Goto("staging") \/ Goto("swap")
  BY DEF Stage, InPlace
<1>3. Command' /\ Onto({"staging", "swap"})
  BY <1>1, <1>2, OntoIs DEF Base, Where, Onto, SkillSteps
<1>4. /\ "skillNew" \in Item /\ Part["skillNew"] = "workspace"
      /\ Fits("skillNew", Template) /\ Fits("skillNew", Torn(Template))
  BY PartIs, TreesFit DEF Fits, Base
<1>5. Put("skillNew", Template) \/ Put("skillNew", Torn(Template))
  BY DEF Stage, InPlace
<1>6. Base'
  BY <1>1, <1>3, <1>4, <1>5, PutStep DEF Stage, Ground
<1>7. QED
  BY <1>3, <1>6

(* One step of a command that rewrites the data root within what is there. *)
LEMMA RootStep ==
    ASSUME Base, Dir(root)', \A i \in DOMAIN root' : Has(i) \/ Part[i] \in Ground,
           Has("config") => Has("config")', KeysIn \subseteq KeysIn',
           UNCHANGED <<others, late, halfway, bounds>>, replaced' \subseteq replaced \cup Taken(Item),
           NEW steps, Command', Onto(steps) \/ Ended,
           "workspace" \in dirs \/ steps \cap SkillSteps = {},
           "writingJobs" \in steps => Has("jobs")'
    PROVE  Base'
<1>1. dirs' = dirs /\ dirs \subseteq {"workspace", "state", "extensions"}
  BY DEF others, Base, Types
<1>2. Listed' /\ Types'
  BY <1>1, StillTypes, CountsKept DEF Base, others
<1>3. Placed'
  BY <1>1, PartIs DEF Base, Placed, Has, Ground
<1>4. Found'
  BY <1>1, FoundOnto DEF Base
<1>5. QED
  BY <1>2, <1>3, <1>4 DEF Base

LEMMA TakenWithin ==
    ASSUME NEW items, items \subseteq Item
    PROVE  Taken(items) \subseteq Taken(Item)
<1>1. {j \in items \cap DOMAIN root : <<j, root[j]>> \notin late}
          \subseteq {j \in Item \cap DOMAIN root : <<j, root[j]>> \notin late}
  OBVIOUS
<1>2. QED
  BY <1>1 DEF Taken

LEMMA AsideBase ==
    ASSUME Base, Aside
    PROVE  Base' /\ Onto({"place"})
<1>1. At("swap") /\ cmd.op \in {"update", "init", "install"} /\ "workspace" \in dirs
  BY StepsOf DEF Aside, Base, At, Found, SkillSteps
<1>2. Where(cmd.op, "place")
  BY <1>1 DEF Where, SkillSteps
<1>3. Command' /\ Onto({"place"})
  BY <1>2, OntoIs DEF Aside, Base
<1>4. root' = With(Without(root, {"skill"}), "skillOld", root["skill"]) /\ Has("skill")
  BY DEF Aside
<1>5. "skillOld" \in Item /\ Fits("skillOld", root["skill"]) /\ Part["skillOld"] = "workspace"
  BY <1>4, PartIs DEF Fits, Base, Types, Dir, Has
<1>6. Dir(root)'
  <2>1. Dir(Without(root, {"skill"}))
    BY DirWithout DEF Base, Types
  <2>2. QED
    BY <1>4, <1>5, <2>1, DirWith
<1>7. DOMAIN root' = (DOMAIN root \ {"skill"}) \cup {"skillOld"} /\ \A i \in DOMAIN root \ {"skill", "skillOld"} : root'[i] = root[i]
  BY <1>4 DEF With, Without, Restrict
<1>8. (Has("config") => Has("config")') /\ KeysIn' = KeysIn
  BY <1>7 DEF Has, KeysIn
<1>9. replaced' \subseteq replaced \cup Taken(Item)
  BY TakenWithin, PartIs DEF Aside
<1>10. Base'
  BY <1>1, <1>3, <1>5, <1>6, <1>7, <1>8, <1>9, RootStep DEF Aside, Has, Ground
<1>11. QED
  BY <1>3, <1>10

LEMMA PlaceBase ==
    ASSUME Base, Place, Has("skillNew")
    PROVE  Base' /\ Onto({"drop", "recordSkill"})
<1>1. cmd.at \in {"swap", "place"} /\ cmd.op \in {"update", "init", "install"} /\ "workspace" \in dirs
  BY StepsOf DEF Place, Base, At, Found, SkillSteps
<1>2. Where(cmd.op, "drop") /\ Where(cmd.op, "recordSkill")
  BY <1>1 DEF Where, SkillSteps
<1>3. Goto("drop") \/ Goto("recordSkill")
  BY DEF Place
<1>4. Command' /\ Onto({"drop", "recordSkill"})
  BY <1>2, <1>3, OntoIs DEF Onto, Base
<1>5. root' = With(Without(root, {"skillNew"}), "skill", root["skillNew"])
  BY DEF Place
<1>6. "skill" \in Item /\ Fits("skill", root["skillNew"]) /\ Part["skill"] = "workspace"
  BY <1>5, PartIs DEF Fits, Base, Types, Dir, Has
<1>7. Dir(root)'
  <2>1. Dir(Without(root, {"skillNew"}))
    BY DirWithout DEF Base, Types
  <2>2. QED
    BY <1>5, <1>6, <2>1, DirWith
<1>8. DOMAIN root' = (DOMAIN root \ {"skillNew"}) \cup {"skill"} /\ \A i \in DOMAIN root \ {"skill", "skillNew"} : root'[i] = root[i]
  BY <1>5 DEF With, Without, Restrict
<1>9. (Has("config") => Has("config")') /\ KeysIn' = KeysIn
  BY <1>8 DEF Has, KeysIn
<1>10. Base'
  BY <1>1, <1>4, <1>6, <1>7, <1>8, <1>9, RootStep DEF Place, Has, history, Ground
<1>11. QED
  BY <1>4, <1>10

LEMMA DropOldBase ==
    ASSUME Base, DropOld
    PROVE  Base' /\ Onto({"recordSkill"})
<1>1. At("drop") /\ cmd.op \in {"update", "init", "install"} /\ "workspace" \in dirs
  BY StepsOf DEF DropOld, Base, At, Found, SkillSteps
<1>2. Where(cmd.op, "recordSkill")
  BY <1>1 DEF Where, SkillSteps
<1>3. Command' /\ Onto({"recordSkill"})
  BY <1>2, OntoIs DEF DropOld, Base
<1>4. root' = Without(root, {"skillOld"})
  BY DEF DropOld
<1>5. Dir(root)'
  BY <1>4, DirWithout DEF Base, Types
<1>6. DOMAIN root' = DOMAIN root \ {"skillOld"} /\ \A i \in DOMAIN root \ {"skillOld"} : root'[i] = root[i]
  BY <1>4, WithoutIs
<1>7. (Has("config") => Has("config")') /\ KeysIn' = KeysIn
  BY <1>6 DEF Has, KeysIn
<1>8. Base'
  BY <1>1, <1>3, <1>5, <1>6, <1>7, RootStep DEF DropOld, Has, history
<1>9. QED
  BY <1>3, <1>8

LEMMA RecordSkillBase ==
    ASSUME Base, RecordSkill
    PROVE  /\ Base' /\ (Ended \/ Onto({"recordingSkill", "heartbeatJob", "config"}))
           /\ cmd'.at = "heartbeatJob" => cmd.op = "update"
<1>1. /\ cmd.at \in {"recordSkill", "recordingSkill"} /\ cmd.op \in {"update", "init", "install"}
      /\ "workspace" \in dirs
  BY StepsOf DEF RecordSkill, Base, At, Found, SkillSteps
<1>2. Where(cmd.op, "recordingSkill")
  BY <1>1 DEF Where, SkillSteps
<1>3. /\ Command' /\ (Ended \/ Onto({"recordingSkill", "heartbeatJob", "config"}))
      /\ cmd'.at = "heartbeatJob" => cmd.op = "update"
  <2>1. CASE Goto("recordingSkill")
    <3>1. Command' /\ Onto({"recordingSkill"})
      BY <1>2, <2>1, OntoIs DEF Base
    <3>2. QED
      BY <3>1 DEF Onto
  <2>2. CASE cmd' = AfterSkill
    BY <1>1, <2>2, AfterSkillIs DEF Onto, Base
  <2>3. QED
    BY <2>1, <2>2 DEF RecordSkill
<1>4. /\ "skillOrigin" \in Item /\ Part["skillOrigin"] = "workspace"
      /\ Fits("skillOrigin", Torn(NoEntry)) /\ Fits("skillOrigin", Origin(checkout.home, Template))
  BY PartIs, OriginsFit DEF Fits, Base
<1>5. Put("skillOrigin", Torn(NoEntry)) \/ Put("skillOrigin", Origin(checkout.home, Template))
  BY DEF RecordSkill
<1>6. "writingJobs" \notin {"recordingSkill", "heartbeatJob", "config"} /\ "skillOrigin" # "keys"
  OBVIOUS
<1>7. UNCHANGED <<others, history, bounds>> /\ Part["skillOrigin"] \in Ground
  BY <1>1, <1>4 DEF RecordSkill, Ground
<1>8. Base'
  BY <1>1, <1>3, <1>4, <1>5, <1>6, <1>7, PutStep
<1>9. QED
  BY <1>3, <1>8

(* A command that begins and writes nothing yet.                           *)
LEMMA BeginsBase ==
    ASSUME Base, Command', late' = {}, bounds' \in Counts,
           UNCHANGED <<root, backups, made, legacy, nested, checkout, copied, archive, replaced, halfway>>,
           dirs \subseteq dirs', dirs' \subseteq {"workspace", "state", "extensions"},
           "state" \in dirs' \/ dirs' = dirs, Found'
    PROVE  Base'
<1>1. Dir(root)' /\ Placed'
  BY DEF Base, Types, Placed, Has
<1>2. Listed' /\ Types'
  BY <1>1, StillTypes DEF Base
<1>3. QED
  BY <1>1, <1>2 DEF Base

LEMMA InstallSkillBase ==
    ASSUME Base, NEW force \in BOOLEAN, InstallSkill(force)
    PROVE  Base' /\ cmd'.op = "install" /\ cmd'.at = "stage" /\ cmd'.force = force
<1>1. cmd' = [op |-> "install", at |-> "stage", force |-> force, stateless |-> FALSE, left |-> {},
              into |-> "root", key |-> "none"]
  BY DEF InstallSkill, Idle
<1>2. "none" \in Key \cup {"none"} /\ FALSE \in BOOLEAN
  OBVIOUS
<1>3. Where("install", "stage")
  BY DEF Where, SkillSteps
<1>4. Command' /\ cmd'.op = "install" /\ cmd'.at = "stage" /\ cmd'.force = force
  BY <1>1, <1>2, <1>3, WhereIs, Fresh DEF Command
<1>5. Found'
  BY <1>4 DEF Found, InstallSkill, others, At
<1>6. late' = {} /\ bounds' \in Counts
  BY CountedIs DEF InstallSkill, Base
<1>7. Base'
  BY <1>4, <1>5, <1>6, BeginsBase DEF InstallSkill, others, Base, Types
<1>8. QED
  BY <1>4, <1>7

LEMMA MigrateHeartbeatBase ==
    ASSUME Base, MigrateHeartbeat
    PROVE  Base' /\ (Ended \/ Onto({"writingJobs"})) /\ cmd.op = "update"
<1>1. cmd.at \in {"heartbeatJob", "writingJobs"} /\ cmd.op = "update"
  BY StepsOf DEF MigrateHeartbeat, Base, At
<1>2. Where(cmd.op, "writingJobs")
  BY <1>1 DEF Where
<1>3. /\ "jobs" \in Item /\ Part["jobs"] = "workspace" /\ \A content : Fits("jobs", content)
      /\ "jobs" # "keys"
  BY PartIs DEF Fits
<1>4. UNCHANGED <<others, late, halfway, bounds>>
  BY DEF MigrateHeartbeat
<1>5. CASE Finish /\ UNCHANGED <<root, replaced>>
  <2>1. Command' /\ Ended
    BY <1>5, FinishIs DEF Ended, Finish
  <2>2. Listed' /\ Types' /\ Placed'
    BY <1>4, <1>5, SameBase, CountsKept DEF Base, Types, others
  <2>3. Found'
    BY <1>4, <1>5, <2>1, FoundKept DEF Base, others, Has, KeysIn, Ended
  <2>4. QED
    BY <1>1, <2>1, <2>2, <2>3 DEF Base
<1>6. CASE Put("jobs", Jobs("new")) /\ At("writingJobs") /\ Finish /\ UNCHANGED replaced
  <2>1. Command' /\ Ended /\ (Onto({"idle"}) \/ Ended)
    BY <1>6, FinishIs DEF Ended, Finish
  <2>2. Has("jobs")
    BY <1>6 DEF Base, Found
  <2>3. "workspace" \in dirs
    BY <1>3, <2>2 DEF Base, Placed, Has
  <2>4. Put("jobs", Jobs("new")) /\ Fits("jobs", Jobs("new"))
    BY <1>3, <1>6
  <2>5. UNCHANGED <<others, history, bounds>>
    BY <1>4, <1>6 DEF history
  <2>6. "workspace" \in Ground /\ "writingJobs" \notin {"idle"}
    BY <2>3 DEF Ground
  <2>7. Base'
    BY <1>3, <2>1, <2>3, <2>4, <2>5, <2>6, PutStep
  <2>8. QED
    BY <1>1, <2>1, <2>7
<1>7. CASE Goto("writingJobs") /\ Put("jobs", Torn(Jobs("new"))) /\ Has("jobs")
           /\ replaced' = replaced \cup Taken({"jobs"})
  <2>1. Command' /\ Onto({"writingJobs"})
    BY <1>2, <1>7, OntoIs DEF Base
  <2>2. "workspace" \in dirs
    BY <1>3, <1>7 DEF Base, Placed, Has
  <2>3. replaced' \subseteq replaced \cup Taken(Item)
    BY <1>3, <1>7, TakenWithin
  <2>4. Dir(root)' /\ DOMAIN root' = DOMAIN root \cup {"jobs"}
    BY <1>3, <1>7, DirPut, PutIs DEF Base
  <2>5. Put("jobs", Torn(Jobs("new")))
    BY <1>7
  <2>6. (Has("config") => Has("config")') /\ Has("jobs")'
    BY <2>4 DEF Has
  <2>7. KeysIn' = KeysIn
    BY <1>3, <2>5, PutKeeps
  <2>8. \A i \in DOMAIN root' : Has(i) \/ Part[i] \in Ground
    BY <1>3, <2>2, <2>4 DEF Has, Ground
  <2>9. Base'
    BY <1>4, <2>1, <2>2, <2>3, <2>4, <2>6, <2>7, <2>8, RootStep
  <2>10. QED
    BY <1>1, <2>1, <2>9
<1>8. QED
  BY <1>5, <1>6, <1>7 DEF MigrateHeartbeat

LEMMA RunInitBase ==
    ASSUME Base, RunInit
    PROVE  Base' /\ cmd'.op = "init" /\ cmd'.at = "sync" /\ "state" \in dirs'
<1>1. Where("init", "sync") /\ "sync" \notin SkillSteps
  BY DEF Where, SkillSteps
<1>2. Command' /\ cmd'.op = "init" /\ cmd'.at = "sync" /\ late' = {}
  BY <1>1, BeginIs DEF RunInit
<1>3. bounds' \in Counts /\ dirs' = {"workspace", "state", "extensions"}
  BY CountedIs DEF RunInit, Begin, Base
<1>4. Found'
  BY <1>1, <1>2, <1>3 DEF Found, At
<1>5. dirs \subseteq dirs'
  BY <1>3 DEF Base, Types
<1>6. Base'
  BY <1>2, <1>3, <1>4, <1>5, BeginsBase DEF RunInit
<1>7. QED
  BY <1>2, <1>3, <1>6

LEMMA CreateMissingBase ==
    ASSUME Base, CreateMissing
    PROVE  Base' /\ (Ended \/ Onto({"config"})) /\ cmd.op = "init" /\ At("config")
<1> DEFINE missing == [config |-> NewConfig, keys |-> {}, jobs |-> Jobs("empty"),
                       requirements |-> {}, extOrigin |-> NoEntry]
<1>1. At("config") /\ cmd.op = "init" /\ {"workspace", "state", "extensions"} \subseteq dirs
  BY StepsOf DEF CreateMissing, Base, At, Found
<1>2. /\ DOMAIN missing = {"config", "keys", "jobs", "requirements", "extOrigin"}
      /\ missing["config"] = NewConfig /\ missing["extOrigin"] = NoEntry
  OBVIOUS
<1>3. UNCHANGED <<others, history, bounds>>
  BY DEF CreateMissing
<1>4. ASSUME NEW i \in DOMAIN missing, ~Has(i), Put(i, missing[i]), UNCHANGED cmd
      PROVE  Base' /\ Onto({"config"})
  <2>1. i \in Item /\ Part[i] \in Ground
    BY <1>1, <1>2, PartIs DEF Ground
  <2>2. Fits(i, missing[i])
    BY <1>2, ConfigsFit, OriginsFit DEF Fits, Base
  <2>3. Command' /\ Onto({"config"})
    BY <1>1, <1>4 DEF Base, Command, Onto, Advances, At
  <2>4. (Has("config") => Has("config")') /\ KeysIn \subseteq KeysIn'
    BY <1>2, <1>4, PutIs DEF Has, KeysIn
  <2>5. Dir(root)'
    BY <1>4, <2>1, <2>2, DirPut DEF Base
  <2>6. DOMAIN root' = DOMAIN root \cup {i}
    BY <1>4, PutIs
  <2>7. Base'
    BY <1>1, <1>3, <2>1, <2>3, <2>4, <2>5, <2>6, RootStep DEF Has, history
  <2>8. QED
    BY <2>3, <2>7
<1>5. CASE Finish /\ UNCHANGED root
  <2>1. Command' /\ Ended
    BY <1>5, FinishIs DEF Ended, Finish
  <2>2. Listed' /\ Types' /\ Placed'
    BY <1>3, <1>5, SameBase, CountsKept DEF Base, Types, others, history
  <2>3. Found'
    BY <1>3, <1>5, <2>1, FoundKept DEF Base, others, Has, KeysIn, Ended
  <2>4. QED
    BY <1>1, <2>1, <2>2, <2>3 DEF Base
<1>6. QED
  BY <1>1, <1>4, <1>5 DEF CreateMissing

(* The order of the wizards.                                               *)
LEMMA SequenceAfter ==
    ASSUME NEW s, NEW n \in DOMAIN s, NEW step, s[n] = step, \A m \in DOMAIN s : s[m] = step => m = n
    PROVE  s[1 + CHOOSE m \in DOMAIN s : s[m] = step] = s[1 + n]
<1>1. (CHOOSE m \in DOMAIN s : s[m] = step) = n
  OBVIOUS
<1>2. QED
  BY <1>1

LEMMA AfterIs ==
    /\ checkout.extension \in {"telegram", "discord"} =>
          /\ Setup[1] = "copyExtension"
          /\ After("copyExtension") = "requirement" /\ After("requirement") = "recordExtension"
          /\ After("recordExtension") = "secret" /\ After("secret") = "enable"
          /\ After("enable") = "defaultJobs"
    /\ checkout.extension = "search" =>
          /\ Setup[1] = "copyExtension"
          /\ After("copyExtension") = "recordExtension" /\ After("recordExtension") = "secret"
          /\ After("secret") = "enable" /\ After("enable") = "done"
    /\ checkout.extension = "voice" =>
          /\ Setup[1] = "secret" /\ After("secret") = "copyExtension"
          /\ After("copyExtension") = "recordExtension" /\ After("recordExtension") = "enable"
          /\ After("enable") = "done"
<1>1. ASSUME checkout.extension \in {"telegram", "discord"}
      PROVE  /\ Setup[1] = "copyExtension"
             /\ After("copyExtension") = "requirement" /\ After("requirement") = "recordExtension"
             /\ After("recordExtension") = "secret" /\ After("secret") = "enable"
             /\ After("enable") = "defaultJobs"
  <2>1. Setup = <<"copyExtension", "requirement", "recordExtension", "secret", "enable", "defaultJobs">>
    BY <1>1 DEF Setup, SetupTelegram, SetupDiscord
  <2>2. DOMAIN Setup = 1..6
    BY <2>1
  <2>3. /\ Setup[1] = "copyExtension" /\ Setup[2] = "requirement" /\ Setup[3] = "recordExtension"
        /\ Setup[4] = "secret" /\ Setup[5] = "enable" /\ Setup[6] = "defaultJobs"
    BY <2>1
  <2>4. \A m \in 1..6 : m = 1 \/ m = 2 \/ m = 3 \/ m = 4 \/ m = 5 \/ m = 6
    OBVIOUS
  <2>5. /\ 1 \in DOMAIN Setup /\ \A m \in DOMAIN Setup : Setup[m] = "copyExtension" => m = 1
        /\ 2 \in DOMAIN Setup /\ \A m \in DOMAIN Setup : Setup[m] = "requirement" => m = 2
        /\ 3 \in DOMAIN Setup /\ \A m \in DOMAIN Setup : Setup[m] = "recordExtension" => m = 3
        /\ 4 \in DOMAIN Setup /\ \A m \in DOMAIN Setup : Setup[m] = "secret" => m = 4
        /\ 5 \in DOMAIN Setup /\ \A m \in DOMAIN Setup : Setup[m] = "enable" => m = 5
    BY <2>2, <2>3, <2>4
  <2>6. /\ After("copyExtension") = Setup[1 + 1] /\ After("requirement") = Setup[1 + 2]
        /\ After("recordExtension") = Setup[1 + 3] /\ After("secret") = Setup[1 + 4]
        /\ After("enable") = Setup[1 + 5]
    BY <2>3, <2>5, SequenceAfter DEF After
  <2>7. QED
    BY <2>3, <2>6
<1>2. ASSUME checkout.extension = "search"
      PROVE  /\ Setup[1] = "copyExtension"
             /\ After("copyExtension") = "recordExtension" /\ After("recordExtension") = "secret"
             /\ After("secret") = "enable" /\ After("enable") = "done"
  <2>1. Setup = <<"copyExtension", "recordExtension", "secret", "enable", "done">>
    BY <1>2 DEF Setup, SetupSearch
  <2>2. DOMAIN Setup = 1..5
    BY <2>1
  <2>3. /\ Setup[1] = "copyExtension" /\ Setup[2] = "recordExtension" /\ Setup[3] = "secret"
        /\ Setup[4] = "enable" /\ Setup[5] = "done"
    BY <2>1
  <2>4. \A m \in 1..5 : m = 1 \/ m = 2 \/ m = 3 \/ m = 4 \/ m = 5
    OBVIOUS
  <2>5. /\ 1 \in DOMAIN Setup /\ \A m \in DOMAIN Setup : Setup[m] = "copyExtension" => m = 1
        /\ 2 \in DOMAIN Setup /\ \A m \in DOMAIN Setup : Setup[m] = "recordExtension" => m = 2
        /\ 3 \in DOMAIN Setup /\ \A m \in DOMAIN Setup : Setup[m] = "secret" => m = 3
        /\ 4 \in DOMAIN Setup /\ \A m \in DOMAIN Setup : Setup[m] = "enable" => m = 4
    BY <2>2, <2>3, <2>4
  <2>6. /\ After("copyExtension") = Setup[1 + 1] /\ After("recordExtension") = Setup[1 + 2]
        /\ After("secret") = Setup[1 + 3] /\ After("enable") = Setup[1 + 4]
    BY <2>3, <2>5, SequenceAfter DEF After
  <2>7. QED
    BY <2>3, <2>6
<1>3. ASSUME checkout.extension = "voice"
      PROVE  /\ Setup[1] = "secret" /\ After("secret") = "copyExtension"
             /\ After("copyExtension") = "recordExtension" /\ After("recordExtension") = "enable"
             /\ After("enable") = "done"
  <2>1. Setup = <<"secret", "copyExtension", "recordExtension", "enable", "done">>
    BY <1>3 DEF Setup, SetupVoice
  <2>2. DOMAIN Setup = 1..5
    BY <2>1
  <2>3. /\ Setup[1] = "secret" /\ Setup[2] = "copyExtension" /\ Setup[3] = "recordExtension"
        /\ Setup[4] = "enable" /\ Setup[5] = "done"
    BY <2>1
  <2>4. \A m \in 1..5 : m = 1 \/ m = 2 \/ m = 3 \/ m = 4 \/ m = 5
    OBVIOUS
  <2>5. /\ 1 \in DOMAIN Setup /\ \A m \in DOMAIN Setup : Setup[m] = "secret" => m = 1
        /\ 2 \in DOMAIN Setup /\ \A m \in DOMAIN Setup : Setup[m] = "copyExtension" => m = 2
        /\ 3 \in DOMAIN Setup /\ \A m \in DOMAIN Setup : Setup[m] = "recordExtension" => m = 3
        /\ 4 \in DOMAIN Setup /\ \A m \in DOMAIN Setup : Setup[m] = "enable" => m = 4
    BY <2>2, <2>3, <2>4
  <2>6. /\ After("secret") = Setup[1 + 1] /\ After("copyExtension") = Setup[1 + 2]
        /\ After("recordExtension") = Setup[1 + 3] /\ After("enable") = Setup[1 + 4]
    BY <2>3, <2>5, SequenceAfter DEF After
  <2>7. QED
    BY <2>3, <2>6
<1>4. QED
  BY <1>1, <1>2, <1>3

LEMMA OnwardIs ==
    ASSUME Base, cmd.op = "wizard", NEW step, Onward(step),
           step \in {"requirement", "recordExtension", "secret", "enable"},
           step = "requirement" => checkout.extension \in {"telegram", "discord"}
    PROVE  /\ Command' /\ (Ended \/ Onto({After(step)}))
           /\ Ended => step = "enable"
           /\ After(step) \in {"done", "recordExtension", "secret", "copyExtension", "enable", "defaultJobs"}
<1>1. checkout.extension \in {"telegram", "discord", "search", "voice"}
  BY DEF Base, Types, Kinds, ChannelKinds
<1>2. /\ After(step) \in {"done", "recordExtension", "secret", "copyExtension", "enable", "defaultJobs"}
      /\ After(step) = "done" => step = "enable"
  BY <1>1, AfterIs
<1>3. CASE After(step) = "done"
  BY <1>2, <1>3, FinishIs DEF Onward, Finish, Ended
<1>4. CASE After(step) # "done"
  <2>1. Goto(After(step)) /\ Where(cmd.op, After(step))
    BY <1>2, <1>4 DEF Onward, Where, RecordSteps
  <2>2. Command' /\ Onto({After(step)}) /\ ~Ended
    BY <2>1, OntoIs DEF Base, Onto, Advances, Ended
  <2>3. QED
    BY <1>2, <2>2
<1>5. QED
  BY <1>3, <1>4

LEMMA BeginUpdateExtensionBase ==
    ASSUME Base, BeginUpdateExtension
    PROVE  Base' /\ cmd'.op = "extension" /\ cmd'.at = (IF Has("ext") THEN "bak" ELSE "replace")
<1>1. Where("extension", "bak") /\ Where("extension", "replace")
  BY DEF Where
<1>2. /\ Command' /\ cmd'.op = "extension" /\ cmd'.at = (IF Has("ext") THEN "bak" ELSE "replace")
      /\ late' = {}
  BY <1>1, BeginIs DEF BeginUpdateExtension
<1>3. bounds' \in Counts /\ dirs' = dirs /\ "extensions" \in dirs
  BY CountedIs DEF BeginUpdateExtension, Begin, Base, others
<1>4. Found'
  BY <1>2, <1>3 DEF Found, At, SkillSteps
<1>5. Base'
  BY <1>2, <1>3, <1>4, BeginsBase DEF BeginUpdateExtension, others, Base, Types
<1>6. QED
  BY <1>2, <1>5

LEMMA BeginWizardBase ==
    ASSUME Base, BeginWizard
    PROVE  /\ Base' /\ cmd'.op = "wizard" /\ cmd'.at = Setup[1] /\ Has("config")
           /\ Setup[1] \in {"copyExtension", "secret"}
<1>1. Setup[1] \in {"copyExtension", "secret"}
  BY AfterIs DEF Base, Types, Kinds, ChannelKinds
<1>2. Where("wizard", Setup[1])
  BY <1>1 DEF Where
<1>3. Command' /\ cmd'.op = "wizard" /\ cmd'.at = Setup[1] /\ late' = {}
  BY <1>2, BeginIs DEF BeginWizard
<1>4. bounds' \in Counts /\ dirs' = dirs /\ root' = root /\ Has("config")
  BY CountedIs DEF BeginWizard, Begin, Base, others
<1>5. Found'
  BY <1>1, <1>3, <1>4 DEF Found, At, SkillSteps, Has
<1>6. Base'
  BY <1>3, <1>4, <1>5, BeginsBase DEF BeginWizard, others, Base, Types
<1>7. QED
  BY <1>1, <1>3, <1>4, <1>6

(* A step of the extension's commands that writes one file.                *)
LEMMA ExtensionStep ==
    ASSUME Base, NEW i \in Item, NEW content, Fits(i, content), Put(i, content),
           Part[i] \in {"extensions", "requirements", "state"},
           cmd.op \in {"extension", "wizard"},
           UNCHANGED <<backups, made, legacy, nested, checkout, copied, archive, replaced, halfway, bounds>>,
           late' \subseteq late, i = "keys" => KeysIn \subseteq KeysIn',
           \/ dirs' = dirs \cup {"extensions"} /\ Part[i] = "extensions"
           \/ dirs' = dirs /\ Part[i] \in dirs \cup {"requirements"},
           Command', NEW steps, Onto(steps) \/ Ended,
           steps \cap SkillSteps = {}, "writingJobs" \notin steps
    PROVE  Base'
<1>1. "state" \in dirs
  <2>1. cmd.op = "wizard" => Has("config")
    BY DEF Base, Found
  <2>2. cmd.op = "extension" => "extensions" \in dirs
    BY DEF Base, Found
  <2>3. QED
    BY <2>1, <2>2, PartIs DEF Base, Placed, Has
<1>2. Listed' /\ Types' /\ Placed' /\ dirs \subseteq dirs'
  BY <1>1, PutBase DEF Ground
<1>3. (Has("config") => Has("config")') /\ KeysIn \subseteq KeysIn'
  BY PutKeeps
<1>4. Found'
  BY <1>2, <1>3, FoundOnto DEF Base
<1>5. QED
  BY <1>2, <1>4 DEF Base

LEMMA BakBase ==
    ASSUME Base, Bak
    PROVE  Base' /\ Onto({"replace"}) /\ cmd.op = "extension"
<1>1. At("bak") /\ cmd.op = "extension" /\ "extensions" \in dirs
  BY StepsOf DEF Bak, Base, At, Found
<1>2. Where(cmd.op, "replace")
  BY <1>1 DEF Where
<1>3. Command' /\ Onto({"replace"})
  BY <1>2, OntoIs DEF Bak, Base
<1>4. "extBak" \in Item /\ Part["extBak"] = "extensions" /\ \A content : Fits("extBak", content)
  BY PartIs DEF Fits
<1>5. "replace" \notin SkillSteps
  BY DEF SkillSteps
<1>6. PICK content : Put("extBak", content)
  BY DEF Bak
<1>7. late' \subseteq late
  BY DEF Bak, Seen
<1>8. Base'
  BY <1>1, <1>3, <1>4, <1>5, <1>6, <1>7, ExtensionStep DEF Bak, others
<1>9. QED
  BY <1>1, <1>3, <1>8

LEMMA ReplaceExtensionBase ==
    ASSUME Base, ReplaceExtension
    PROVE  Base' /\ Onto({"recordExtension"}) /\ cmd.op = "extension"
<1>1. At("replace") /\ cmd.op = "extension" /\ "extensions" \in dirs
  BY StepsOf DEF ReplaceExtension, Base, At, Found
<1>2. Where(cmd.op, "recordExtension") /\ "recordExtension" \notin SkillSteps
  BY <1>1 DEF Where, RecordSteps, SkillSteps
<1>3. Command' /\ Onto({"recordExtension"})
  BY <1>2, OntoIs DEF ReplaceExtension, Base
<1>4. "ext" \in Item /\ Part["ext"] = "extensions" /\ Fits("ext", Template)
  BY PartIs, TreesFit DEF Fits, Base
<1>5. Base'
  BY <1>1, <1>2, <1>3, <1>4, ExtensionStep DEF ReplaceExtension, others, history
<1>6. QED
  BY <1>1, <1>3, <1>5

LEMMA RefuseExtensionBase ==
    ASSUME Base, RefuseExtension
    PROVE  Base' /\ Ended
<1>1. Command' /\ Ended
  BY FinishIs DEF RefuseExtension, Ended, Finish
<1>2. Listed' /\ Types' /\ Placed'
  BY SameBase, CountsKept DEF RefuseExtension, Base, Types, others, history
<1>3. Found'
  BY <1>1, FoundKept DEF Base, RefuseExtension, others, Has, KeysIn, Ended
<1>4. QED
  BY <1>1, <1>2, <1>3 DEF Base

LEMMA CopyExtensionBase ==
    ASSUME Base, CopyExtension
    PROVE  /\ Base' /\ cmd.op = "wizard"
           /\ At("copyExtension") => Onto({"copyingExtension"})
           /\ At("copyingExtension") => Onto({After("copyExtension")})
           /\ After("copyExtension") \in {"requirement", "recordExtension"}
<1>1. cmd.at \in {"copyExtension", "copyingExtension"} /\ cmd.op = "wizard"
  BY StepsOf DEF CopyExtension, InPlace, Base, At
<1>2. After("copyExtension") \in {"requirement", "recordExtension"}
  BY AfterIs DEF Base, Types, Kinds, ChannelKinds
<1>3. Where(cmd.op, "copyingExtension") /\ Where(cmd.op, After("copyExtension"))
  BY <1>1, <1>2 DEF Where, RecordSteps
<1>4. "ext" \in Item /\ Part["ext"] = "extensions" /\ Fits("ext", Template) /\ Fits("ext", Torn(Template))
  BY PartIs, TreesFit DEF Fits, Base
<1>5. dirs' = dirs \cup {"extensions"}
      /\ UNCHANGED <<backups, made, legacy, nested, checkout, copied, archive, history, bounds>>
  BY DEF CopyExtension
<1>6. CASE At("copyExtension") /\ Put("ext", Torn(Template)) /\ Goto("copyingExtension")
  <2>1. Command' /\ Onto({"copyingExtension"}) /\ "copyingExtension" \notin SkillSteps
    BY <1>3, <1>6, OntoIs DEF Base, SkillSteps
  <2>2. Base'
    BY <1>1, <1>4, <1>5, <1>6, <2>1, ExtensionStep DEF history
  <2>3. QED
    BY <1>1, <1>2, <1>6, <2>1, <2>2 DEF At
<1>7. CASE At("copyingExtension") /\ Put("ext", Template) /\ Goto(After("copyExtension"))
  <2>1. Command' /\ Onto({After("copyExtension")}) /\ After("copyExtension") \notin SkillSteps
    BY <1>2, <1>3, <1>7, OntoIs DEF Base, SkillSteps
  <2>2. Base'
    BY <1>1, <1>2, <1>4, <1>5, <1>7, <2>1, ExtensionStep DEF history
  <2>3. QED
    BY <1>1, <1>2, <1>7, <2>1, <2>2 DEF At
<1>8. QED
  BY <1>6, <1>7 DEF CopyExtension, InPlace

LEMMA AddRequirementBase ==
    ASSUME Base, AddRequirement, checkout.extension \in {"telegram", "discord"}
    PROVE  Base' /\ Onto({"recordExtension"}) /\ cmd.op = "wizard"
<1>1. At("requirement") /\ cmd.op = "wizard"
  BY StepsOf DEF AddRequirement, Base, At
<1>2. Command' /\ Onto({"recordExtension"}) /\ "recordExtension" \notin SkillSteps
  BY <1>1, OnwardIs, AfterIs DEF AddRequirement, SkillSteps
<1>3. "requirements" \in Item /\ Part["requirements"] = "requirements" /\ Fits("requirements", {"package"})
  BY PartIs DEF Fits
<1>4. Base'
  BY <1>1, <1>2, <1>3, ExtensionStep DEF AddRequirement, others, history
<1>5. QED
  BY <1>1, <1>2, <1>4

LEMMA RecordExtensionBase ==
    ASSUME Base, RecordExtension, cmd.op = "extension" => "extensions" \in dirs,
           cmd.op = "wizard" => "extensions" \in dirs
    PROVE  /\ Base'
           /\ At("recordExtension") => Onto({"recordingExtension"})
           /\ At("recordingExtension") /\ cmd.op = "extension" => Ended
           /\ At("recordingExtension") /\ cmd.op = "wizard" => Onto({After("recordExtension")})
<1>1. cmd.at \in RecordSteps /\ cmd.op \in {"extension", "wizard"} /\ "extensions" \in dirs
  BY StepsOf DEF RecordExtension, Base, At, RecordSteps
<1>2. /\ "extOrigin" \in Item /\ Part["extOrigin"] = "extensions"
      /\ Fits("extOrigin", Torn(NoEntry)) /\ Fits("extOrigin", Origin("contrib", Template))
  BY PartIs, OriginsFit DEF Fits, Base
<1>3. UNCHANGED <<others, history, bounds>>
  BY DEF RecordExtension
<1>4. CASE At("recordExtension") /\ Put("extOrigin", Torn(NoEntry)) /\ Goto("recordingExtension")
  <2>1. Where(cmd.op, "recordingExtension") /\ "recordingExtension" \notin SkillSteps
    BY <1>1 DEF Where, RecordSteps, SkillSteps
  <2>2. Command' /\ Onto({"recordingExtension"})
    BY <1>4, <2>1, OntoIs DEF Base
  <2>3. Base'
    BY <1>1, <1>2, <1>3, <1>4, <2>1, <2>2, ExtensionStep DEF others, history
  <2>4. QED
    BY <1>1, <1>4, <2>2, <2>3 DEF At
<1>5. CASE At("recordingExtension") /\ Put("extOrigin", Origin("contrib", Template)) /\ cmd.op = "extension"
  <2>1. Finish
    BY <1>5 DEF RecordExtension, At
  <2>2. Command' /\ Ended /\ (Onto({"idle"}) \/ Ended) /\ "idle" \notin SkillSteps
    BY <2>1, FinishIs DEF Finish, Ended, SkillSteps
  <2>3. "writingJobs" \notin {"idle"} /\ {"idle"} \cap SkillSteps = {}
    BY <2>2
  <2>4. Base'
    BY <1>1, <1>2, <1>3, <1>5, <2>2, <2>3, ExtensionStep DEF others, history
  <2>5. QED
    BY <1>1, <1>5, <2>2, <2>4 DEF At
<1>6. CASE At("recordingExtension") /\ Put("extOrigin", Origin("contrib", Template)) /\ cmd.op = "wizard"
  <2>1. Onward("recordExtension")
    BY <1>6 DEF RecordExtension, At
  <2>2. After("recordExtension") \in {"secret", "enable"}
    BY AfterIs DEF Base, Types, Kinds, ChannelKinds
  <2>3. Command' /\ Onto({After("recordExtension")}) /\ After("recordExtension") \notin SkillSteps
    BY <1>6, <2>1, <2>2, OnwardIs DEF SkillSteps
  <2>4. Base'
    BY <1>1, <1>2, <1>3, <1>6, <2>2, <2>3, ExtensionStep DEF others, history
  <2>5. QED
    BY <1>1, <1>6, <2>3, <2>4 DEF At
<1>7. QED
  BY <1>1, <1>4, <1>5, <1>6 DEF RecordExtension

LEMMA SaveSecretBase ==
    ASSUME Base, SaveSecret
    PROVE  /\ Base' /\ cmd.op = "wizard" /\ Onto({After("secret")})
           /\ KeysIn' = KeysIn \cup {"secret"}
<1>1. At("secret") /\ cmd.op = "wizard" /\ Has("config")
  BY StepsOf DEF SaveSecret, Base, At, Found
<1>2. After("secret") \in {"copyExtension", "enable"}
  BY AfterIs DEF Base, Types, Kinds, ChannelKinds
<1>3. Command' /\ Onto({After("secret")}) /\ After("secret") \notin SkillSteps
  BY <1>1, <1>2, OnwardIs DEF SaveSecret, SkillSteps
<1>4. "keys" \in Item /\ Part["keys"] = "state" /\ \A content : Fits("keys", content)
  BY PartIs DEF Fits
<1>5. KeysIn' = KeysIn \cup {"secret"}
  <2>1. Put("keys", KeysIn \cup {"secret"})
    BY DEF SaveSecret
  <2>2. "keys" \in DOMAIN root' /\ root'["keys"] = KeysIn \cup {"secret"}
    BY <2>1, PutIs
  <2>3. QED
    BY <2>2 DEF KeysIn, Has
<1>6. "state" \in dirs
  BY <1>1, PartIs DEF Base, Placed, Has
<1>7. Base'
  BY <1>1, <1>2, <1>3, <1>4, <1>5, <1>6, ExtensionStep DEF SaveSecret, others, history
<1>8. QED
  BY <1>1, <1>3, <1>5, <1>7

LEMMA EnableBase ==
    ASSUME Base, Enable
    PROVE  /\ Base' /\ cmd.op = "wizard" /\ Has("config")
           /\ checkout.extension \in {"telegram", "discord"} => Onto({"defaultJobs"})
           /\ checkout.extension \in {"search", "voice"} => Ended
<1>1. At("enable") /\ cmd.op = "wizard" /\ Has("config")
  BY StepsOf DEF Enable, Base, At, Found
<1>2. /\ Command' /\ (Ended \/ Onto({"defaultJobs"})) /\ "defaultJobs" \notin SkillSteps
      /\ checkout.extension \in {"telegram", "discord"} => Onto({"defaultJobs"})
      /\ checkout.extension \in {"search", "voice"} => Ended
  <2>1. checkout.extension \in {"telegram", "discord"} =>
            Goto("defaultJobs") /\ Where("wizard", "defaultJobs")
    BY AfterIs DEF Enable, Onward, Where
  <2>2. checkout.extension \in {"search", "voice"} => Finish
    BY AfterIs DEF Enable, Onward
  <2>3. QED
    BY <1>1, <2>1, <2>2, OntoIs, FinishIs DEF Finish, Ended, SkillSteps, Base, Types, Kinds, ChannelKinds
<1>3. root["config"] \in ConfigType /\ "state" \in dirs /\ "config" \in Item /\ Part["config"] = "state"
  BY <1>1, PartIs DEF Base, Types, Dir, Fits, Placed, Has
<1>4. Fits("config", [root["config"] EXCEPT !.enabled = checkout.extension])
  <2>1. checkout.extension \in Kinds \cup {"no"}
    BY DEF Base, Types
  <2>2. QED
    BY <1>3, <2>1 DEF Fits, ConfigType
<1>5. Base'
  BY <1>1, <1>2, <1>3, <1>4, ExtensionStep DEF Enable, others, history
<1>6. QED
  BY <1>1, <1>2, <1>5

LEMMA DefaultJobsBase ==
    ASSUME Base, DefaultJobs
    PROVE  Base' /\ cmd.op = "wizard" /\ (Ended \/ (Onto({"writingJobs"}) /\ At("defaultJobs")))
<1>1. cmd.at \in {"defaultJobs", "writingJobs"} /\ cmd.op = "wizard" /\ Has("config")
  BY StepsOf DEF DefaultJobs, Base, At, Found
<1>2. /\ "jobs" \in Item /\ Part["jobs"] = "workspace" /\ \A content : Fits("jobs", content)
      /\ "state" \in dirs
  BY <1>1, PartIs DEF Fits, Base, Placed, Has
<1>3. UNCHANGED <<backups, made, legacy, nested, checkout, copied, archive, history, bounds>>
  BY DEF DefaultJobs
<1>4. CASE Finish /\ UNCHANGED <<root, dirs>>
  <2>1. Command' /\ Ended
    BY <1>4, FinishIs DEF Ended, Finish
  <2>2. Listed' /\ Types' /\ Placed'
    BY <1>3, <1>4, SameBase, CountsKept DEF Base, Types, history
  <2>3. Found'
    BY <1>4, <2>1, FoundKept DEF Base, Has, KeysIn, Ended
  <2>4. Base'
    BY <2>1, <2>2, <2>3 DEF Base
  <2>5. QED
    BY <1>1, <2>1, <2>4
<1>5. CASE At("defaultJobs") /\ Put("jobs", Torn(Jobs("new"))) /\ Goto("writingJobs")
           /\ dirs' = dirs \cup {"workspace"}
  <2>1. Where(cmd.op, "writingJobs") /\ "writingJobs" \notin SkillSteps
    BY <1>1 DEF Where, SkillSteps
  <2>2. Command' /\ Onto({"writingJobs"})
    BY <1>5, <2>1, OntoIs DEF Base
  <2>3. Listed' /\ Types' /\ Placed' /\ dirs \subseteq dirs'
    BY <1>2, <1>3, <1>5, PutBase DEF history, Ground
  <2>4. Put("jobs", Torn(Jobs("new"))) /\ "jobs" # "keys"
    BY <1>5
  <2>5. (Has("config") => Has("config")') /\ KeysIn' = KeysIn
    BY <2>4, PutKeeps
  <2>6. Has("jobs")'
    BY <2>4, PutIs DEF Has
  <2>7. Found'
    BY <2>1, <2>2, <2>3, <2>5, <2>6, FoundOnto DEF Base
  <2>8. Base'
    BY <2>2, <2>3, <2>7 DEF Base
  <2>9. QED
    BY <1>1, <1>5, <2>2, <2>8
<1>6. CASE At("writingJobs") /\ Put("jobs", Jobs("new")) /\ Finish /\ UNCHANGED dirs
  <2>1. Command' /\ Ended
    BY <1>6, FinishIs DEF Ended, Finish
  <2>2. "workspace" \in dirs
    BY <1>2, <1>6 DEF Base, Found, Placed, Has
  <2>3. Listed' /\ Types' /\ Placed'
    BY <1>2, <1>3, <1>6, <2>2, PutBase DEF history, Ground
  <2>4. (Has("config") => Has("config")') /\ KeysIn' = KeysIn
    BY <1>6, PutKeeps
  <2>5. Found'
    BY <1>6, <2>1, <2>4, FoundKept DEF Base, Ended
  <2>6. Base'
    BY <2>1, <2>3, <2>5 DEF Base
  <2>7. QED
    BY <1>1, <2>1, <2>6
<1>7. QED
  BY <1>4, <1>5, <1>6 DEF DefaultJobs

LEMMA BeginProviderWizardBase ==
    ASSUME Base, NEW key \in Key, BeginProviderWizard(key)
    PROVE  /\ Base' /\ cmd'.op = "provider" /\ cmd'.at = "slots" /\ cmd'.key = key /\ Has("config")
           /\ KeysIn \subseteq KeysIn' /\ \A i \in Item \ {"keys"} : Has(i)' = Has(i)
           /\ \A i \in Item \ {"keys"} : Has(i) => root'[i] = root[i]
<1>1. cmd' = [op |-> "provider", at |-> "slots", force |-> FALSE, stateless |-> FALSE, left |-> {},
              into |-> "root", key |-> key]
  BY DEF BeginProviderWizard, Idle
<1>2. Where("provider", "slots")
  BY DEF Where
<1>3. Command' /\ cmd'.op = "provider" /\ cmd'.at = "slots" /\ cmd'.key = key
  BY <1>1, <1>2, WhereIs, Fresh DEF Command
<1>4. /\ bounds' \in Counts /\ Has("config") /\ late' = {}
      /\ UNCHANGED <<others, replaced, halfway>>
  BY CountedIs DEF BeginProviderWizard, Base
<1>5. /\ Dir(root)' /\ KeysIn \subseteq KeysIn' /\ key \in KeysIn' \cup Exported
      /\ \A i \in Item \ {"keys"} : Has(i)' = Has(i) /\ (Has(i) => root'[i] = root[i])
      /\ DOMAIN root' \subseteq DOMAIN root \cup {"keys"}
  <2>1. CASE key \in Exported
    BY <2>1 DEF BeginProviderWizard, Base, Types, KeysIn, Has
  <2>2. CASE key \notin Exported
    <3>1. Put("keys", KeysIn \cup {key})
      BY <2>2 DEF BeginProviderWizard
    <3>2. "keys" \in Item /\ Fits("keys", KeysIn \cup {key})
      BY PartIs DEF Fits
    <3>3. Dir(root)'
      BY <3>1, <3>2, DirPut DEF Base
    <3>4. "keys" \in DOMAIN root' /\ root'["keys"] = KeysIn \cup {key}
      BY <3>1, PutIs
    <3>5. DOMAIN root' = DOMAIN root \cup {"keys"} /\ \A j \in DOMAIN root \ {"keys"} : root'[j] = root[j]
      BY <3>1, PutIs
    <3>6. QED
      BY <3>3, <3>4, <3>5 DEF KeysIn, Has
  <2>3. QED
    BY <2>1, <2>2
<1>6. "state" \in dirs /\ Part["keys"] = "state" /\ "config" \in Item
  BY <1>4, PartIs DEF Base, Placed, Has
<1>7. Found'
  <2>1. Has("config")' /\ key \in Environment'
    BY <1>4, <1>5, <1>6 DEF Environment
  <2>2. QED
    BY <1>3, <2>1 DEF Found, At, SkillSteps
<1>8. Listed' /\ Types'
  BY <1>4, <1>5, StillTypes DEF Base, Types, others
<1>9. Placed'
  BY <1>4, <1>5, <1>6 DEF Base, Placed, Has, others
<1>10. QED
  BY <1>3, <1>4, <1>5, <1>7, <1>8, <1>9 DEF Base

LEMMA SetSlotsBase ==
    ASSUME Base, SetSlots
    PROVE  /\ Base' /\ (Ended \/ Onto({"slots"})) /\ cmd.op = "provider" /\ Has("config") /\ Has("config")'
           /\ DOMAIN root' = DOMAIN root /\ \A i \in DOMAIN root \ {"config"} : root'[i] = root[i]
           /\ root'["config"].enabled = root["config"].enabled
           /\ \A s \in SlotName : root'["config"].slots[s] \in {root["config"].slots[s], cmd.key}
<1>1. At("slots") /\ cmd.op = "provider" /\ Has("config") /\ cmd.key \in Key
  BY StepsOf DEF SetSlots, Base, At, Found
<1>2. root["config"] \in ConfigType /\ "state" \in dirs /\ "config" \in Item /\ Part["config"] = "state"
  BY <1>1, PartIs DEF Base, Types, Dir, Fits, Placed, Has
<1>3. UNCHANGED <<others, history, bounds>>
  BY DEF SetSlots
<1>4. CASE Finish /\ UNCHANGED root
  <2>1. Command' /\ Ended
    BY <1>4, FinishIs DEF Ended, Finish
  <2>2. Listed' /\ Types' /\ Placed'
    BY <1>3, <1>4, SameBase, CountsKept DEF Base, Types, others, history
  <2>3. Found'
    BY <1>3, <1>4, <2>1, FoundKept DEF Base, others, Has, KeysIn, Ended
  <2>4. QED
    BY <1>1, <1>4, <2>1, <2>2, <2>3 DEF Base, Has
<1>5. CASE UNCHANGED cmd /\ root' = [root EXCEPT !["config"].slots[Slots[Min(Unset)]] = cmd.key]
  <2> DEFINE slot == Slots[Min(Unset)]
             config == [root["config"] EXCEPT !.slots = [root["config"].slots EXCEPT ![slot] = cmd.key]]
  <2>1. /\ DOMAIN root' = DOMAIN root /\ \A i \in DOMAIN root \ {"config"} : root'[i] = root[i]
        /\ root'["config"] = config
    BY <1>1, <1>5 DEF Has
  <2>2. config \in ConfigType /\ config.enabled = root["config"].enabled
    BY <1>1, <1>2 DEF ConfigType
  <2>3. \A s \in SlotName : config.slots[s] \in {root["config"].slots[s], cmd.key}
    BY <1>1, <1>2 DEF ConfigType
  <2>4. Dir(root)'
    <3>1. \A i \in DOMAIN root : Fits(i, root[i]) /\ i \in Item
      BY DEF Base, Types, Dir
    <3>2. Fits("config", config)
      BY <2>2 DEF Fits
    <3>3. QED
      BY <2>1, <3>1, <3>2 DEF Dir
  <2>5. Command' /\ Onto({"slots"})
    BY <1>1, <1>5 DEF Base, Command, Onto, Advances, At
  <2>6. (Has("config") => Has("config")') /\ KeysIn' = KeysIn
    BY <2>1 DEF Has, KeysIn
  <2>7. "slots" \notin SkillSteps
    BY DEF SkillSteps
  <2>8. Base'
    BY <1>3, <2>1, <2>4, <2>5, <2>6, <2>7, RootStep DEF Has, history
  <2>9. QED
    BY <1>1, <2>1, <2>2, <2>3, <2>5, <2>6, <2>8
<1>6. QED
  BY <1>4, <1>5 DEF SetSlots

(* Snapshots                                                               *)
LEMMA CopyPartBase ==
    ASSUME Base, NEW step, NEW parts, NEW next, CopyPart(step, parts, next),
           step \in SnapshotSteps, next \in SnapshotSteps
    PROVE  Base' /\ Onto({next})
<1>1. At(step) /\ cmd.op \in {"backup", "restore", "update"}
  BY StepsOf DEF CopyPart, Base, At
<1>2. Where(cmd.op, next)
  BY <1>1 DEF Where
<1>3. Command' /\ Onto({next}) /\ next \notin SkillSteps /\ next # "writingJobs"
  BY <1>2, OntoIs DEF CopyPart, Base, SnapshotSteps, SkillSteps
<1>4. /\ UNCHANGED <<root, dirs, backups, made, legacy, nested, checkout, archive, replaced, halfway, bounds>>
      /\ late' \subseteq late
  BY DEF CopyPart, Seen
<1>5. Dir(copied)'
  <2> DEFINE items == UNION {ItemsOf(p) : p \in parts}
             lower == IF step = "copyState" THEN Empty ELSE copied
             upper == Restrict(root, items \cap DOMAIN root)
  <2>1. Dir(lower)
    BY DirEmpty DEF Base, Types
  <2>2. Dir(upper)
    BY DirRestrict DEF Base, Types
  <2>3. copied' = Over(lower, upper)
    BY DEF CopyPart
  <2> HIDE DEF lower, upper
  <2>4. QED
    BY <2>1, <2>2, <2>3, DirOver
<1>6. Types' /\ Listed' /\ Placed'
  BY <1>4, <1>5 DEF Base, Types, Listed, Placed, Has
<1>7. Found'
  BY <1>3, <1>4, FoundOnto DEF Base, Has, KeysIn
<1>8. QED
  BY <1>3, <1>6, <1>7 DEF Base

LEMMA OpenTarballBase ==
    ASSUME Base, OpenTarball
    PROVE  /\ Base' /\ Onto({"write"}) /\ Len(backups) \in Nat /\ Len(backups)' = Len(backups) + 1
           /\ DOMAIN backups = 1..Len(backups) /\ DOMAIN backups' = 1..Len(backups) + 1
           /\ \A n \in DOMAIN backups : backups'[n] = backups[n]
           /\ backups'[Len(backups) + 1] = [data |-> Empty, whole |-> FALSE, old |-> FALSE, half |-> halfway]
<1>1. At("tar") /\ cmd.op \in {"backup", "restore", "update"}
  BY StepsOf DEF OpenTarball, Base, At, SnapshotSteps
<1>2. Where(cmd.op, "write")
  BY <1>1 DEF Where, SnapshotSteps
<1>3. Command' /\ Onto({"write"}) /\ "write" \notin SkillSteps
  BY <1>2, OntoIs DEF OpenTarball, Base, SkillSteps
<1>4. UNCHANGED <<root, dirs, legacy, nested, checkout, copied, archive, history, bounds>> /\ made' = made + 1
  BY DEF OpenTarball
<1> DEFINE tarball == [data |-> Empty, whole |-> FALSE, old |-> FALSE, half |-> halfway]
<1>5. PICK S : backups \in Seq(S)
  BY DEF Base, Listed
<1>6. backups' = Append(backups, tarball)
  BY DEF OpenTarball
<1> HIDE DEF tarball
<1>7. backups \in Seq(S \cup {tarball}) /\ backups' \in Seq(S \cup {tarball})
  BY <1>5, <1>6
<1>8. /\ Len(backups) \in Nat /\ Len(backups') = Len(backups) + 1
      /\ DOMAIN backups = 1..Len(backups) /\ DOMAIN backups' = 1..Len(backups) + 1
      /\ \A n \in DOMAIN backups : backups'[n] = backups[n]
      /\ backups'[Len(backups) + 1] = tarball
  BY <1>5, <1>6, <1>7
<1>9. Dir(tarball.data)
  BY DirEmpty DEF tarball
<1>10. \A n \in DOMAIN backups' : Dir(backups'[n].data)
  <2>1. \A n \in DOMAIN backups : Dir(backups[n].data)
    BY DEF Base, Types
  <2>2. QED
    BY <1>8, <1>9, <2>1
<1>11. /\ made' \in Nat /\ Len(backups') <= made'
       /\ \A r \in replaced' : r[3] \in Nat /\ r[3] <= made' /\ r[4] \in {"saved", "moved"}
  BY <1>4, <1>8 DEF Base, Types, history
<1>12. Types' /\ Listed' /\ Placed'
  BY <1>4, <1>7, <1>10, <1>11 DEF Base, Types, Listed, Placed, Has, history
<1>13. Found'
  BY <1>3, <1>4, FoundOnto DEF Base, Has, KeysIn
<1>14. QED
  BY <1>3, <1>8, <1>12, <1>13 DEF Base, tarball

LEMMA WriteTarballBase ==
    ASSUME Base, WriteTarball
    PROVE  /\ Base' /\ (Ended \/ Onto({"clear", "rotate"}))
           /\ Onto({"clear"}) => cmd.op = "restore"
           /\ Onto({"rotate"}) => cmd.op = "update"
           /\ Len(backups) \in Nat /\ Len(backups)' = Len(backups)
           /\ DOMAIN backups = 1..Len(backups) /\ DOMAIN backups' = 1..Len(backups)
           /\ \A n \in DOMAIN backups : n # Len(backups) => backups'[n] = backups[n]
           /\ Len(backups) >= 1 =>
                 /\ backups'[Len(backups)].data = copied /\ backups'[Len(backups)].whole
                 /\ backups'[Len(backups)].old = backups[Len(backups)].old
                 /\ backups'[Len(backups)].half = backups[Len(backups)].half
<1>1. At("write") /\ cmd.op \in {"backup", "restore", "update"}
  BY StepsOf DEF WriteTarball, Base, At, SnapshotSteps
<1>2. /\ Command' /\ (Ended \/ Onto({"clear", "rotate"}))
      /\ Onto({"clear"}) => cmd.op = "restore"
      /\ Onto({"rotate"}) => cmd.op = "update"
  <2>1. CASE cmd.op = "backup"
    <3>1. cmd' = Idle
      BY <2>1 DEF WriteTarball
    <3>2. Command' /\ Ended
      BY <3>1, FinishIs DEF Ended
    <3>3. QED
      BY <3>2 DEF Ended, Onto
  <2>2. CASE cmd.op = "restore"
    <3>1. Goto("clear") /\ Where(cmd.op, "clear")
      BY <2>2 DEF WriteTarball, Goto, Where
    <3>2. Command' /\ Onto({"clear"})
      BY <3>1, OntoIs DEF Base
    <3>3. QED
      BY <2>2, <3>2 DEF Onto
  <2>3. CASE cmd.op = "update"
    <3>1. Goto("rotate") /\ Where(cmd.op, "rotate")
      BY <2>3 DEF WriteTarball, Goto, Where
    <3>2. Command' /\ Onto({"rotate"})
      BY <3>1, OntoIs DEF Base
    <3>3. QED
      BY <2>3, <3>2 DEF Onto
  <2>4. QED
    BY <1>1, <2>1, <2>2, <2>3
<1>3. UNCHANGED <<root, dirs, made, legacy, nested, checkout, archive, history, bounds>> /\ copied' = Empty
  BY DEF WriteTarball
<1>4. PICK S : backups \in Seq(S)
  BY DEF Base, Listed
<1> DEFINE last == Len(backups)
           tarball == [backups[last] EXCEPT !.data = copied, !.whole = TRUE]
<1>5. backups' = [backups EXCEPT ![last] = tarball]
  BY DEF WriteTarball
<1>6. /\ tarball.data = copied /\ tarball.whole
      /\ last >= 1 => tarball.old = backups[last].old /\ tarball.half = backups[last].half
  BY DEF tarball
<1> HIDE DEF tarball
<1>7. /\ last \in Nat /\ DOMAIN backups = 1..last /\ DOMAIN backups' = 1..last
      /\ \A n \in DOMAIN backups : n # last => backups'[n] = backups[n]
      /\ last >= 1 => backups'[last] = tarball
  BY <1>4, <1>5
<1>8. backups' \in Seq(S \cup {tarball}) /\ Len(backups') = last
  <2>1. ASSUME NEW n \in 1..last
        PROVE  backups'[n] \in S \cup {tarball}
    <3>1. backups[n] \in S
      BY <1>4
    <3>2. CASE n = last
      BY <1>7, <3>2
    <3>3. CASE n # last
      BY <1>7, <3>1, <3>3
    <3>4. QED
      BY <3>2, <3>3
  <2>2. backups' = [n \in 1..last |-> backups'[n]]
    BY <1>5, <1>7
  <2>3. QED
    BY <1>7, <2>1, <2>2
<1>9. \A n \in DOMAIN backups' : Dir(backups'[n].data)
  <2>1. \A n \in DOMAIN backups : Dir(backups[n].data)
    BY DEF Base, Types
  <2>2. Dir(copied)
    BY DEF Base, Types
  <2>3. QED
    BY <1>6, <1>7, <2>1, <2>2
<1>10. Types' /\ Listed' /\ Placed'
  BY <1>3, <1>8, <1>9, DirEmpty DEF Base, Types, Listed, Placed, Has, history
<1>11. "clear" \notin SkillSteps /\ "rotate" \notin SkillSteps
  BY DEF SkillSteps
<1>12. Found'
  BY <1>2, <1>3, <1>11, FoundOnto DEF Base, Has, KeysIn
<1>13. QED
  BY <1>2, <1>6, <1>7, <1>8, <1>10, <1>12 DEF Base

LEMMA RunBackupBase ==
    ASSUME Base, RunBackup
    PROVE  Base' /\ cmd'.op = "backup" /\ cmd'.at = "copyState"
<1>1. Where("backup", "copyState") /\ "copyState" \notin SkillSteps
  BY DEF Where, SnapshotSteps, SkillSteps
<1>2. Command' /\ cmd'.op = "backup" /\ cmd'.at = "copyState" /\ late' = {}
  BY <1>1, BeginIs DEF RunBackup
<1>3. bounds' \in Counts
  BY CountedIs DEF RunBackup, Begin, Base
<1>4. Found'
  BY <1>1, <1>2 DEF Found, At
<1>5. Base'
  BY <1>2, <1>3, <1>4, BeginsBase DEF RunBackup, Base, Types
<1>6. QED
  BY <1>2, <1>5

LEMMA RunUpdateBase ==
    ASSUME Base, RunUpdate
    PROVE  Base' /\ cmd'.op = "update" /\ cmd'.at = (IF "state" \in dirs THEN "copyState" ELSE "move")
<1>1. /\ Where("update", "copyState") /\ Where("update", "move")
      /\ "copyState" \notin SkillSteps /\ "move" \notin SkillSteps
  BY DEF Where, SnapshotSteps, SkillSteps
<1>2. /\ Command' /\ cmd'.op = "update" /\ cmd'.at = (IF "state" \in dirs THEN "copyState" ELSE "move")
      /\ late' = {}
  BY <1>1, BeginIs DEF RunUpdate
<1>3. bounds' \in Counts
  BY CountedIs DEF RunUpdate, Begin, Base
<1>4. Found'
  BY <1>1, <1>2 DEF Found, At
<1>5. Base'
  BY <1>2, <1>3, <1>4, BeginsBase DEF RunUpdate, Base, Types
<1>6. QED
  BY <1>2, <1>5

(* Restore                                                                 *)
LEMMA TargetIs ==
    /\ archive.old => Target = {"state"}
    /\ ~archive.old => Target = {"state", "workspace", "extensions", "requirements"}
    /\ "state" \in Target
BY PartIs DEF Target, Item

LEMMA RunRestoreBase ==
    ASSUME Base, NEW n \in DOMAIN backups, NEW force \in BOOLEAN, RunRestore(n, force)
    PROVE  /\ Base' /\ cmd'.op = "restore" /\ cmd'.force = force /\ cmd'.stateless = ("state" \notin dirs)
           /\ cmd'.at = (IF "state" \in dirs /\ ~force THEN "copyState" ELSE "clear")
           /\ late' = {}
<1> DEFINE step == IF "state" \in dirs /\ ~force THEN "copyState" ELSE "clear"
           stateless == "state" \notin dirs
<1>1. cmd' = [op |-> "restore", at |-> step, force |-> force, stateless |-> stateless,
              left |-> {}, into |-> "root", key |-> "none"]
  BY DEF RunRestore, Idle
<1>2. Where("restore", step) /\ step \notin SkillSteps /\ step # "writingJobs"
  BY DEF Where, SnapshotSteps, SkillSteps
<1>3. "none" \in Key \cup {"none"} /\ stateless \in BOOLEAN
  OBVIOUS
<1>4. /\ Command' /\ cmd'.op = "restore" /\ cmd'.at = step /\ cmd'.force = force
      /\ cmd'.stateless = stateless
  <2> HIDE DEF step, stateless
  <2> QED
    BY <1>1, <1>2, <1>3, WhereIs, Fresh DEF Command
<1>5. Found'
  BY <1>2, <1>4 DEF Found, At
<1>6. /\ late' = {} /\ bounds' \in Counts /\ archive' = backups[n]
      /\ UNCHANGED <<root, dirs, backups, made, legacy, nested, checkout, copied, replaced, halfway>>
  BY CountedIs DEF RunRestore, Base
<1>7. Types' /\ Listed' /\ Placed'
  BY <1>6 DEF Base, Types, Listed, Placed, Has, Counts
<1>8. QED
  BY <1>4, <1>5, <1>6, <1>7 DEF Base

(* Of state/ the service makes nothing but its database.                   *)
LEMMA MadeSinceIs ==
    ASSUME Types
    PROVE  MadeSince \subseteq {"db"}
BY PartIs DEF MadeSince, ItemsOf, Types, Item

LEMMA ClearItemBase ==
    ASSUME Base, ClearItem
    PROVE  /\ Base' /\ UNCHANGED cmd /\ At("clear") /\ cmd.op = "restore"
           /\ MadeSince \subseteq {"db"}
           /\ \E i \in ToClear :
                 /\ \E listed \in {ToClear, ToClear \ MadeSince} :
                       i \in listed /\ i \in ItemsOf(FirstPart(listed))
                 /\ DOMAIN root' = DOMAIN root \ {i} /\ \A j \in DOMAIN root \ {i} : root'[j] = root[j]
                 /\ replaced' = IF cmd.force \/ cmd.stateless THEN replaced ELSE replaced \cup Taken({i})
<1>1. At("clear") /\ cmd.op = "restore" /\ UNCHANGED cmd
  BY StepsOf DEF ClearItem, Base, At
<1> DEFINE Among(i) == \E listed \in {ToClear, ToClear \ MadeSince} :
                           i \in listed /\ i \in ItemsOf(FirstPart(listed))
<1>2. PICK i \in ToClear :
          /\ Among(i)
          /\ root' = Without(root, {i})
          /\ dirs' = IF Part[i] # "state" /\ ItemsOf(Part[i]) \cap ToClear = {i}
                     THEN dirs \ {Part[i]} ELSE dirs
          /\ replaced' = IF cmd.force \/ cmd.stateless THEN replaced ELSE replaced \cup Taken({i})
  BY DEF ClearItem
<1> HIDE DEF Among
<1>3. DOMAIN root' = DOMAIN root \ {i} /\ \A j \in DOMAIN root \ {i} : root'[j] = root[j]
  BY <1>2, WithoutIs
<1>4. Dir(root)' /\ i \in Item /\ Part[i] \in Target
  BY <1>2, DirWithout DEF Base, Types, Dir, ToClear
<1>5. Placed'
  <2>1. ASSUME NEW j \in DOMAIN root', Part[j] # "requirements"
        PROVE  Part[j] \in dirs'
    <3>1. j \in DOMAIN root /\ j # i /\ Part[j] \in dirs /\ j \in Item
      BY <1>3, <2>1 DEF Base, Placed, Has, Types, Dir
    <3>2. CASE Part[j] = Part[i]
      BY <1>2, <1>4, <3>1, <3>2 DEF ToClear, ItemsOf, Item
    <3>3. CASE Part[j] # Part[i]
      BY <1>2, <3>1, <3>3
    <3>4. QED
      BY <3>2, <3>3
  <2>2. "extensions" \in dirs' \/ Has("requirements")' => "state" \in dirs'
    BY <1>2, <1>3 DEF Base, Placed, Has
  <2>3. QED
    BY <2>1, <2>2 DEF Placed, Has
<1>6. /\ UNCHANGED <<backups, made, legacy, nested, checkout, copied, archive, late, bounds>>
      /\ halfway' \in {"restore", "apart"}
  BY DEF ClearItem
<1>7. \A r \in replaced' : r[3] \in Nat /\ r[3] <= made' /\ r[4] \in {"saved", "moved"}
  <2>1. \A r \in Taken({i}) : r[3] = made /\ r[4] = "saved"
    BY TakenIs
  <2>2. \A r \in replaced : r[3] \in Nat /\ r[3] <= made /\ r[4] \in {"saved", "moved"}
    BY DEF Base, Types
  <2>3. replaced' \subseteq replaced \cup Taken({i}) /\ made' = made /\ made \in Nat
    BY <1>2, <1>6 DEF Base, Types
  <2>4. ASSUME NEW r \in replaced'
        PROVE  r[3] \in Nat /\ r[3] <= made' /\ r[4] \in {"saved", "moved"}
    <3>1. CASE r \in replaced
      BY <2>2, <2>3, <3>1
    <3>2. CASE r \in Taken({i})
      BY <2>1, <2>3, <3>2
    <3>3. QED
      BY <2>3, <3>1, <3>2
  <2>5. QED
    BY <2>4
<1>8. dirs' \subseteq dirs
  BY <1>2
<1>9. Types' /\ Listed'
  BY <1>4, <1>6, <1>7, <1>8 DEF Base, Types, Listed
<1>10. Found'
  BY <1>1 DEF Found, At, SkillSteps
<1>11. Command'
  BY <1>1 DEF Base, Command
<1>12. Base'
  BY <1>5, <1>9, <1>10, <1>11 DEF Base
<1>13. MadeSince \subseteq {"db"}
  BY MadeSinceIs DEF Base
<1>14. QED
  BY <1>1, <1>2, <1>3, <1>12, <1>13 DEF Among

LEMMA ClearedBase ==
    ASSUME Base, Cleared
    PROVE  /\ Base' /\ cmd.op = "restore" /\ cmd'.op = "restore" /\ cmd'.at = "extract"
           /\ cmd'.left = {i \in DOMAIN archive.data : Part[i] \in Target}
           /\ "state" \in dirs'
<1>1. At("clear") /\ cmd.op = "restore"
  BY StepsOf DEF Cleared, Base, At
<1>2. cmd' = [cmd EXCEPT !.at = "extract", !.left = {i \in DOMAIN archive.data : Part[i] \in Target}]
  BY DEF Cleared
<1>3. {i \in DOMAIN archive.data : Part[i] \in Target} \subseteq Item
  BY DEF Base, Types, Dir
<1>4. Where("restore", "extract")
  BY DEF Where
<1>5. /\ Command' /\ cmd'.op = "restore" /\ cmd'.at = "extract"
      /\ cmd'.left = {i \in DOMAIN archive.data : Part[i] \in Target}
  BY <1>1, <1>2, <1>3, <1>4, WhereIs DEF Base, Command
<1>6. /\ dirs' = (dirs \ (Target \ {"state"})) \cup {"state"} /\ ToClear \subseteq MadeSince
      /\ halfway' \in {"restore", "apart"}
      /\ UNCHANGED <<root, backups, made, legacy, nested, checkout, copied, archive, replaced, late, bounds>>
  BY DEF Cleared
<1>7. Placed'
  <2>1. \A i \in DOMAIN root : Part[i] \in Target => Part[i] = "state"
    BY <1>6, MadeSinceIs, PartIs DEF Base, ToClear
  <2>2. QED
    BY <1>6, <2>1 DEF Base, Placed, Has
<1>8. Types' /\ Listed'
  BY <1>6 DEF Base, Types, Listed
<1>9. Found'
  BY <1>5 DEF Found, At, SkillSteps
<1>10. QED
  BY <1>1, <1>5, <1>6, <1>7, <1>8, <1>9 DEF Base

(* The member that is extracted next is left, and none before it is.       *)
LEMMA NextMemberIs ==
    ASSUME cmd.left # {}, cmd.left \subseteq Item
    PROVE  /\ NextMember \in cmd.left
           /\ NextMember = "config" => cmd.left \cap {"ext", "extOrigin", "requirements"} = {}
<1> DEFINE places == {n \in Nat : n \in DOMAIN TarOrder /\ TarOrder[n] \in cmd.left}
<1>1. /\ DOMAIN TarOrder = 1..13
      /\ TarOrder[1] = "extOrigin" /\ TarOrder[2] = "ext" /\ TarOrder[3] = "extBak"
      /\ TarOrder[4] = "requirements" /\ TarOrder[5] = "keys" /\ TarOrder[6] = "config"
      /\ TarOrder[7] = "db" /\ TarOrder[8] = "jobs" /\ TarOrder[9] = "notes"
      /\ TarOrder[10] = "skillOrigin" /\ TarOrder[11] = "skill" /\ TarOrder[12] = "skillNew"
      /\ TarOrder[13] = "skillOld"
  BY DEF TarOrder
<1>2. \A i \in Item : \E n \in 1..13 : TarOrder[n] = i
  BY <1>1, PartIs
<1>3. PICK k \in places : TRUE
  BY <1>1, <1>2
<1>4. \E n \in places : \A m \in places : <<m, n>> \notin OpToRel(<, Nat)
  <2>1. places \subseteq Nat
    OBVIOUS
  <2> HIDE DEF places
  <2>2. QED
    BY <1>3, <2>1, NatLessThanWellFounded, WFMin
<1>5. PICK n \in places : \A m \in places : ~(m < n)
  BY <1>4 DEF OpToRel
<1>6. /\ n \in DOMAIN TarOrder /\ TarOrder[n] \in cmd.left
      /\ \A m \in 1..n - 1 : TarOrder[m] \notin cmd.left
  BY <1>1, <1>5
<1> DEFINE first == CHOOSE m \in DOMAIN TarOrder :
                        /\ TarOrder[m] \in cmd.left
                        /\ \A j \in 1..m - 1 : TarOrder[j] \notin cmd.left
<1>7. /\ first \in DOMAIN TarOrder /\ TarOrder[first] \in cmd.left
      /\ \A j \in 1..first - 1 : TarOrder[j] \notin cmd.left
  BY <1>6
<1>8. NextMember = TarOrder[first]
  BY DEF NextMember
<1> HIDE DEF first
<1>9. TarOrder[first] = "config" => first = 6
  BY <1>1, <1>7
<1>10. first = 6 => "extOrigin" \notin cmd.left /\ "ext" \notin cmd.left /\ "requirements" \notin cmd.left
  BY <1>1, <1>7
<1>11. QED
  BY <1>7, <1>8, <1>9, <1>10

LEMMA ExtractBase ==
    ASSUME Base, Course, Extract
    PROVE  /\ Base' /\ cmd.op = "restore" /\ cmd'.op = "restore" /\ cmd'.at = "extract"
           /\ NextMember \in cmd.left /\ NextMember \in DOMAIN archive.data
           /\ cmd'.left = cmd.left \ {NextMember} /\ dirs \subseteq dirs'
           /\ DOMAIN root' = DOMAIN root \cup {NextMember} /\ root'[NextMember] = archive.data[NextMember]
           /\ \A j \in DOMAIN root \ {NextMember} : root'[j] = root[j]
<1>1. At("extract") /\ cmd.op = "restore" /\ cmd.left \subseteq DOMAIN archive.data /\ "state" \in dirs
  BY StepsOf DEF Extract, Base, At, Course
<1>2. NextMember \in cmd.left /\ cmd.left \subseteq Item
  BY NextMemberIs DEF Extract, Base, Command
<1> DEFINE i == NextMember
<1>3. /\ Put(i, archive.data[i]) /\ dirs' = dirs \cup ({Part[i]} \ {"requirements"})
      /\ UNCHANGED <<backups, made, legacy, nested, checkout, copied, archive, history, bounds>>
  BY DEF Extract
<1>4. i \in Item /\ i \in DOMAIN archive.data /\ Fits(i, archive.data[i])
  BY <1>1, <1>2 DEF Base, Types, Dir
<1>5. cmd' = [cmd EXCEPT !.left = cmd.left \ {i}]
  BY DEF Extract
<1>6. Command' /\ cmd'.op = "restore" /\ cmd'.at = "extract" /\ cmd'.left = cmd.left \ {i}
  BY <1>1, <1>2, <1>5 DEF Base, Command, At
<1> HIDE DEF i
<1>7. /\ DOMAIN root' = DOMAIN root \cup {i} /\ root'[i] = archive.data[i]
      /\ \A j \in DOMAIN root \ {i} : root'[j] = root[j]
  BY <1>3, PutIs
<1>8. Listed' /\ Types' /\ Placed' /\ dirs \subseteq dirs'
  <2>1. CASE Part[i] = "requirements"
    BY <1>1, <1>3, <1>4, <2>1, PutBase DEF history, Ground
  <2>2. CASE Part[i] # "requirements"
    BY <1>1, <1>3, <1>4, <2>2, PutBase DEF history
  <2>3. QED
    BY <2>1, <2>2
<1>9. Found'
  BY <1>6 DEF Found, At, SkillSteps
<1>10. Base'
  BY <1>6, <1>8, <1>9 DEF Base
<1>11. QED
  BY <1>1, <1>2, <1>4, <1>6, <1>7, <1>8, <1>10 DEF i

LEMMA RestoredBase ==
    ASSUME Base, Restored
    PROVE  Base' /\ Onto({"restored"}) /\ cmd.op = "restore" /\ At("extract")
<1>1. At("extract") /\ cmd.op = "restore"
  BY StepsOf DEF Restored, Base, At
<1>2. Where("restore", "restored") /\ "restored" \notin SkillSteps
  BY DEF Where, SkillSteps
<1>3. Command' /\ Onto({"restored"})
  BY <1>1, <1>2, OntoIs DEF Restored, Base
<1>4. /\ UNCHANGED <<root, dirs, backups, made, legacy, nested, checkout, copied, archive, replaced, late, bounds>>
      /\ halfway' \in {halfway, "no"}
  BY DEF Restored
<1>5. Types' /\ Listed' /\ Placed'
  BY <1>4 DEF Base, Types, Listed, Placed, Has
<1>6. Found'
  BY <1>2, <1>3, <1>4, FoundOnto DEF Base, Has, KeysIn
<1>7. QED
  BY <1>1, <1>3, <1>5, <1>6 DEF Base

LEMMA EndRestoreBase ==
    ASSUME Base, EndRestore
    PROVE  Base' /\ Ended
<1>1. Command' /\ Ended
  BY FinishIs DEF EndRestore, Ended, Finish
<1>2. Listed' /\ Types' /\ Placed'
  BY SameBase, CountsKept DEF EndRestore, Base, Types, history
<1>3. Found'
  BY <1>1, FoundKept DEF Base, EndRestore, Has, KeysIn, Ended
<1>4. QED
  BY <1>1, <1>2, <1>3 DEF Base

(* The move out of the checkout                                            *)
LEMMA FirstPartIs ==
    ASSUME NEW items, items \subseteq Item, items # {}
    PROVE  /\ FirstPart(items) \in {"workspace", "state", "extensions", "requirements"}
           /\ ItemsOf(FirstPart(items)) \cap items # {}
           /\ FirstPart(items) # "workspace" => ItemsOf("workspace") \cap items = {}
           /\ FirstPart(items) \in {"extensions", "requirements"} => ItemsOf("state") \cap items = {}
           /\ FirstPart(items) = "requirements" => ItemsOf("extensions") \cap items = {}
<1>1. PICK i \in items : TRUE
  OBVIOUS
<1>2. Part[i] \in {"workspace", "state", "extensions", "requirements"} /\ i \in ItemsOf(Part[i]) \cap items
  BY PartIs DEF ItemsOf, Item
<1>3. QED
  BY <1>2 DEF FirstPart

LEMMA ToMoveIs ==
    ASSUME Types, Moving # {}
    PROVE  /\ MovePart \in {"workspace", "state", "extensions"} /\ ~Gone(MovePart)
           /\ ToMove # {} /\ ToMove \subseteq DOMAIN legacy /\ ToMove \subseteq Item
           /\ \A i \in ToMove : Part[i] = MovePart
           /\ \A i \in Item : Part[i] = MovePart /\ i \in DOMAIN legacy => i \in ToMove
           /\ MovePart # "workspace" => Gone("workspace")
           /\ MovePart = "extensions" => Gone("state")
<1>1. DOMAIN legacy \subseteq Item /\ DOMAIN legacy # {}
  BY DEF Types, Dir, Moving
<1>2. PICK i \in DOMAIN legacy : Part[i] # "requirements"
  BY DEF Moving
<1>3. Part[i] \in {"workspace", "state", "extensions"} /\ i \in ItemsOf(Part[i]) \cap DOMAIN legacy
  BY <1>1, <1>2, PartIs DEF ItemsOf, Item
<1>4. MovePart # "requirements"
  BY <1>1, <1>3, FirstPartIs DEF MovePart
<1>5. QED
  BY <1>1, <1>4, FirstPartIs DEF MovePart, ToMove, ItemsOf, Item, Gone

LEMMA MovingIs ==
    ASSUME Types, Course, At("moving")
    PROVE  Moving # {}
<1>1. PICK i \in ItemsOf(MovePart) \cap DOMAIN legacy : TRUE
  BY DEF Course, Gone
<1>2. Part[i] = MovePart /\ MovePart # "requirements"
  BY DEF Course, Types, ItemsOf
<1>3. QED
  BY <1>1, <1>2 DEF Moving

LEMMA StartMoveBase ==
    ASSUME Base, Course, StartMove
    PROVE  /\ Base' /\ cmd.op = "update"
           /\ \/ Ended
              \/ /\ Ended = FALSE /\ cmd'.op = "update" /\ cmd'.at = "moving" /\ cmd'.into \in {"root", "nested"}
                 /\ cmd'.into = "root" <=> MovePart \notin dirs
           /\ dirs' = dirs \cup {MovePart} /\ dirs \subseteq dirs' /\ MovePart \in dirs'
<1>1. At("move") /\ cmd.op = "update" /\ Moving # {}
  BY StepsOf DEF StartMove, Base, At
<1>2. /\ MovePart \in {"workspace", "state", "extensions"}
      /\ MovePart = "extensions" => Gone("state")
  BY <1>1, ToMoveIs DEF Base
<1>3. /\ dirs' = dirs \cup {MovePart} /\ halfway' = "apart"
      /\ UNCHANGED <<root, backups, made, legacy, nested, checkout, copied, archive, late, bounds>>
  BY DEF StartMove
<1>4. "state" \in dirs \/ ~Gone("state")
  BY <1>1 DEF Course, At
<1>5. Placed'
  BY <1>2, <1>3, <1>4 DEF Base, Placed, Has
<1>6. replaced' \subseteq replaced
  BY DEF StartMove, AfterMove
<1>7. dirs' \subseteq {"workspace", "state", "extensions"}
  BY <1>2, <1>3 DEF Base, Types
<1>8. Types' /\ Listed'
  BY <1>3, <1>6, <1>7 DEF Base, Types, Listed
<1>9. /\ Command'
      /\ \/ Ended
         \/ /\ Ended = FALSE /\ cmd'.op = "update" /\ cmd'.at = "moving" /\ cmd'.into \in {"root", "nested"}
            /\ cmd'.into = "root" <=> MovePart \notin dirs
  <2>1. CASE Finish
    BY <2>1, FinishIs DEF Finish, Ended
  <2>2. ASSUME NEW into \in {"root", "nested"}, cmd' = [cmd EXCEPT !.at = "moving", !.into = into]
        PROVE  Command' /\ ~Ended /\ cmd'.op = "update" /\ cmd'.at = "moving" /\ cmd'.into = into
    <3>1. Where("update", "moving")
      BY DEF Where
    <3>2. QED
      BY <1>1, <2>2, <3>1, WhereIs DEF Base, Command, Ended
  <2>3. CASE cmd' = [cmd EXCEPT !.at = "moving", !.into = "root"] /\ MovePart \notin dirs
    BY <2>2, <2>3
  <2>4. CASE cmd' = [cmd EXCEPT !.at = "moving", !.into = "nested"] /\ MovePart \in dirs
    BY <2>2, <2>4
  <2>5. QED
    BY <2>1, <2>3, <2>4 DEF StartMove
<1>10. "moving" \notin SkillSteps
  BY DEF SkillSteps
<1>11. Found'
  BY <1>9, <1>10 DEF Found, Ended, SkillSteps, At
<1>12. QED
  BY <1>1, <1>3, <1>5, <1>8, <1>9, <1>11 DEF Base

LEMMA IntoIs ==
    ASSUME NEW items, Into(items), items \subseteq DOMAIN legacy
    PROVE  /\ cmd.into = "root" =>
                 /\ UNCHANGED nested
                 /\ DOMAIN root' = DOMAIN root \cup items
                 /\ \A i \in items : root'[i] = legacy[i]
                 /\ \A i \in DOMAIN root \ items : root'[i] = root[i]
           /\ cmd.into # "root" =>
                 /\ UNCHANGED root
                 /\ DOMAIN nested' = DOMAIN nested \cup items
                 /\ \A i \in items : nested'[i] = legacy[i]
                 /\ \A i \in DOMAIN nested \ items : nested'[i] = nested[i]
BY DEF Into, Over, Restrict

LEMMA IntoDirs ==
    ASSUME Types, NEW items, Into(items), items \subseteq DOMAIN legacy
    PROVE  Dir(root)' /\ Dir(nested)'
<1>1. Dir(Restrict(legacy, items))
  BY DirRestrict DEF Types
<1>2. Dir(Over(Restrict(legacy, items), root)) /\ Dir(Over(Restrict(legacy, items), nested))
  BY <1>1, DirOver DEF Types
<1>3. QED
  BY <1>2 DEF Into, Types

LEMMA MoveByRenameBase ==
    ASSUME Base, Course, MoveByRename
    PROVE  /\ Base' /\ Onto({"move"}) /\ cmd.op = "update" /\ At("moving")
           /\ DOMAIN legacy' = DOMAIN legacy \ ToMove
           /\ \A i \in DOMAIN legacy \ ToMove : legacy'[i] = legacy[i]
<1>1. At("moving") /\ cmd.op = "update"
  BY StepsOf DEF MoveByRename, Base, At
<1>2. Where("update", "move") /\ "move" \notin SkillSteps
  BY DEF Where, SkillSteps
<1>3. Command' /\ Onto({"move"})
  BY <1>1, <1>2, OntoIs DEF MoveByRename, Base
<1>4. /\ ToMove \subseteq DOMAIN legacy /\ \A i \in ToMove : Part[i] = MovePart
      /\ MovePart \in dirs
  BY <1>1, MovingIs, ToMoveIs DEF Base, Course
<1>5. Into(ToMove) /\ legacy' = Without(legacy, ToMove)
      /\ UNCHANGED <<dirs, backups, made, checkout, copied, archive, history, bounds>>
  BY DEF MoveByRename
<1>6. Dir(root)' /\ Dir(nested)' /\ Dir(legacy)'
  BY <1>4, <1>5, IntoDirs, DirWithout DEF Base, Types
<1>7. Placed'
  <2>1. "requirements" \notin ToMove
    BY <1>4, PartIs DEF Base, Types
  <2>2. QED
    BY <1>4, <1>5, <2>1, IntoIs DEF Base, Placed, Has
<1>8. Types' /\ Listed'
  BY <1>5, <1>6 DEF Base, Types, Listed, history
<1>9. Found'
  BY <1>1, <1>2, <1>3 DEF Found, Onto, Advances, At
<1>10. /\ DOMAIN legacy' = DOMAIN legacy \ ToMove
       /\ \A i \in DOMAIN legacy \ ToMove : legacy'[i] = legacy[i]
  BY <1>5, WithoutIs
<1>11. QED
  BY <1>1, <1>3, <1>7, <1>8, <1>9, <1>10 DEF Base

LEMMA MoveByCopyBase ==
    ASSUME Base, Course, MoveByCopy
    PROVE  Base' /\ UNCHANGED cmd /\ cmd.op = "update" /\ At("moving")
<1>1. At("moving") /\ cmd.op = "update" /\ UNCHANGED cmd
  BY StepsOf DEF MoveByCopy, Base, At
<1>2. /\ ToMove \subseteq DOMAIN legacy /\ \A i \in ToMove : Part[i] = MovePart
      /\ MovePart \in dirs
  BY <1>1, MovingIs, ToMoveIs DEF Base, Course
<1>3. PICK i \in ToMove \ There : Into({i})
  BY DEF MoveByCopy
<1>4. UNCHANGED <<dirs, backups, made, legacy, checkout, copied, archive, history, bounds>>
  BY DEF MoveByCopy
<1>5. {i} \subseteq DOMAIN legacy
  BY <1>2
<1>6. Dir(root)' /\ Dir(nested)'
  BY <1>3, <1>5, IntoDirs DEF Base
<1>7. Placed'
  <2>1. DOMAIN root' \subseteq DOMAIN root \cup {i}
    BY <1>3 DEF Into, Over, Restrict
  <2>2. i # "requirements"
    BY <1>2, PartIs DEF Base, Types
  <2>3. QED
    BY <1>2, <1>4, <2>1, <2>2 DEF Base, Placed, Has
<1>8. Types' /\ Listed'
  BY <1>4, <1>6 DEF Base, Types, Listed, history
<1>9. Found' /\ Command'
  BY <1>1 DEF Found, At, SkillSteps, Base, Command
<1>10. QED
  BY <1>1, <1>7, <1>8, <1>9 DEF Base

LEMMA RemoveMovedBase ==
    ASSUME Base, Course, RemoveMoved
    PROVE  /\ Base' /\ cmd.op = "update" /\ At("moving")
           /\ \E i \in ToMove :
                 /\ ToMove = {i} => Onto({"move"})
                 /\ ToMove # {i} => UNCHANGED cmd
                 /\ DOMAIN legacy' = DOMAIN legacy \ {i}
                 /\ \A j \in DOMAIN legacy \ {i} : legacy'[j] = legacy[j]
                 /\ replaced' = IF cmd.into = "root" /\ <<i, root[i]>> \in late THEN replaced
                                ELSE replaced \cup {<<i, legacy[i], made, "moved">>}
<1>1. At("moving") /\ cmd.op = "update"
  BY StepsOf DEF RemoveMoved, Base, At
<1>2. PICK i \in ToMove :
          /\ legacy' = Without(legacy, {i})
          /\ replaced' = IF cmd.into = "root" /\ <<i, root[i]>> \in late THEN replaced
                         ELSE replaced \cup {<<i, legacy[i], made, "moved">>}
          /\ IF ToMove = {i} THEN Goto("move") ELSE UNCHANGED cmd
  BY DEF RemoveMoved
<1>3. UNCHANGED <<root, dirs, backups, made, nested, checkout, copied, archive, late, halfway, bounds>>
  BY DEF RemoveMoved
<1>4. Where("update", "move") /\ "move" \notin SkillSteps /\ "moving" \notin SkillSteps
  BY DEF Where, SkillSteps
<1>5. /\ Command' /\ (ToMove = {i} => Onto({"move"})) /\ (ToMove # {i} => UNCHANGED cmd)
      /\ Onto({"move"}) \/ UNCHANGED cmd
  BY <1>1, <1>2, <1>4, OntoIs DEF Base, Command
<1>6. Dir(legacy)'
  BY <1>2, DirWithout DEF Base, Types
<1> DEFINE moved == <<i, legacy[i], made, "moved">>
<1>7. moved[3] = made /\ moved[4] = "moved" /\ made \in Nat /\ made' = made
  BY <1>3 DEF Base, Types
<1>8. \A r \in replaced' : r[3] \in Nat /\ r[3] <= made' /\ r[4] \in {"saved", "moved"}
  <2>1. replaced' \subseteq replaced \cup {moved}
    BY <1>2
  <2> HIDE DEF moved
  <2>2. QED
    BY <1>7, <2>1 DEF Base, Types
<1>9. Types' /\ Listed' /\ Placed'
  BY <1>3, <1>6, <1>8 DEF Base, Types, Listed, Placed, Has
<1>10. Found'
  BY <1>1, <1>4, <1>5 DEF Found, Onto, Advances, At
<1>11. /\ DOMAIN legacy' = DOMAIN legacy \ {i}
       /\ \A j \in DOMAIN legacy \ {i} : legacy'[j] = legacy[j]
  BY <1>2, WithoutIs
<1>12. QED
  BY <1>1, <1>2, <1>5, <1>9, <1>10, <1>11 DEF Base

LEMMA MovedBase ==
    ASSUME Base, Course, Moved
    PROVE  /\ Base' /\ Onto({"copyState"}) /\ cmd.op = "update" /\ At("move")
           /\ root' = Over(legacy, root)
           /\ \A i \in DOMAIN legacy : Part[i] = "requirements"
<1>1. At("move") /\ cmd.op = "update"
  BY StepsOf DEF Moved, Base, At
<1>2. Where("update", "copyState") /\ "copyState" \notin SkillSteps
  BY DEF Where, SkillSteps, SnapshotSteps
<1>3. Command' /\ Onto({"copyState"})
  BY <1>1, <1>2, OntoIs DEF Moved, Base
<1>4. /\ root' = Over(legacy, root) /\ legacy' = Empty /\ halfway' = "no" /\ replaced' \subseteq replaced
      /\ UNCHANGED <<dirs, backups, made, nested, checkout, copied, archive, late, bounds>>
      /\ \A i \in DOMAIN legacy : Part[i] = "requirements"
  BY DEF Moved, AfterMove, Moving
<1>5. Dir(root)' /\ Dir(legacy)'
  BY <1>4, DirOver, DirEmpty DEF Base, Types
<1>6. DOMAIN root' = DOMAIN root \cup DOMAIN legacy
  BY <1>4, OverIs
<1>7. Placed'
  <2>1. "state" \in dirs
    BY <1>1, <1>4 DEF Course, At, Gone, ItemsOf
  <2>2. QED
    BY <1>4, <1>6, <2>1 DEF Base, Placed, Has
<1>8. Types' /\ Listed'
  BY <1>4, <1>5 DEF Base, Types, Listed
<1>9. Found'
  BY <1>1, <1>2, <1>3 DEF Found, Onto, Advances, At
<1>10. QED
  BY <1>1, <1>3, <1>4, <1>7, <1>8, <1>9 DEF Base

(* Rotation; kills; what goes on beside the commands                       *)
LEMMA RotateBase ==
    ASSUME Base, Rotate
    PROVE  /\ Base' /\ cmd.op = "update" /\ At("rotate")
           /\ \/ /\ UNCHANGED cmd /\ Len(backups) \in Nat /\ Len(backups) > MaxSnapshots
                 /\ Len(backups)' = Len(backups) - 1
                 /\ DOMAIN backups = 1..Len(backups) /\ DOMAIN backups' = 1..Len(backups) - 1
                 /\ \A n \in DOMAIN backups' : backups'[n] = backups[n + 1]
              \/ UNCHANGED backups /\ Onto({"sync"})
<1>1. At("rotate") /\ cmd.op = "update"
  BY StepsOf DEF Rotate, Base, At
<1>2. UNCHANGED <<root, dirs, made, legacy, nested, checkout, copied, archive, history, bounds>>
  BY DEF Rotate
<1>3. PICK S : backups \in Seq(S)
  BY DEF Base, Listed
<1>4. CASE Len(backups) > MaxSnapshots
  <2>1. backups' = Tail(backups) /\ UNCHANGED cmd
    BY <1>4 DEF Rotate
  <2>2. Len(backups) \in Nat /\ MaxSnapshots \in Nat /\ MaxSnapshots >= 1
    BY <1>3, DataRootAssumption
  <2>3. backups # << >>
    BY <1>3, <1>4, <2>2
  <2>4. /\ backups' \in Seq(S) /\ Len(backups') = Len(backups) - 1
        /\ DOMAIN backups = 1..Len(backups) /\ DOMAIN backups' = 1..Len(backups) - 1
        /\ \A n \in DOMAIN backups' : backups'[n] = backups[n + 1]
    BY <1>3, <2>1, <2>2, <2>3
  <2>5. \A n \in DOMAIN backups' : Dir(backups'[n].data)
    <3>1. \A n \in DOMAIN backups : Dir(backups[n].data)
      BY DEF Base, Types
    <3>2. \A n \in DOMAIN backups' : n + 1 \in DOMAIN backups
      BY <2>2, <2>4
    <3>3. QED
      BY <2>4, <3>1, <3>2
  <2>6. made' \in Nat /\ Len(backups') <= made'
    BY <1>2, <2>2, <2>4 DEF Base, Types
  <2>7. Types' /\ Listed' /\ Placed'
    BY <1>2, <2>4, <2>5, <2>6 DEF Base, Types, Listed, Placed, Has, history
  <2>8. Command' /\ Found'
    BY <1>1, <2>1 DEF Base, Command, Found, At, SkillSteps
  <2>9. QED
    BY <1>1, <1>4, <2>1, <2>2, <2>4, <2>7, <2>8 DEF Base
<1>5. CASE ~(Len(backups) > MaxSnapshots)
  <2>1. Goto("sync") /\ UNCHANGED backups
    BY <1>5 DEF Rotate
  <2>2. Where("update", "sync") /\ "sync" \notin SkillSteps
    BY DEF Where, SkillSteps
  <2>3. Command' /\ Onto({"sync"})
    BY <1>1, <2>1, <2>2, OntoIs DEF Base
  <2>4. Types' /\ Listed' /\ Placed'
    BY <1>2, <2>1, SameBase, CountsKept DEF Base, Types, history
  <2>5. Found'
    BY <1>1, <2>2, <2>3 DEF Found, Onto, Advances, At
  <2>6. QED
    BY <1>1, <2>1, <2>3, <2>4, <2>5 DEF Base
<1>6. QED
  BY <1>4, <1>5

LEMMA KillBase ==
    ASSUME Base, Kill
    PROVE  Base' /\ Ended
<1>1. Command' /\ Ended
  BY FinishIs DEF Kill, Ended, Finish
<1>2. /\ UNCHANGED <<root, dirs, backups, made, legacy, nested, checkout, archive, late, halfway>>
      /\ copied' = Empty /\ replaced' \subseteq replaced /\ bounds' \in Counts
  BY CountedIs DEF Kill, AfterMove, Base
<1>3. Types' /\ Listed' /\ Placed'
  BY <1>2, DirEmpty DEF Base, Types, Listed, Placed, Has, Counts
<1>4. Found'
  BY <1>1, <1>2, FoundKept DEF Base, Has, KeysIn, Ended
<1>5. QED
  BY <1>1, <1>3, <1>4 DEF Base

(* What is written beside a command.                                       *)
Reaches(item) ==
    \/ Has(item)
    \/ item \in {"db", "notes"} /\ Part[item] \in dirs /\ ~At("moving")

LEMMA WriteBase ==
    ASSUME Base, NEW item \in {"db", "notes", "skill", "ext"}, NEW content, Write(item, content), Reaches(item),
           Fits(item, content)
    PROVE  /\ Base' /\ UNCHANGED cmd
           /\ DOMAIN root' = DOMAIN root \cup {item} /\ root'[item] = content
           /\ \A i \in DOMAIN root \ {item} : root'[i] = root[i]
<1>1. Put(item, content) /\ item \in Item /\ UNCHANGED cmd
  BY PartIs DEF Write
<1>2. /\ DOMAIN root' = DOMAIN root \cup {item} /\ root'[item] = content
      /\ \A i \in DOMAIN root \ {item} : root'[i] = root[i]
  BY <1>1, PutIs
<1>3. /\ UNCHANGED <<dirs, backups, made, legacy, nested, checkout, copied, archive, halfway>>
      /\ replaced' \subseteq replaced /\ bounds' \in Counts
      /\ late' \subseteq late \cup {<<item, content>>}
  BY CountedIs DEF Write, Base
<1>4. Dir(root)'
  BY <1>1, DirPut DEF Base
<1>5. \A w \in late' : w[1] \in {"db", "notes", "skill", "ext"}
  BY <1>3 DEF Base, Types
<1>6. Part[item] \in dirs
  BY PartIs DEF Reaches, Has, Base, Placed
<1>7. Types' /\ Listed' /\ Placed'
  BY <1>2, <1>3, <1>4, <1>5, <1>6 DEF Base, Types, Listed, Placed, Has, Counts
<1>8. Has("config")' = Has("config") /\ KeysIn' = KeysIn /\ Has("jobs")' = Has("jobs")
  BY <1>2 DEF Has, KeysIn
<1>9. Found'
  BY <1>1, <1>3, <1>8 DEF Base, Found, At, Environment
<1>10. Command'
  BY <1>1 DEF Base, Command
<1>11. QED
  BY <1>1, <1>2, <1>7, <1>9, <1>10 DEF Base

(* Whatever is written, it is the service or the user, at one of these.    *)
LEMMA Beside ==
    ASSUME Base, Serve \/ Edit
    PROVE  \E item \in {"db", "notes", "skill", "ext"} :
              /\ Write(item, root'[item]) /\ Reaches(item) /\ Fits(item, root'[item])
              /\ item = "skill" => root[item].whole
<1>1. bounds.writes \in Nat
  BY DEF Base, Types
<1>2. ASSUME NEW item, NEW content, Write(item, content)
      PROVE  root'[item] = content
  BY <1>2, PutIs DEF Write
<1>3. CASE Serve
  <2>1. PICK item \in {"db", "notes"} :
            /\ Has(item) \/ (Part[item] \in dirs /\ ~At("moving"))
            /\ Write(item, bounds.writes + 1)
    BY <1>3 DEF Serve
  <2>2. Write(item, root'[item]) /\ Reaches(item)
    BY <1>2, <2>1 DEF Reaches
  <2>3. Fits(item, root'[item]) /\ item # "skill"
    BY DEF Fits
  <2>4. QED
    BY <2>1, <2>2, <2>3
<1>4. CASE Edit
  <2>1. PICK item \in {"skill", "ext"} :
            /\ Has(item) /\ root[item].whole
            /\ \/ Write(item, [root[item] EXCEPT !.edit = bounds.writes + 1])
               \/ Write(item, [root[item] EXCEPT !.hidden = bounds.writes + 1])
    BY <1>4 DEF Edit
  <2>2. root[item] \in TreeType
    BY <2>1 DEF Base, Types, Dir, Fits, Has
  <2>3. PICK tree \in TreeType : Write(item, tree)
    BY <1>1, <2>1, <2>2 DEF TreeType
  <2>4. Fits(item, tree) /\ root'[item] = tree
    BY <1>2, <2>3 DEF Fits
  <2>5. QED
    BY <2>1, <2>3, <2>4 DEF Reaches
<1>5. QED
  BY <1>3, <1>4

LEMMA DeleteSkillBase ==
    ASSUME Base, DeleteSkill
    PROVE  /\ Base' /\ UNCHANGED cmd /\ ~Running
           /\ DOMAIN root' = DOMAIN root \ {"skill"} /\ \A i \in DOMAIN root \ {"skill"} : root'[i] = root[i]
<1>1. /\ root' = Without(root, {"skill"}) /\ bounds' \in Counts /\ ~Running /\ UNCHANGED cmd
      /\ UNCHANGED <<dirs, backups, made, legacy, nested, checkout, copied, archive, history>>
  BY CountedIs DEF DeleteSkill, Base
<1>2. DOMAIN root' = DOMAIN root \ {"skill"} /\ \A i \in DOMAIN root \ {"skill"} : root'[i] = root[i]
  BY <1>1, WithoutIs
<1>3. Dir(root)'
  BY <1>1, DirWithout DEF Base, Types
<1>4. Types' /\ Listed' /\ Placed'
  BY <1>1, <1>2, <1>3 DEF Base, Types, Listed, Placed, Has, Counts, history
<1>5. Found' /\ Command'
  <2>1. At("idle") /\ cmd.op = "none"
    BY <1>1, StepsOf DEF Base, Running
  <2>2. QED
    BY <1>1, <2>1 DEF Found, Base, Command, At, SkillSteps
<1>6. QED
  BY <1>1, <1>2, <1>4, <1>5 DEF Base

LEMMA UpgradeBase ==
    ASSUME Base, Upgrade \/ Rebuild
    PROVE  Base' /\ UNCHANGED <<cmd, root>> /\ ~Running /\ checkout'.extension = checkout.extension
<1>1. /\ bounds' \in Counts /\ ~Running /\ UNCHANGED cmd
      /\ UNCHANGED <<root, dirs, backups, made, legacy, nested, copied, archive, history>>
  BY CountedIs DEF Upgrade, Rebuild, Base
<1> DEFINE Checkouts == [version : Nat, home : {"templates", "contrib"}, extension : Kinds, installed : BOOLEAN]
<1>3. checkout \in Checkouts
  BY DEF Base, Types
<1>4. checkout' \in Checkouts /\ checkout'.extension = checkout.extension
  <2>1. CASE Upgrade
    <3>1. PICK home \in {checkout.home, "contrib"} :
              checkout' = [checkout EXCEPT !.version = @ + 1, !.home = home]
      BY <2>1 DEF Upgrade
    <3>2. checkout.version \in Nat /\ checkout.version + 1 \in Nat /\ home \in {"templates", "contrib"}
      BY <1>3
    <3>3. checkout' = [version |-> checkout.version + 1, home |-> home, extension |-> checkout.extension,
                       installed |-> checkout.installed]
      BY <1>3, <3>1
    <3>4. QED
      BY <1>3, <3>2, <3>3
  <2>2. CASE Rebuild
    <3>1. PICK built \in BOOLEAN : checkout' = [checkout EXCEPT !.installed = built]
      BY <2>2 DEF Rebuild
    <3>2. checkout' = [version |-> checkout.version, home |-> checkout.home, extension |-> checkout.extension,
                       installed |-> built]
      BY <1>3, <3>1
    <3>3. QED
      BY <1>3, <3>2
  <2>3. QED
    BY <2>1, <2>2
<1>5. Types' /\ Listed' /\ Placed'
  BY <1>1, <1>4 DEF Base, Types, Listed, Placed, Has, Counts, history
<1>6. Found' /\ Command'
  <2>1. At("idle") /\ cmd.op = "none"
    BY <1>1, StepsOf DEF Base, Running
  <2>2. QED
    BY <1>1, <2>1 DEF Found, Base, Command, At, SkillSteps
<1>7. QED
  BY <1>1, <1>4, <1>5, <1>6 DEF Base

LEMMA StutterBase ==
    ASSUME Base, UNCHANGED vars
    PROVE  Base'
BY DEF Base, Listed, Command, Types, Placed, Found, vars, history, At, Has, Environment, KeysIn

-----------------------------------------------------------------------------
(* What every step keeps: the course of the commands                       *)

LEMMA ElsewhereCourse ==
    ASSUME cmd'.at \notin {"staging", "swap", "place", "requirement", "defaultJobs", "writingJobs",
                           "recordExtension", "recordingExtension", "extract", "restored", "move",
                           "moving"}
    PROVE  Course'
BY DEF Course, RecordSteps, At

LEMMA FirstPartStays ==
    ASSUME NEW items, items \subseteq Item, NEW rest, rest \subseteq items,
           ItemsOf(FirstPart(items)) \cap rest # {}
    PROVE  FirstPart(rest) = FirstPart(items)
<1>1. items # {}
  OBVIOUS
<1>2. /\ FirstPart(items) \in {"workspace", "state", "extensions", "requirements"}
      /\ FirstPart(items) # "workspace" => ItemsOf("workspace") \cap items = {}
      /\ FirstPart(items) \in {"extensions", "requirements"} => ItemsOf("state") \cap items = {}
      /\ FirstPart(items) = "requirements" => ItemsOf("extensions") \cap items = {}
  BY <1>1, FirstPartIs
<1>3. QED
  BY <1>2 DEF FirstPart

LEMMA SkillCourse ==
    ASSUME Base, Course, Skill
    PROVE  Base' /\ Course'
<1>1. CASE SyncSkill
  <2>1. Base' /\ (Ended \/ Onto(SkillAfter))
    BY <1>1, SyncSkillBase
  <2>2. CASE "workspace" \notin dirs
    <3>1. Ended
      BY <1>1, <2>2, FinishIs DEF SyncSkill, Ended
    <3>2. QED
      BY <2>1, <3>1, ElsewhereCourse DEF Ended
  <2>3. CASE "workspace" \in dirs /\ cmd' = AfterSkill
    <3>1. Ended \/ Onto({"heartbeatJob", "config"})
      BY <1>1, <2>3, StepsOf, AfterSkillIs DEF SyncSkill, Base, At
    <3>2. QED
      BY <2>1, <3>1, ElsewhereCourse DEF Ended, Onto
  <2>4. CASE "workspace" \in dirs /\ \E step \in {"copyTree", "stage", "recordSkill"} : Goto(step)
    <3>1. cmd'.at \in {"copyTree", "stage", "recordSkill"}
      BY <2>4 DEF Goto, Base, Command
    <3>2. QED
      BY <2>1, <3>1, ElsewhereCourse
  <2>5. QED
    BY <1>1, <2>2, <2>3, <2>4 DEF SyncSkill, Goto
<1>2. CASE CopyTree
  BY <1>2, CopyTreeBase, ElsewhereCourse DEF Onto
<1>3. CASE Stage
  <2>1. Base' /\ Onto({"staging", "swap"})
    BY <1>3, StageBase
  <2>2. Has("skillNew")'
    BY <1>3, PutIs DEF Stage, InPlace, Has
  <2>3. Course'
    BY <2>1, <2>2 DEF Course, Onto, At, RecordSteps
  <2>4. QED
    BY <2>1, <2>3
<1>4. CASE Aside
  <2>1. Base' /\ Onto({"place"})
    BY <1>4, AsideBase
  <2>2. Has("skillNew")'
    BY <1>4 DEF Aside, Course, Has, At, With, Without, Restrict
  <2>3. Course'
    BY <2>1, <2>2 DEF Course, Onto, At, RecordSteps
  <2>4. QED
    BY <2>1, <2>3
<1>5. CASE Place
  <2>1. Has("skillNew")
    BY <1>5 DEF Place, Course, At
  <2>2. QED
    BY <1>5, <2>1, PlaceBase, ElsewhereCourse DEF Onto
<1>6. CASE DropOld
  BY <1>6, DropOldBase, ElsewhereCourse DEF Onto
<1>7. CASE RecordSkill
  BY <1>7, RecordSkillBase, ElsewhereCourse DEF Onto, Ended
<1>8. CASE \E force \in BOOLEAN : InstallSkill(force)
  BY <1>8, InstallSkillBase, ElsewhereCourse
<1>9. QED
  BY <1>1, <1>2, <1>3, <1>4, <1>5, <1>6, <1>7, <1>8 DEF Skill

LEMMA ExtensionCourse ==
    ASSUME Base, Course, Extension
    PROVE  Base' /\ Course'
<1>1. CASE BeginUpdateExtension
  BY <1>1, BeginUpdateExtensionBase, ElsewhereCourse
<1>2. CASE Bak
  BY <1>2, BakBase, ElsewhereCourse DEF Onto
<1>3. CASE ReplaceExtension
  BY <1>3, ReplaceExtensionBase DEF Onto, Advances, Course, At
<1>4. CASE BeginWizard
  BY <1>4, BeginWizardBase, ElsewhereCourse
<1>5. CASE RefuseExtension
  BY <1>5, RefuseExtensionBase, ElsewhereCourse DEF Ended
<1>6. CASE CopyExtension
  <2>1. Base' /\ cmd.op = "wizard" /\ cmd'.op = "wizard"
        /\ (Onto({"copyingExtension"}) \/ Onto({After("copyExtension")}))
    BY <1>6, CopyExtensionBase DEF Onto, Advances, CopyExtension, InPlace
  <2>2. "extensions" \in dirs' /\ checkout' = checkout
    BY <1>6 DEF CopyExtension
  <2>3. /\ After("copyExtension") \in {"requirement", "recordExtension"}
        /\ checkout.extension \in {"search", "voice"} => After("copyExtension") = "recordExtension"
    BY AfterIs DEF Base, Types, Kinds, ChannelKinds
  <2>4. Course'
    BY <2>1, <2>2, <2>3 DEF Course, Onto, Advances, At, RecordSteps
  <2>5. QED
    BY <2>1, <2>4
<1>7. CASE AddRequirement
  <2>1. checkout.extension \in {"telegram", "discord"} /\ "extensions" \in dirs
    BY <1>7, StepsOf DEF AddRequirement, Base, Types, Course, At, Kinds, ChannelKinds
  <2>2. Base' /\ Onto({"recordExtension"}) /\ cmd.op = "wizard"
    BY <1>7, <2>1, AddRequirementBase
  <2>3. "extensions" \in dirs'
    BY <1>7, <2>1 DEF AddRequirement, others
  <2>4. Course'
    BY <2>2, <2>3 DEF Course, Onto, At, RecordSteps
  <2>5. QED
    BY <2>2, <2>4
<1>8. CASE RecordExtension
  <2>1. cmd.op \in {"extension", "wizard"} /\ cmd.at \in RecordSteps /\ "extensions" \in dirs
    BY <1>8, StepsOf DEF RecordExtension, Base, At, RecordSteps, Course, Found
  <2>2. /\ Base'
        /\ At("recordExtension") => Onto({"recordingExtension"})
        /\ At("recordingExtension") /\ cmd.op = "extension" => Ended
        /\ At("recordingExtension") /\ cmd.op = "wizard" => Onto({After("recordExtension")})
    BY <1>8, <2>1, RecordExtensionBase
  <2>3. After("recordExtension") \in {"secret", "enable"}
    BY AfterIs DEF Base, Types, Kinds, ChannelKinds
  <2>4. "extensions" \in dirs'
    BY <1>8, <2>1 DEF RecordExtension, others
  <2>5. Ended \/ cmd'.at \in {"recordingExtension", "secret", "enable"}
    BY <2>1, <2>2, <2>3 DEF Onto, RecordSteps, At
  <2>6. Course'
    BY <2>4, <2>5 DEF Course, Ended, At, RecordSteps
  <2>7. QED
    BY <2>2, <2>6
<1>9. QED
  BY <1>1, <1>2, <1>3, <1>4, <1>5, <1>6, <1>7, <1>8 DEF Extension

LEMMA WizardsCourse ==
    ASSUME Base, Course, Wizards
    PROVE  Base' /\ Course'
<1>1. CASE SaveSecret
  <2>1. Base' /\ Onto({After("secret")})
    BY <1>1, SaveSecretBase
  <2>2. After("secret") \in {"copyExtension", "enable"}
    BY AfterIs DEF Base, Types, Kinds, ChannelKinds
  <2>3. QED
    BY <2>1, <2>2, ElsewhereCourse DEF Onto
<1>2. CASE Enable
  <2>1. /\ Base' /\ cmd.op = "wizard"
        /\ checkout.extension \in {"telegram", "discord"} => Onto({"defaultJobs"})
        /\ checkout.extension \in {"search", "voice"} => Ended
    BY <1>2, EnableBase
  <2>2. checkout.extension \in {"telegram", "discord", "search", "voice"} /\ checkout' = checkout
    BY <1>2 DEF Base, Types, Enable, others, Kinds, ChannelKinds
  <2>3. CASE checkout.extension \in {"telegram", "discord"}
    BY <2>1, <2>2, <2>3 DEF Course, Onto, At, RecordSteps
  <2>4. CASE checkout.extension \in {"search", "voice"}
    BY <2>1, <2>4, ElsewhereCourse DEF Ended
  <2>5. QED
    BY <2>2, <2>3, <2>4
<1>3. CASE DefaultJobs
  <2>1. Base' /\ cmd.op = "wizard" /\ (Ended \/ (Onto({"writingJobs"}) /\ At("defaultJobs")))
    BY <1>3, DefaultJobsBase
  <2>2. CASE Ended
    BY <2>1, <2>2, ElsewhereCourse DEF Ended
  <2>3. CASE Onto({"writingJobs"}) /\ At("defaultJobs")
    <3>1. checkout'.extension \notin {"search", "voice"}
      BY <1>3, <2>1, <2>3 DEF DefaultJobs, Course, At
    <3>2. QED
      BY <2>1, <2>3, <3>1 DEF Course, Onto, At, RecordSteps
  <2>4. QED
    BY <2>1, <2>2, <2>3
<1>4. CASE \E key \in Key : BeginProviderWizard(key)
  BY <1>4, BeginProviderWizardBase, ElsewhereCourse
<1>5. CASE SetSlots
  BY <1>5, SetSlotsBase, ElsewhereCourse DEF Onto, Ended
<1>6. QED
  BY <1>1, <1>2, <1>3, <1>4, <1>5 DEF Wizards

LEMMA RestCourse ==
    ASSUME Base, Course, MigrateHeartbeat \/ RunInit \/ CreateMissing
    PROVE  Base' /\ Course'
<1>1. CASE MigrateHeartbeat
  BY <1>1, MigrateHeartbeatBase DEF Course, Onto, Advances, Ended, At, RecordSteps
<1>2. CASE RunInit
  BY <1>2, RunInitBase, ElsewhereCourse
<1>3. CASE CreateMissing
  BY <1>3, CreateMissingBase, ElsewhereCourse DEF Onto, Ended
<1>4. QED
  BY <1>1, <1>2, <1>3

LEMMA SnapshotCourse ==
    ASSUME Base, Course, RunBackup \/ SnapshotData
    PROVE  Base' /\ Course' /\ (cmd'.at \in SnapshotSteps \cup {"clear", "rotate"} \/ Ended)
<1>1. CASE RunBackup
  BY <1>1, RunBackupBase, ElsewhereCourse DEF SnapshotSteps
<1>2. CASE CopyPart("copyState", {"state"}, "copyWorkspace")
  BY <1>2, CopyPartBase, ElsewhereCourse DEF SnapshotSteps, Onto
<1>3. CASE CopyPart("copyWorkspace", {"workspace"}, "copyRest")
  BY <1>3, CopyPartBase, ElsewhereCourse DEF SnapshotSteps, Onto
<1>4. CASE CopyPart("copyRest", {"extensions", "requirements"}, "tar")
  BY <1>4, CopyPartBase, ElsewhereCourse DEF SnapshotSteps, Onto
<1>5. CASE OpenTarball
  BY <1>5, OpenTarballBase, ElsewhereCourse DEF SnapshotSteps, Onto
<1>6. CASE WriteTarball
  BY <1>6, WriteTarballBase, ElsewhereCourse DEF SnapshotSteps, Onto, Ended
<1>7. QED
  BY <1>1, <1>2, <1>3, <1>4, <1>5, <1>6 DEF SnapshotData

LEMMA RestoreCourse ==
    ASSUME Base, Course, Restore
    PROVE  Base' /\ Course'
<1>1. CASE \E n \in DOMAIN backups, force \in BOOLEAN : RunRestore(n, force)
  BY <1>1, RunRestoreBase, ElsewhereCourse
<1>2. CASE ClearItem
  BY <1>2, ClearItemBase, ElsewhereCourse DEF At
<1>3. CASE Cleared
  <2>1. /\ Base' /\ cmd'.op = "restore" /\ cmd'.at = "extract"
        /\ cmd'.left = {i \in DOMAIN archive.data : Part[i] \in Target} /\ "state" \in dirs'
    BY <1>3, ClearedBase
  <2>2. cmd'.left \subseteq DOMAIN archive'.data
    BY <1>3, <2>1 DEF Cleared
  <2>3. QED
    BY <2>1, <2>2 DEF Course, At, RecordSteps
<1>4. CASE Extract
  <2>1. /\ Base' /\ cmd'.op = "restore" /\ cmd'.at = "extract"
        /\ cmd'.left = cmd.left \ {NextMember} /\ dirs \subseteq dirs'
    BY <1>4, ExtractBase
  <2>2. cmd'.left \subseteq DOMAIN archive'.data /\ "state" \in dirs'
    BY <1>4, <2>1 DEF Extract, Course, At
  <2>3. QED
    BY <2>1, <2>2 DEF Course, At, RecordSteps
<1>5. CASE Restored
  <2>1. Base' /\ Onto({"restored"}) /\ cmd.op = "restore" /\ At("extract")
    BY <1>5, RestoredBase
  <2>2. cmd'.left \subseteq DOMAIN archive'.data /\ "state" \in dirs'
    BY <1>5, <2>1 DEF Restored, Course, At, Onto, Advances
  <2>3. QED
    BY <2>1, <2>2 DEF Course, At, RecordSteps, Onto, Advances
<1>6. CASE EndRestore
  BY <1>6, EndRestoreBase, ElsewhereCourse DEF Ended
<1>7. QED
  BY <1>1, <1>2, <1>3, <1>4, <1>5, <1>6 DEF Restore

LEMMA UpdateCourse ==
    ASSUME Base, Course, Update
    PROVE  Base' /\ Course'
<1>1. CASE RunUpdate
  <2>1. Base' /\ cmd'.op = "update" /\ cmd'.at = (IF "state" \in dirs THEN "copyState" ELSE "move")
    BY <1>1, RunUpdateBase
  <2>2. CASE "state" \in dirs
    BY <2>1, <2>2, ElsewhereCourse
  <2>3. CASE "state" \notin dirs
    <3>1. PICK i \in DOMAIN legacy : Part[i] = "state"
      BY <1>1, <2>3 DEF RunUpdate
    <3>2. i \in ItemsOf("state") \cap DOMAIN legacy
      BY <3>1 DEF Base, Types, Dir, ItemsOf, Item
    <3>3. ~Gone("state")' 
      BY <1>1, <3>2 DEF RunUpdate, Gone
    <3>4. QED
      BY <2>1, <2>3, <3>3 DEF Course, At, RecordSteps
  <2>4. QED
    BY <2>2, <2>3
<1>2. CASE StartMove
  <2>1. /\ Base'
        /\ \/ Ended
           \/ /\ Ended = FALSE /\ cmd'.op = "update" /\ cmd'.at = "moving" /\ cmd'.into \in {"root", "nested"}
              /\ cmd'.into = "root" <=> MovePart \notin dirs
        /\ dirs' = dirs \cup {MovePart} /\ dirs \subseteq dirs' /\ MovePart \in dirs'
    BY <1>2, StartMoveBase
  <2>2. CASE Ended
    BY <2>1, <2>2, ElsewhereCourse DEF Ended
  <2>3. CASE cmd'.op = "update" /\ cmd'.at = "moving"
    <3>1. ~Gone(MovePart) /\ At("move")
      BY <1>2, ToMoveIs DEF StartMove, Base
    <3>2. legacy' = legacy
      BY <1>2 DEF StartMove
    <3>3. MovePart' = MovePart /\ ~Gone(MovePart)' /\ ("state" \in dirs' \/ ~Gone("state")')
      BY <2>1, <3>1, <3>2 DEF MovePart, Gone, Course, At
    <3>4. QED
      BY <2>1, <2>3, <3>3 DEF Course, At, RecordSteps
  <2>4. QED
    BY <2>1, <2>2, <2>3
<1>3. CASE MoveByRename
  <2>1. /\ Base' /\ Onto({"move"}) /\ cmd.op = "update" /\ At("moving")
        /\ DOMAIN legacy' = DOMAIN legacy \ ToMove /\ dirs' = dirs
    BY <1>3, MoveByRenameBase DEF MoveByRename
  <2>2. "state" \in dirs' \/ ~Gone("state")'
    BY <2>1 DEF Course, At, Gone, ToMove, ItemsOf
  <2>3. QED
    BY <2>1, <2>2 DEF Course, Onto, Advances, At, RecordSteps
<1>4. CASE MoveByCopy
  BY <1>4, MoveByCopyBase DEF MoveByCopy, Course, At, Gone, MovePart, RecordSteps
<1>5. CASE RemoveMoved
  <2>1. /\ Base' /\ cmd.op = "update" /\ At("moving") /\ dirs' = dirs
        /\ \E i \in ToMove :
              /\ ToMove = {i} => Onto({"move"})
              /\ ToMove # {i} => UNCHANGED cmd
              /\ DOMAIN legacy' = DOMAIN legacy \ {i}
    BY <1>5, RemoveMovedBase DEF RemoveMoved
  <2>2. PICK i \in ToMove :
              /\ ToMove = {i} => Onto({"move"})
              /\ ToMove # {i} => UNCHANGED cmd
              /\ DOMAIN legacy' = DOMAIN legacy \ {i}
    BY <2>1
  <2>3. "state" \in dirs' \/ ~Gone("state")'
    BY <2>1, <2>2 DEF Course, At, Gone, ToMove, ItemsOf
  <2>4. CASE ToMove = {i}
    BY <2>1, <2>2, <2>3, <2>4 DEF Course, Onto, Advances, At, RecordSteps
  <2>5. CASE ToMove # {i}
    <3>1. PICK j \in ToMove : j # i
      BY <2>5
    <3>2. j \in ItemsOf(MovePart) \cap DOMAIN legacy' /\ DOMAIN legacy \subseteq Item
      BY <2>2, <3>1 DEF ToMove, Base, Types, Dir
    <3>3. ItemsOf(FirstPart(DOMAIN legacy)) \cap DOMAIN legacy' # {} /\ DOMAIN legacy' \subseteq DOMAIN legacy
      BY <2>2, <3>2 DEF MovePart
    <3>4. MovePart' = MovePart
      BY <3>2, <3>3, FirstPartStays DEF MovePart
    <3>5. ~Gone(MovePart)' /\ MovePart \in dirs'
      BY <2>1, <3>2, <3>4 DEF Gone, Course, At
    <3>6. QED
      BY <2>1, <2>2, <2>3, <2>5, <3>4, <3>5 DEF Course, At, RecordSteps
  <2>6. QED
    BY <2>4, <2>5
<1>6. CASE Moved
  BY <1>6, MovedBase, ElsewhereCourse DEF Onto
<1>7. CASE Rotate
  BY <1>7, RotateBase, ElsewhereCourse DEF Onto, At
<1>8. QED
  BY <1>1, <1>2, <1>3, <1>4, <1>5, <1>6, <1>7 DEF Update

LEMMA BesideCourse ==
    ASSUME Base, Course, Serve \/ Edit
    PROVE  Base' /\ Course'
<1>1. PICK item \in {"db", "notes", "skill", "ext"} :
          Write(item, root'[item]) /\ Reaches(item) /\ Fits(item, root'[item])
  BY Beside
<1>2. Base' /\ UNCHANGED cmd /\ (Has("skillNew") => Has("skillNew")')
  BY <1>1, WriteBase DEF Has
<1>3. UNCHANGED <<dirs, legacy, checkout, archive>>
  BY <1>1 DEF Write
<1>4. Course'
  BY <1>2, <1>3 DEF Course, At, Has, Gone, MovePart
<1>5. QED
  BY <1>2, <1>4

LEMMA IdleCourse ==
    ASSUME Base, Course, Kill \/ DeleteSkill \/ Upgrade \/ Rebuild
    PROVE  Base' /\ Course'
<1>1. CASE Kill
  BY <1>1, KillBase, ElsewhereCourse DEF Ended
<1>2. ASSUME ~Running, UNCHANGED cmd
      PROVE  Course'
  <2>1. At("idle")
    BY <1>2, StepsOf DEF Base
  <2>2. QED
    BY <1>2, <2>1, ElsewhereCourse DEF At
<1>3. CASE DeleteSkill
  BY <1>2, <1>3, DeleteSkillBase
<1>4. CASE Upgrade \/ Rebuild
  BY <1>2, <1>4, UpgradeBase
<1>5. QED
  BY <1>1, <1>3, <1>4

LEMMA StutterCourse ==
    ASSUME Course, UNCHANGED vars
    PROVE  Course'
BY DEF Course, vars, history, At, Has, Gone, MovePart

LEMMA BaseInit ==
    ASSUME Init
    PROVE  Base /\ Course
<1>1. PICK b \in Beginnings :
          /\ root = b.root /\ dirs = b.dirs /\ backups = b.backups /\ legacy = b.legacy
          /\ checkout = [version |-> 1, home |-> b.home, extension |-> b.extension,
                         installed |-> b.installed]
          /\ made = Len(b.backups)
  BY DEF Init
<1>2. /\ Dir(b.root) /\ Dir(b.legacy) /\ b.backups \in Seq(Range(b.backups))
      /\ \A n \in DOMAIN b.backups : Dir(b.backups[n].data)
      /\ b.dirs \subseteq {"workspace", "state", "extensions"}
      /\ "extensions" \in b.dirs \/ "requirements" \in DOMAIN b.root => "state" \in b.dirs
      /\ \A i \in DOMAIN b.root : Part[i] \in b.dirs \cup {"requirements"}
      /\ b.home \in {"templates", "contrib"}
      /\ b.extension \in Kinds /\ b.installed \in BOOLEAN
  BY BeginningsAssumption
<1>3. /\ nested = Empty /\ cmd = Idle /\ copied = Empty
      /\ archive = [data |-> Empty, whole |-> FALSE, old |-> FALSE, half |-> "no"]
      /\ replaced = {} /\ late = {} /\ halfway = "no"
      /\ bounds = [commands |-> 0, kills |-> 0, writes |-> 0, upgrades |-> 0]
  BY DEF Init
<1>4. Listed
  BY <1>1, <1>2 DEF Listed
<1>5. Len(backups) \in Nat
  BY <1>1, <1>2
<1>6. /\ Dir(root) /\ Dir(legacy) /\ Dir(nested) /\ Dir(copied) /\ Dir(archive.data)
      /\ \A n \in DOMAIN backups : Dir(backups[n].data)
  BY <1>1, <1>2, <1>3, DirEmpty
<1>7. /\ checkout \in [version : Nat, home : {"templates", "contrib"},
                       extension : Kinds, installed : BOOLEAN]
      /\ bounds \in [commands : Nat, kills : Nat, writes : Nat, upgrades : Nat]
  BY <1>1, <1>2, <1>3
<1>8. Types
  BY <1>1, <1>2, <1>3, <1>5, <1>6, <1>7 DEF Types
<1>9. Placed
  BY <1>1, <1>2 DEF Placed, Has
<1>10. cmd.op = "none" /\ cmd.at = "idle" /\ Command
  <2>1. Where("none", "idle") /\ "none" \in Key \cup {"none"} /\ FALSE \in BOOLEAN
    BY DEF Where
  <2>2. QED
    BY <1>3, <2>1, WhereIs, Fresh DEF Command, Idle
<1>11. Found /\ Course
  BY <1>10 DEF Found, Course, SkillSteps, RecordSteps, At
<1>12. QED
  BY <1>4, <1>8, <1>9, <1>10, <1>11 DEF Base

LEMMA BaseStep ==
    ASSUME Base, Course, [Next]_vars
    PROVE  Base' /\ Course'
<1>1. CASE RunBackup \/ SnapshotData
  BY <1>1, SnapshotCourse
<1>2. CASE Restore
  BY <1>2, RestoreCourse
<1>3. CASE Update
  BY <1>3, UpdateCourse
<1>4. CASE Skill
  BY <1>4, SkillCourse
<1>5. CASE MigrateHeartbeat \/ RunInit \/ CreateMissing
  BY <1>5, RestCourse
<1>6. CASE Extension
  BY <1>6, ExtensionCourse
<1>7. CASE Wizards
  BY <1>7, WizardsCourse
<1>8. CASE Serve \/ Edit
  BY <1>8, BesideCourse
<1>9. CASE Kill \/ DeleteSkill \/ Upgrade \/ Rebuild
  BY <1>9, IdleCourse
<1>10. CASE UNCHANGED vars
  BY <1>10, StutterBase, StutterCourse
<1>11. QED
  BY <1>1, <1>2, <1>3, <1>4, <1>5, <1>6, <1>7, <1>8, <1>9, <1>10 DEF Next

(* The type invariant of Housekeeping: the data root, the checkout and     *)
(* what was moved hold known items only, and there are never more tarballs *)
(* than were made.                                                         *)
THEOREM HousekeepingTypes == Spec => []TypeOK
<1>1. Init => Base /\ Course
  BY BaseInit
<1>2. Base /\ Course /\ [Next]_vars => Base' /\ Course'
  BY BaseStep
<1>3. Base => TypeOK
  BY DEF Base, Types, TypeOK, Dir, Item
<1>4. QED
  BY <1>1, <1>2, <1>3, PTL DEF Spec

-----------------------------------------------------------------------------
(* Which command a step belongs to                                         *)

LEMMA StaysOp ==
    ASSUME Command, cmd' = Idle \/ (\E step : Goto(step)) \/ UNCHANGED cmd
    PROVE  /\ cmd'.op \in {"none", cmd.op}
           /\ cmd'.op # "none" =>
                 cmd'.force = cmd.force /\ cmd'.stateless = cmd.stateless /\ cmd'.left = cmd.left
<1>1. CASE cmd' = Idle
  BY <1>1 DEF Idle
<1>2. CASE \E step : Goto(step)
  <2>1. PICK step : Goto(step)
    BY <1>2
  <2>2. QED
    BY <2>1 DEF Goto, Command
<1>3. QED
  BY <1>1, <1>2

LEMMA SkillOp ==
    ASSUME Base, Course, Skill
    PROVE  /\ cmd'.op \in {"none", "update", "init", "install"}
           /\ cmd'.op = "update" => cmd.op = "update"
<1>1. CASE \E force \in BOOLEAN : InstallSkill(force)
  BY <1>1, InstallSkillBase
<1>2. CASE SyncSkill \/ CopyTree \/ Stage \/ Aside \/ Place \/ DropOld \/ RecordSkill
  <2>1. cmd.at \in SkillSteps \cup {"sync"}
    BY <1>2 DEF SyncSkill, CopyTree, Stage, Aside, Place, DropOld, RecordSkill, InPlace, At, SkillSteps
  <2>2. cmd.op \in {"update", "init", "install"}
    BY <2>1, StepsOf DEF Base
  <2>3. cmd' = AfterSkill => cmd' = Idle \/ \E step : Goto(step)
    BY <2>2 DEF AfterSkill, Goto
  <2>4. cmd' = Idle \/ \E step : Goto(step)
    BY <1>2, <2>3 DEF SyncSkill, CopyTree, Stage, Aside, Place, DropOld, RecordSkill, InPlace, Goto
  <2>5. QED
    BY <2>2, <2>4, StaysOp DEF Base
<1>3. QED
  BY <1>1, <1>2 DEF Skill

LEMMA RestOp ==
    ASSUME Base, MigrateHeartbeat \/ RunInit \/ CreateMissing
    PROVE  /\ cmd'.op \in {"none", "update", "init"}
           /\ cmd'.op = "update" => cmd'.at = "writingJobs"
<1>1. CASE MigrateHeartbeat
  BY <1>1, MigrateHeartbeatBase DEF Ended, Onto, Advances
<1>2. CASE RunInit
  BY <1>2, RunInitBase
<1>3. CASE CreateMissing
  BY <1>3, CreateMissingBase DEF Ended, Onto, Advances
<1>4. QED
  BY <1>1, <1>2, <1>3

LEMMA ExtensionOp ==
    ASSUME Base, Extension
    PROVE  cmd'.op \in {"none", "extension", "wizard"}
<1>1. CASE BeginUpdateExtension \/ BeginWizard
  BY <1>1, BeginUpdateExtensionBase, BeginWizardBase
<1>2. CASE Bak \/ RefuseExtension \/ ReplaceExtension \/ CopyExtension \/ AddRequirement \/ RecordExtension
  <2>1. cmd.op \in {"extension", "wizard"}
    BY <1>2, StepsOf DEF Bak, RefuseExtension, ReplaceExtension, CopyExtension, AddRequirement,
                         RecordExtension, InPlace, At, Base, RecordSteps
  <2>2. cmd' = Idle \/ \E step : Goto(step)
    BY <1>2 DEF Bak, RefuseExtension, ReplaceExtension, CopyExtension, AddRequirement,
                RecordExtension, InPlace, Onward, Finish
  <2>3. QED
    BY <2>1, <2>2, StaysOp DEF Base
<1>3. QED
  BY <1>1, <1>2 DEF Extension

LEMMA WizardsOp ==
    ASSUME Base, Wizards
    PROVE  cmd'.op \in {"none", "wizard", "provider"}
<1>1. CASE \E key \in Key : BeginProviderWizard(key)
  BY <1>1, BeginProviderWizardBase
<1>2. CASE SaveSecret \/ Enable \/ DefaultJobs \/ SetSlots
  <2>1. cmd.op \in {"wizard", "provider"}
    BY <1>2, StepsOf, DefaultJobsBase DEF SaveSecret, Enable, SetSlots, At, Base
  <2>2. cmd' = Idle \/ (\E step : Goto(step)) \/ UNCHANGED cmd
    BY <1>2 DEF SaveSecret, Enable, DefaultJobs, SetSlots, Onward, Finish
  <2>3. QED
    BY <2>1, <2>2, StaysOp DEF Base
<1>3. QED
  BY <1>1, <1>2 DEF Wizards

LEMMA UpdateOp ==
    ASSUME Base, Course, Update
    PROVE  /\ cmd'.op \in {"none", "update"}
           /\ cmd'.at \in {"idle", "copyState", "move", "moving", "rotate", "sync"}
<1>1. CASE RunUpdate
  BY <1>1, RunUpdateBase
<1>2. CASE StartMove
  BY <1>2, StartMoveBase DEF Ended
<1>3. CASE MoveByRename
  BY <1>3, MoveByRenameBase DEF Onto, Advances
<1>4. CASE MoveByCopy
  BY <1>4, MoveByCopyBase DEF At
<1>5. CASE RemoveMoved
  BY <1>5, RemoveMovedBase DEF Onto, Advances, At
<1>6. CASE Moved
  BY <1>6, MovedBase DEF Onto, Advances
<1>7. CASE Rotate
  BY <1>7, RotateBase DEF Onto, Advances, At
<1>8. QED
  BY <1>1, <1>2, <1>3, <1>4, <1>5, <1>6, <1>7 DEF Update

LEMMA SnapshotOp ==
    ASSUME Base, Course, RunBackup \/ SnapshotData
    PROVE  /\ cmd'.op \in {"none", "backup", "restore", "update"}
           /\ cmd'.at \in SnapshotSteps \cup {"clear", "rotate", "idle"}
           /\ cmd'.op \in {cmd.op, "none", "backup"}
           /\ cmd'.op = "restore" => cmd'.force = cmd.force /\ cmd'.stateless = cmd.stateless
<1>1. CASE RunBackup
  BY <1>1, RunBackupBase DEF SnapshotSteps
<1>2. CASE SnapshotData
  <2>1. cmd.op \in {"backup", "restore", "update"}
    BY <1>2, StepsOf DEF SnapshotData, CopyPart, OpenTarball, WriteTarball, At, Base, SnapshotSteps
  <2>2. cmd' = Idle \/ \E step : Goto(step)
    BY <1>2, <2>1 DEF SnapshotData, CopyPart, OpenTarball, WriteTarball, Goto
  <2>3. cmd'.at \in SnapshotSteps \cup {"clear", "rotate"} \/ Ended
    BY <1>2, SnapshotCourse
  <2>4. /\ cmd'.op \in {cmd.op, "none"}
        /\ cmd'.op = "restore" => cmd'.force = cmd.force /\ cmd'.stateless = cmd.stateless
    BY <2>2, StaysOp DEF Base
  <2>5. QED
    BY <2>1, <2>3, <2>4 DEF Ended
<1>3. QED
  BY <1>1, <1>2

LEMMA IdleOp ==
    ASSUME Base, Kill \/ DeleteSkill \/ Upgrade \/ Rebuild
    PROVE  cmd'.op = "none" /\ cmd'.at = "idle"
<1>1. CASE Kill
  BY <1>1, KillBase DEF Ended
<1>2. CASE DeleteSkill \/ Upgrade \/ Rebuild
  BY <1>2, DeleteSkillBase, UpgradeBase, StepsOf DEF Base, Running, At
<1>3. QED
  BY <1>1, <1>2

-----------------------------------------------------------------------------
(* A restore that says it is done                                          *)

LEMMA OutsideExact ==
    ASSUME cmd'.at \notin {"extract", "restored"}
    PROVE  Exact'
BY DEF Exact, At

LEMMA OtherExact ==
    ASSUME Base', cmd'.op # "restore"
    PROVE  Exact'
<1>1. Command'
  BY DEF Base
<1>2. cmd'.at \notin {"extract", "restored"}
  BY <1>1 DEF Command, Where, SnapshotSteps, SkillSteps, RecordSteps
<1>3. QED
  BY <1>2, OutsideExact

LEMMA RestoreExact ==
    ASSUME Base, Course, Exact, Restore
    PROVE  Exact'
<1>1. CASE \E n \in DOMAIN backups, force \in BOOLEAN : RunRestore(n, force)
  BY <1>1, RunRestoreBase, OutsideExact
<1>2. CASE ClearItem
  BY <1>2, ClearItemBase, OutsideExact DEF At
<1>3. CASE Cleared
  <2>1. cmd'.at = "extract" /\ cmd'.left = {i \in DOMAIN archive.data : Part[i] \in Target}
    BY <1>3, ClearedBase
  <2>2. ToClear \subseteq MadeSince /\ archive' = archive /\ root' = root /\ late' = late
    BY <1>3 DEF Cleared
  <2>3. Target' = Target
    BY <2>2 DEF Target
  <2>4. ASSUME NEW i \in Item, Part[i] \in Target
        PROVE  (Has(i)' => \E w \in late' : w[1] = i) /\ i \notin DOMAIN archive.data \ cmd'.left
    BY <2>1, <2>2, <2>4 DEF ToClear, MadeSince, Has
  <2>5. QED
    BY <2>1, <2>2, <2>3, <2>4 DEF Exact, At
<1>4. CASE Extract
  <2>1. /\ cmd'.at = "extract" /\ NextMember \in cmd.left /\ NextMember \in DOMAIN archive.data
        /\ cmd'.left = cmd.left \ {NextMember} /\ At("extract")
        /\ DOMAIN root' = DOMAIN root \cup {NextMember} /\ root'[NextMember] = archive.data[NextMember]
        /\ \A j \in DOMAIN root \ {NextMember} : root'[j] = root[j]
    BY <1>4, ExtractBase DEF Extract
  <2>2. archive' = archive /\ late' = late
    BY <1>4 DEF Extract, history
  <2>3. Target' = Target
    BY <2>2 DEF Target
  <2>4. ASSUME NEW i \in Item, Part[i] \in Target
        PROVE  /\ i \in DOMAIN archive.data \ cmd'.left => Has(i)'
               /\ Has(i)' => \/ i \in DOMAIN archive.data \ cmd'.left /\ root'[i] = archive.data[i]
                             \/ \E w \in late : w[1] = i
    <3>1. /\ i \in DOMAIN archive.data \ cmd.left => Has(i)
          /\ Has(i) => \/ i \in DOMAIN archive.data \ cmd.left /\ root[i] = archive.data[i]
                       \/ \E w \in late : w[1] = i
      BY <2>1, <2>4 DEF Exact, At
    <3>2. CASE i = NextMember
      BY <2>1, <3>2 DEF Has
    <3>3. CASE i # NextMember
      BY <2>1, <3>1, <3>3 DEF Has
    <3>4. QED
      BY <3>2, <3>3
  <2>5. QED
    BY <2>1, <2>2, <2>3, <2>4 DEF Exact, At
<1>5. CASE Restored
  <2>1. cmd'.at = "restored" /\ cmd'.left = cmd.left /\ At("extract") /\ cmd.left = {}
    BY <1>5, RestoredBase DEF Restored, Onto, Advances
  <2>2. UNCHANGED <<root, archive, late>>
    BY <1>5 DEF Restored
  <2>3. QED
    BY <2>1, <2>2 DEF Exact, At, Has, Target
<1>6. CASE EndRestore
  BY <1>6, EndRestoreBase, OutsideExact DEF Ended
<1>7. QED
  BY <1>1, <1>2, <1>3, <1>4, <1>5, <1>6 DEF Restore

LEMMA BesideExact ==
    ASSUME Base, Exact, Serve \/ Edit
    PROVE  Exact'
<1>1. PICK item \in {"db", "notes", "skill", "ext"} :
          Write(item, root'[item]) /\ Reaches(item) /\ Fits(item, root'[item])
  BY Beside
<1>2. /\ UNCHANGED cmd /\ DOMAIN root' = DOMAIN root \cup {item}
      /\ \A i \in DOMAIN root \ {item} : root'[i] = root[i]
  BY <1>1, WriteBase
<1>3. CASE cmd.at \notin {"extract", "restored"}
  BY <1>2, <1>3, OutsideExact
<1>4. CASE cmd.at \in {"extract", "restored"}
  <2>1. Running
    BY <1>4, StepsOf DEF Base, At
  <2>2. late' = late \cup {<<item, root'[item]>>} /\ archive' = archive
    BY <1>1, <2>1 DEF Write
  <2>3. \E w \in late' : w[1] = item
    <3>1. <<item, root'[item]>> \in late' /\ <<item, root'[item]>>[1] = item
      BY <2>2
    <3>2. QED
      BY <3>1
  <2>4. ASSUME NEW i \in Item, Part[i] \in Target
        PROVE  /\ i \in DOMAIN archive.data \ cmd.left => Has(i)'
               /\ Has(i)' => \/ i \in DOMAIN archive.data \ cmd.left /\ root'[i] = archive.data[i]
                             \/ \E w \in late' : w[1] = i
    <3>1. /\ i \in DOMAIN archive.data \ cmd.left => Has(i)
          /\ Has(i) => \/ i \in DOMAIN archive.data \ cmd.left /\ root[i] = archive.data[i]
                       \/ \E w \in late : w[1] = i
      BY <1>4, <2>4 DEF Exact
    <3>2. CASE i = item
      BY <1>2, <2>3, <3>1, <3>2 DEF Has
    <3>3. CASE i # item
      BY <1>2, <2>2, <3>1, <3>3 DEF Has
    <3>4. QED
      BY <3>2, <3>3
  <2>5. Target' = Target
    BY <2>2 DEF Target
  <2>6. QED
    BY <1>2, <2>2, <2>4, <2>5 DEF Exact, At
<1>5. QED
  BY <1>3, <1>4

LEMMA ExactStep ==
    ASSUME Base, Course, Exact, [Next]_vars
    PROVE  Exact'
<1>1. Base'
  BY BaseStep
<1>2. CASE RunBackup \/ SnapshotData
  BY <1>2, SnapshotOp, OutsideExact DEF SnapshotSteps
<1>3. CASE Restore
  BY <1>3, RestoreExact
<1>4. CASE Update
  BY <1>1, <1>4, UpdateOp, OtherExact
<1>5. CASE Skill
  BY <1>1, <1>5, SkillOp, OtherExact
<1>6. CASE MigrateHeartbeat \/ RunInit \/ CreateMissing
  BY <1>1, <1>6, RestOp, OtherExact
<1>7. CASE Extension
  BY <1>1, <1>7, ExtensionOp, OtherExact, StepsOf DEF Base
<1>8. CASE Wizards
  BY <1>1, <1>8, WizardsOp, OtherExact
<1>9. CASE Serve \/ Edit
  BY <1>9, BesideExact
<1>10. CASE Kill \/ DeleteSkill \/ Upgrade \/ Rebuild
  BY <1>1, <1>10, IdleOp, OtherExact
<1>11. CASE UNCHANGED vars
  BY <1>11 DEF Exact, vars, history, At, Has, Target
<1>12. QED
  BY <1>2, <1>3, <1>4, <1>5, <1>6, <1>7, <1>8, <1>9, <1>10, <1>11 DEF Next

(* When `faff restore` says it is done, the data root holds what the       *)
(* tarball holds and nothing besides, but for what was written while it    *)
(* ran: whatever was there before, whatever was killed, from a tarball of  *)
(* either layout.                                                          *)
THEOREM RestoreIsExact == Spec => []RestoredIsTheArchive
<1>1. Init => Base /\ Course /\ Exact
  BY BaseInit DEF Init, Exact, Idle, At
<1>2. Base /\ Course /\ Exact /\ [Next]_vars => Base' /\ Course' /\ Exact'
  BY BaseStep, ExactStep
<1>3. Exact => RestoredIsTheArchive
  BY DEF Exact, RestoredIsTheArchive, Item, At
<1>4. QED
  BY <1>1, <1>2, <1>3, PTL DEF Spec


-----------------------------------------------------------------------------
(* What of the data root a step writes                                     *)

Leaves(items) ==
    \A i \in Item \ items : (Has(i)' <=> Has(i)) /\ (Has(i) => root'[i] = root[i])

LEMMA PutLeaves ==
    ASSUME NEW i, NEW content, Put(i, content)
    PROVE  Leaves({i})
BY PutIs DEF Leaves, Has

LEMMA SameLeaves ==
    ASSUME root' = root
    PROVE  Leaves({})
BY DEF Leaves, Has

LEMMA SkillLeaves ==
    ASSUME Skill
    PROVE  Leaves({"notes", "skill", "skillNew", "skillOld", "skillOrigin"})
<1>1. CASE SyncSkill
  BY <1>1, SameLeaves DEF SyncSkill, Leaves, With, Has
<1>2. CASE CopyTree \/ Stage \/ RecordSkill
  <2>1. PICK i \in {"skill", "skillNew", "skillOrigin"} : \E content : Put(i, content)
    BY <1>2 DEF CopyTree, Stage, RecordSkill, InPlace
  <2>2. QED
    BY <2>1, PutLeaves DEF Leaves
<1>3. CASE Aside
  BY <1>3 DEF Aside, Leaves, With, Without, Restrict, Has
<1>4. CASE Place
  BY <1>4 DEF Place, Leaves, With, Without, Restrict, Has
<1>5. CASE DropOld
  BY <1>5 DEF DropOld, Leaves, Without, Restrict, Has
<1>6. CASE \E force \in BOOLEAN : InstallSkill(force)
  BY <1>6, SameLeaves DEF InstallSkill, Leaves
<1>7. QED
  BY <1>1, <1>2, <1>3, <1>4, <1>5, <1>6 DEF Skill

LEMMA MigrateLeaves ==
    ASSUME MigrateHeartbeat
    PROVE  Leaves({"jobs"})
BY PutLeaves, SameLeaves DEF MigrateHeartbeat, Leaves

(* What `faff init` writes was not there.                                  *)
LEMMA CreateLeaves ==
    ASSUME CreateMissing
    PROVE  /\ Leaves({"config", "keys", "jobs", "requirements", "extOrigin"})
           /\ \A i \in Item : Has(i) => Has(i)' /\ root'[i] = root[i]
<1> DEFINE missing == [config |-> NewConfig, keys |-> {}, jobs |-> Jobs("empty"),
                       requirements |-> {}, extOrigin |-> NoEntry]
<1>1. CASE root' = root
  BY <1>1, SameLeaves DEF Leaves, Has
<1>2. CASE \E i \in DOMAIN missing : ~Has(i) /\ Put(i, missing[i])
  <2>1. PICK i \in {"config", "keys", "jobs", "requirements", "extOrigin"} : ~Has(i) /\ Put(i, missing[i])
    BY <1>2
  <2>2. PICK content : Put(i, content)
    BY <2>1
  <2>3. DOMAIN root' = DOMAIN root \cup {i} /\ \A j \in DOMAIN root \ {i} : root'[j] = root[j]
    BY <2>2, PutIs
  <2>4. QED
    BY <2>1, <2>3 DEF Leaves, Has
<1>3. QED
  BY <1>1, <1>2 DEF CreateMissing

LEMMA ExtensionLeaves ==
    ASSUME Extension
    PROVE  Leaves({"ext", "extBak", "extOrigin", "requirements"})
<1>1. CASE BeginUpdateExtension \/ BeginWizard \/ RefuseExtension
  BY <1>1, SameLeaves DEF BeginUpdateExtension, BeginWizard, RefuseExtension, Leaves
<1>2. CASE Bak \/ ReplaceExtension \/ CopyExtension \/ AddRequirement \/ RecordExtension
  <2>1. PICK i \in {"ext", "extBak", "extOrigin", "requirements"} : \E content : Put(i, content)
    BY <1>2 DEF Bak, ReplaceExtension, CopyExtension, AddRequirement, RecordExtension, InPlace
  <2>2. QED
    BY <2>1, PutLeaves DEF Leaves
<1>3. QED
  BY <1>1, <1>2 DEF Extension

LEMMA WizardsLeave ==
    ASSUME Base, Wizards
    PROVE  Leaves({"keys", "config", "jobs"})
<1>1. CASE SaveSecret \/ Enable \/ DefaultJobs
  <2>1. CASE root' = root
    BY <2>1, SameLeaves DEF Leaves
  <2>2. CASE \E i \in {"keys", "config", "jobs"} : \E content : Put(i, content)
    BY <2>2, PutLeaves DEF Leaves
  <2>3. QED
    BY <1>1, <2>1, <2>2 DEF SaveSecret, Enable, DefaultJobs
<1>2. CASE \E key \in Key : BeginProviderWizard(key)
  BY <1>2, SameLeaves, PutLeaves DEF BeginProviderWizard, Leaves
<1>3. CASE SetSlots
  BY <1>3, SetSlotsBase DEF Leaves, Has
<1>4. QED
  BY <1>1, <1>2, <1>3 DEF Wizards

(* A move writes what is not there, but for the file of requirements.      *)
LEMMA UpdateLeaves ==
    ASSUME Base, Course, Update
    PROVE  /\ \A i \in Item \ {"requirements"} : Has(i) => Has(i)' /\ root'[i] = root[i]
           /\ cmd.at \notin {"move", "moving"} => root' = root
<1>1. CASE RunUpdate \/ StartMove \/ RemoveMoved \/ Rotate
  BY <1>1 DEF RunUpdate, StartMove, RemoveMoved, Rotate, Has
<1>2. CASE MoveByRename \/ MoveByCopy
  <2>1. PICK items : Into(items) /\ items \subseteq ToMove /\ There \cap items = {} /\ At("moving")
    <3>1. CASE MoveByRename
      BY <3>1 DEF MoveByRename, ToMove
    <3>2. CASE MoveByCopy
      <4>1. PICK i \in ToMove \ There : Into({i})
        BY <3>2 DEF MoveByCopy
      <4>2. Into({i}) /\ {i} \subseteq ToMove /\ There \cap {i} = {} /\ At("moving")
        BY <3>2, <4>1 DEF MoveByCopy
      <4>3. QED
        BY <4>2
    <3>3. QED
      BY <1>2, <3>1, <3>2
  <2>2. items \subseteq DOMAIN legacy
    BY <2>1 DEF ToMove
  <2>3. CASE cmd.into = "root"
    BY <2>1, <2>2, <2>3, IntoIs DEF There, Has, At
  <2>4. CASE cmd.into # "root"
    BY <2>1, <2>2, <2>4, IntoIs DEF Has, At
  <2>5. QED
    BY <2>3, <2>4
<1>3. CASE Moved
  <2>1. root' = Over(legacy, root) /\ At("move") /\ \A i \in DOMAIN legacy : Part[i] = "requirements"
    BY <1>3, MovedBase
  <2>2. \A i \in Item \ {"requirements"} : i \notin DOMAIN legacy
    BY <2>1, PartIs
  <2>3. QED
    BY <2>1, <2>2 DEF Over, Has, At
<1>4. QED
  BY <1>1, <1>2, <1>3 DEF Update


-----------------------------------------------------------------------------
(* Local edits                                                             *)

LEMMA OutsideUntouched ==
    ASSUME cmd'.at \notin {"stage", "staging", "swap", "copyTree", "copyingTree", "place"}
    PROVE  Untouched'
BY DEF Untouched, At

LEMMA OtherUntouched ==
    ASSUME Base', cmd'.op \notin {"update", "init", "install"}
    PROVE  Untouched'
<1>1. cmd'.at \notin {"stage", "staging", "swap", "copyTree", "copyingTree", "place"}
  BY DEF Base, Command, Where, SnapshotSteps, SkillSteps, RecordSteps
<1>2. QED
  BY <1>1, OutsideUntouched

LEMMA RestoreOp ==
    ASSUME Base, Course, Restore
    PROVE  cmd'.op \in {"none", "restore"}
<1>1. CASE \E n \in DOMAIN backups, force \in BOOLEAN : RunRestore(n, force)
  BY <1>1, RunRestoreBase
<1>2. CASE ClearItem \/ Cleared \/ Extract \/ Restored \/ EndRestore
  BY <1>2, ClearItemBase, ClearedBase, ExtractBase, RestoredBase, EndRestoreBase DEF Ended, Onto, Advances
<1>3. QED
  BY <1>1, <1>2 DEF Restore

LEMMA ExtensionPlace ==
    ASSUME Base, Extension, ~BeginUpdateExtension, ~Bak, cmd'.op = "extension"
    PROVE  cmd'.at # "replace"
<1>1. CASE BeginWizard
  BY <1>1, BeginWizardBase
<1>2. CASE RefuseExtension
  BY <1>2, RefuseExtensionBase DEF Ended
<1>3. CASE ReplaceExtension
  BY <1>3, ReplaceExtensionBase DEF Onto
<1>4. CASE CopyExtension
  BY <1>4, CopyExtensionBase DEF Onto, Advances, CopyExtension, InPlace
<1>5. CASE AddRequirement \/ RecordExtension
  <2>1. CASE cmd.op = "wizard"
    BY <1>5, <2>1, StaysOp DEF AddRequirement, RecordExtension, Onward, Finish, Base
  <2>2. CASE cmd.op # "wizard"
    <3>1. RecordExtension /\ cmd.op = "extension"
      BY <1>5, <2>2, StepsOf DEF AddRequirement, RecordExtension, At, Base, RecordSteps
    <3>2. cmd'.at \in {"recordingExtension", "idle"}
      BY <3>1 DEF RecordExtension, Goto, Finish, Base, Command, Idle
    <3>3. QED
      BY <3>2
  <2>3. QED
    BY <2>1, <2>2
<1>6. QED
  BY <1>1, <1>2, <1>3, <1>4, <1>5 DEF Extension

LEMMA SkillUntouched ==
    ASSUME Base, Course, Untouched, Skill
    PROVE  Untouched'
<1>1. GoodOrigin(Entry("skillOrigin"))
  BY EntryIs DEF Base
<1>2. CASE SyncSkill
  <2>1. Leaves({"notes"})
    BY <1>2, SameLeaves DEF SyncSkill, Leaves, With, Has
  <2>2. (Has("skill")' <=> Has("skill")) /\ (Has("skill") => root'["skill"] = root["skill"])
    BY <2>1, PartIs DEF Leaves
  <2>3. Ended \/ Onto(SkillAfter)
    BY <1>2, SyncSkillBase
  <2>4. cmd.op \in {"update", "init"}
    BY <1>2, StepsOf DEF SyncSkill, Base, At
  <2>5. CASE cmd' = AfterSkill
    <3>1. cmd'.at \in {"idle", "heartbeatJob", "config"}
      BY <2>4, <2>5, AfterSkillIs DEF Base, Ended, Onto
    <3>2. QED
      BY <3>1, OutsideUntouched
  <2>6. CASE cmd' = Idle \/ cmd' = [cmd EXCEPT !.at = "recordSkill"]
    BY <2>6, OutsideUntouched DEF Idle, Base, Command
  <2>7. CASE ~Has("skill") /\ cmd' = [cmd EXCEPT !.at = "copyTree"]
    BY <2>2, <2>7 DEF Untouched, Base, Command, At
  <2>8. CASE StaleSkill /\ cmd' = [cmd EXCEPT !.at = "stage"]
    <3>1. Has("skill") /\ root["skill"].edit = 0
      BY <1>1, <2>8, PristineIs DEF StaleSkill, Base
    <3>2. QED
      BY <2>2, <2>8, <3>1 DEF Untouched, Base, Command, At
  <2>9. QED
    BY <1>2, <2>5, <2>6, <2>7, <2>8 DEF SyncSkill
<1>3. CASE \E force \in BOOLEAN : InstallSkill(force)
  <2>1. PICK force \in BOOLEAN : InstallSkill(force)
    BY <1>3
  <2>2. cmd'.op = "install" /\ cmd'.at = "stage" /\ cmd'.force = force /\ root' = root
    BY <2>1, InstallSkillBase DEF InstallSkill
  <2>3. Has("skill") => root["skill"].edit = 0 \/ force
    BY <1>1, <2>1, PristineIs DEF InstallSkill, GoodOrigin, Base
  <2>4. QED
    BY <2>2, <2>3 DEF Untouched, Has, At
<1>4. CASE CopyTree
  <2>1. CASE At("copyTree") /\ Put("skill", Torn(Template)) /\ Goto("copyingTree")
    <3>1. cmd'.at = "copyingTree" /\ "skill" \in DOMAIN root' /\ root'["skill"] = Torn(Template)
      BY <2>1, PutIs DEF Goto, Base, Command
    <3>2. QED
      BY <3>1, TreesFit DEF Untouched, Has, At, Base
  <2>2. CASE Goto("recordSkill")
    BY <2>2, OutsideUntouched DEF Goto, Base, Command
  <2>3. QED
    BY <1>4, <2>1, <2>2 DEF CopyTree, InPlace
<1>5. CASE Stage
  <2>1. Leaves({"skillNew"})
    BY <1>5, PutLeaves DEF Stage, InPlace
  <2>2. (Has("skill")' <=> Has("skill")) /\ (Has("skill") => root'["skill"] = root["skill"])
    BY <2>1, PartIs DEF Leaves
  <2>3. /\ cmd'.at \in {"staging", "swap"} /\ cmd'.op = cmd.op /\ cmd'.force = cmd.force
        /\ cmd.at \in {"stage", "staging"} /\ late' = late
    BY <1>5, StageBase DEF Stage, InPlace, history, Onto, Advances, At
  <2>4. QED
    BY <2>2, <2>3 DEF Untouched, At
<1>6. CASE Aside
  <2>1. DOMAIN root' = (DOMAIN root \ {"skill"}) \cup {"skillOld"}
    BY <1>6 DEF Aside, With, Without, Restrict
  <2>2. cmd'.at = "place"
    BY <1>6, AsideBase DEF Onto
  <2>3. QED
    BY <2>1, <2>2 DEF Untouched, At, Has
<1>7. CASE Place \/ DropOld \/ RecordSkill
  <2>1. cmd'.at \in {"drop", "recordSkill", "recordingSkill", "idle", "heartbeatJob", "config"}
    BY <1>7, PlaceBase, DropOldBase, RecordSkillBase DEF Onto, Ended, Course, Place, At
  <2>2. QED
    BY <2>1, OutsideUntouched
<1>8. QED
  BY <1>2, <1>3, <1>4, <1>5, <1>6, <1>7 DEF Skill

(* An edit while the command runs is remembered, and a tree that is cut    *)
(* short is not edited.                                                    *)
LEMMA BesideUntouched ==
    ASSUME Base, Untouched, Serve \/ Edit
    PROVE  Untouched'
<1>1. PICK item \in {"db", "notes", "skill", "ext"} :
          /\ Write(item, root'[item]) /\ Reaches(item) /\ Fits(item, root'[item])
          /\ item = "skill" => root[item].whole
  BY Beside
<1>2. /\ UNCHANGED cmd /\ DOMAIN root' = DOMAIN root \cup {item}
      /\ \A i \in DOMAIN root \ {item} : root'[i] = root[i]
  BY <1>1, WriteBase
<1>3. CASE ~Running
  BY <1>2, <1>3, StepsOf, OutsideUntouched DEF Base, At
<1>4. CASE Running
  <2>1. late' = late \cup {<<item, root'[item]>>}
    BY <1>1, <1>4 DEF Write
  <2>2. CASE item # "skill"
    BY <1>2, <2>1, <2>2 DEF Untouched, At, Has
  <2>3. CASE item = "skill"
    <3>1. ~At("copyingTree") /\ Has("skill")
      BY <1>1, <2>3 DEF Untouched, Reaches
    <3>2. QED
      BY <1>2, <2>1, <2>3, <3>1 DEF Untouched, At, Has
  <2>4. QED
    BY <2>2, <2>3
<1>5. QED
  BY <1>3, <1>4

LEMMA UntouchedStep ==
    ASSUME Base, Course, Untouched, [Next]_vars
    PROVE  Untouched'
<1>1. CASE RunBackup \/ SnapshotData
  BY <1>1, SnapshotOp, OutsideUntouched DEF SnapshotSteps
<1>2. CASE Restore
  <2>1. cmd'.op \in {"restore", "none"} /\ Base'
    BY <1>2, RestoreOp, RestoreCourse
  <2>2. QED
    BY <2>1, OtherUntouched
<1>3. CASE Update
  BY <1>3, UpdateOp, OutsideUntouched
<1>4. CASE Skill
  BY <1>4, SkillUntouched
<1>5. CASE MigrateHeartbeat \/ RunInit \/ CreateMissing
  <2>1. cmd'.at \in {"idle", "writingJobs", "sync", "config"}
    BY <1>5, MigrateHeartbeatBase, RunInitBase, CreateMissingBase DEF Ended, Onto
  <2>2. QED
    BY <2>1, OutsideUntouched
<1>6. CASE Extension
  BY <1>6, ExtensionOp, ExtensionCourse, OtherUntouched
<1>7. CASE Wizards
  BY <1>7, WizardsOp, WizardsCourse, OtherUntouched
<1>8. CASE Serve \/ Edit
  BY <1>8, BesideUntouched
<1>9. CASE Kill \/ DeleteSkill \/ Upgrade \/ Rebuild
  BY <1>9, IdleOp, OutsideUntouched
<1>10. CASE UNCHANGED vars
  BY <1>10 DEF Untouched, vars, history, At, Has
<1>11. QED
  BY <1>1, <1>2, <1>3, <1>4, <1>5, <1>6, <1>7, <1>8, <1>9, <1>10 DEF Next

(* The extension that is going to be replaced has been copied.             *)
LEMMA BackupStep ==
    ASSUME Base, Course, Backup, [Next]_vars
    PROVE  Backup'
<1>1. Base' /\ (cmd'.op # "extension" => cmd'.at # "replace")
  BY BaseStep DEF Base, Command, Where, SnapshotSteps, SkillSteps, RecordSteps
<1>2. CASE cmd'.op # "extension"
  BY <1>1, <1>2 DEF Backup, At
<1>3. CASE cmd'.op = "extension"
  <2>1. CASE BeginUpdateExtension
    BY <2>1, BeginUpdateExtensionBase DEF Backup, At, BeginUpdateExtension, Has
  <2>2. CASE Bak
    <3>1. root["ext"] \in (IF Has("extBak") THEN root["extBak"] ELSE {}) \cup {root["ext"]}
      OBVIOUS
    <3>2. Put("extBak", (IF Has("extBak") THEN root["extBak"] ELSE {}) \cup {root["ext"]})
      BY <2>2 DEF Bak
    <3>3. PICK content : Put("extBak", content) /\ root["ext"] \in content
      BY <3>1, <3>2
    <3>6. "extBak" \in DOMAIN root' /\ root["ext"] \in root'["extBak"]
      BY <3>3, PutIs
    <3>4. (Has("ext")' <=> Has("ext")) /\ (Has("ext") => root'["ext"] = root["ext"])
      BY <3>2, PutLeaves, PartIs DEF Leaves
    <3>5. QED
      BY <3>4, <3>6 DEF Backup, Has
  <2>3. CASE Serve \/ Edit
    <3>1. PICK item \in {"db", "notes", "skill", "ext"} :
          Write(item, root'[item]) /\ Reaches(item) /\ Fits(item, root'[item])
      BY <2>3, Beside
    <3>2. /\ UNCHANGED cmd /\ DOMAIN root' = DOMAIN root \cup {item}
          /\ \A i \in DOMAIN root \ {item} : root'[i] = root[i]
      BY <3>1, WriteBase
    <3>3. Running
      BY <1>3, <3>2 DEF Running
    <3>4. late' = late \cup {<<item, root'[item]>>}
      BY <3>1, <3>3 DEF Write
    <3>5. QED
      BY <3>2, <3>4 DEF Backup, At, Has
  <2>4. CASE UNCHANGED vars
    BY <2>4 DEF Backup, vars, history, At, Has
  <2>5. CASE Extension /\ ~BeginUpdateExtension /\ ~Bak
    <3>1. cmd'.at # "replace"
      BY <1>3, <2>5, ExtensionPlace
    <3>2. QED
      BY <3>1 DEF Backup, At
  <2>6. CASE Restore
    BY <1>3, <2>6, RestoreOp
  <2>7. CASE RunBackup \/ SnapshotData
    BY <1>3, <2>7, SnapshotOp
  <2>8. CASE Update \/ Skill \/ MigrateHeartbeat \/ RunInit \/ CreateMissing
    BY <1>3, <2>8, UpdateOp, SkillOp, RestOp
  <2>9. CASE Wizards \/ Kill \/ DeleteSkill \/ Upgrade \/ Rebuild
    BY <1>3, <2>9, WizardsOp, IdleOp
  <2>10. QED
    BY <2>1, <2>2, <2>3, <2>4, <2>5, <2>6, <2>7, <2>8, <2>9 DEF Next
<1>4. QED
  BY <1>2, <1>3


(* What one step does to an edit.                                          *)
LEMMA SkillKeepsEdits ==
    ASSUME Base, Course, Untouched, Skill
    PROVE  KeepsEdits
<1>1. Stays("ext") \/ ~Has("ext")
  BY SkillLeaves, PartIs DEF Leaves, Stays, Has
<1>2. CASE SyncSkill \/ Stage \/ DropOld \/ RecordSkill \/ \E force \in BOOLEAN : InstallSkill(force)
  <2>1. Stays("skill") \/ ~Has("skill")
    <3>1. CASE SyncSkill
      BY <3>1 DEF SyncSkill, With, Has, Stays
    <3>2. CASE Stage \/ RecordSkill
      <4>1. PICK i \in {"skillNew", "skillOrigin"} : \E content : Put(i, content)
        BY <3>2 DEF Stage, RecordSkill, InPlace
      <4>2. QED
        BY <4>1, PutIs DEF Stays, Has
    <3>3. CASE DropOld
      BY <3>3 DEF DropOld, Without, Restrict, Has, Stays
    <3>4. CASE \E force \in BOOLEAN : InstallSkill(force)
      BY <3>4 DEF InstallSkill, Stays, Has
    <3>5. QED
      BY <1>2, <3>1, <3>2, <3>3, <3>4
  <2>2. QED
    BY <1>1, <2>1 DEF KeepsEdits, Edited
<1>3. CASE CopyTree
  <2>1. ~Edited("skill")
    BY <1>3 DEF CopyTree, InPlace, Untouched, At, Edited
  <2>2. QED
    BY <1>1, <2>1 DEF KeepsEdits, Edited
<1>4. CASE Aside
  <2>1. Edited("skill") => <<"skill", root["skill"]>> \in late \/ (cmd.op = "install" /\ cmd.force)
    BY <1>4 DEF Aside, Untouched, At, Edited
  <2>2. QED
    BY <1>1, <2>1 DEF KeepsEdits, Edited
<1>5. CASE Place
  <2>1. ~Edited("skill")
    BY <1>5 DEF Place, Untouched, At, Edited
  <2>2. QED
    BY <1>1, <2>1 DEF KeepsEdits, Edited
<1>6. QED
  BY <1>2, <1>3, <1>4, <1>5 DEF Skill

LEMMA ExtensionKeepsEdits ==
    ASSUME Base, Backup, Extension
    PROVE  KeepsEdits
<1>1. Stays("skill") \/ ~Has("skill")
  BY ExtensionLeaves, PartIs DEF Leaves, Stays, Has
<1>2. CASE ReplaceExtension
  BY <1>1, <1>2 DEF KeepsEdits, ReplaceExtension, Backup, Edited
<1>3. CASE CopyExtension
  <2>1. cmd.op = "wizard"
    BY <1>3, CopyExtensionBase
  <2>2. QED
    BY <1>1, <2>1 DEF KeepsEdits, Edited
<1>4. CASE BeginUpdateExtension \/ BeginWizard \/ RefuseExtension
  BY <1>1, <1>4 DEF KeepsEdits, Edited, Stays, Has, BeginUpdateExtension, BeginWizard, RefuseExtension
<1>5. CASE Bak \/ AddRequirement \/ RecordExtension
  <2>1. PICK i \in {"extBak", "requirements", "extOrigin"} : \E content : Put(i, content)
    BY <1>5 DEF Bak, AddRequirement, RecordExtension
  <2>2. Stays("ext") \/ ~Has("ext")
    BY <2>1, PutIs DEF Stays, Has
  <2>3. QED
    BY <1>1, <2>2 DEF KeepsEdits, Edited
<1>6. QED
  BY <1>2, <1>3, <1>4, <1>5 DEF Extension

LEMMA StaysKeepsEdits ==
    ASSUME Stays("skill") \/ ~Has("skill"), Stays("ext") \/ ~Has("ext")
    PROVE  KeepsEdits
BY DEF KeepsEdits, Edited

LEMMA EditsStep ==
    ASSUME Base, Course, Untouched, Backup, [Next]_vars
    PROVE  [KeepsEdits]_vars
<1>1. "skill" \in Item \ {"requirements"} /\ "ext" \in Item \ {"requirements"}
  BY PartIs
<1>2. CASE root' = root
  BY <1>2, StaysKeepsEdits DEF Stays, Has
<1>3. CASE RunBackup \/ SnapshotData \/ RunInit \/ Kill \/ Upgrade \/ Rebuild
  BY <1>2, <1>3 DEF RunBackup, SnapshotData, CopyPart, OpenTarball, WriteTarball, RunInit, Kill, Upgrade, Rebuild
<1>4. CASE Restore
  <2>1. CASE cmd.op = "restore"
    BY <2>1 DEF KeepsEdits
  <2>2. CASE \E n \in DOMAIN backups, force \in BOOLEAN : RunRestore(n, force)
    BY <1>2, <2>2 DEF RunRestore
  <2>3. QED
    BY <1>4, <2>1, <2>2, ClearItemBase, ClearedBase, ExtractBase, RestoredBase, StepsOf
       DEF Restore, EndRestore, At, Base
<1>5. CASE Update
  BY <1>1, <1>5, UpdateLeaves, StaysKeepsEdits DEF Stays, Has
<1>6. CASE Skill
  BY <1>6, SkillKeepsEdits
<1>7. CASE MigrateHeartbeat \/ CreateMissing
  BY <1>1, <1>7, MigrateLeaves, CreateLeaves, StaysKeepsEdits DEF Leaves, Stays, Has
<1>8. CASE Extension
  BY <1>8, ExtensionKeepsEdits
<1>9. CASE Wizards
  BY <1>1, <1>9, WizardsLeave, StaysKeepsEdits DEF Leaves, Stays, Has
<1>10. CASE Serve \/ Edit \/ DeleteSkill
  <2>1. bounds.writes \in Nat
    BY DEF Base, Types
  <2>2. Counted("writes", MaxWrites)
    BY <1>10 DEF Serve, Edit, Write, DeleteSkill
  <2>3. bounds'.writes = bounds.writes + 1
    BY <2>2 DEF Counted, Base, Types
  <2>4. QED
    BY <2>1, <2>3 DEF KeepsEdits
<1>11. CASE UNCHANGED vars
  BY <1>11
<1>12. QED
  BY <1>3, <1>4, <1>5, <1>6, <1>7, <1>8, <1>9, <1>10, <1>11 DEF Next

(* No update, init, install or update-extension takes a local edit away:   *)
(* a skill that was edited stays as it is unless its owner forces the      *)
(* install, an extension that was edited is in the .bak when it is         *)
(* replaced.  The exceptions are what is written while a command runs and, *)
(* in a skill that shows no other edit, what its hash leaves out.          *)
THEOREM EditsAreKept == Spec => LocalEditsKept
<1>1. Init => Base /\ Course /\ Untouched /\ Backup
  BY BaseInit DEF Init, Untouched, Backup, Idle, At
<1>2. Base /\ Course /\ Untouched /\ Backup /\ [Next]_vars => Base' /\ Course' /\ Untouched' /\ Backup'
  BY BaseStep, UntouchedStep, BackupStep
<1>3. Base /\ Course /\ Untouched /\ Backup /\ [Next]_vars => [KeepsEdits]_vars
  BY EditsStep
<1>4. QED
  BY <1>1, <1>2, <1>3, PTL DEF Spec, LocalEditsKept


-----------------------------------------------------------------------------
(* Snapshots                                                               *)

LEMMA OutsideSnapshot ==
    ASSUME cmd'.at \notin {"copyWorkspace", "copyRest", "tar", "write"}
    PROVE  Snapshot' /\ Opened'
BY DEF Snapshot, Opened, At

LEMMA OtherSnapshot ==
    ASSUME Base', cmd'.op \notin {"backup", "restore", "update"}
    PROVE  Snapshot' /\ Opened'
<1>1. cmd'.at \notin {"copyWorkspace", "copyRest", "tar", "write"}
  BY DEF Base, Command, Where, SnapshotSteps, SkillSteps, RecordSteps
<1>2. QED
  BY <1>1, OutsideSnapshot

(* A part is copied: what was staged stays, what is in it now is too.      *)
LEMMA CopyPartIs ==
    ASSUME NEW step, NEW parts, NEW next, CopyPart(step, parts, next), NEW before,
           before = IF step = "copyState" THEN Empty ELSE copied
    PROVE  /\ root' = root
           /\ \A i \in Item :
                 /\ i \in DOMAIN copied' <=> i \in DOMAIN before \/ (Part[i] \in parts /\ Has(i))
                 /\ i \in DOMAIN before => copied'[i] = before[i]
                 /\ i \in DOMAIN copied' /\ i \notin DOMAIN before => copied'[i] = root[i]
           /\ \A w \in late : (w[1] \in Item => Part[w[1]] \notin parts) => w \in late'
<1> DEFINE items == UNION {ItemsOf(p) : p \in parts}
           upper == Restrict(root, items \cap DOMAIN root)
<1>1. copied' = Over(before, upper) /\ root' = root /\ late' = {w \in late : w[1] \notin items}
  BY DEF CopyPart, Seen
<1>2. \A i : i \in items <=> i \in Item /\ Part[i] \in parts
  BY DEF ItemsOf, Item
<1>3. DOMAIN upper = items \cap DOMAIN root /\ \A i \in DOMAIN upper : upper[i] = root[i]
  BY DEF Restrict
<1> HIDE DEF items, upper
<1>4. /\ DOMAIN copied' = DOMAIN before \cup DOMAIN upper
      /\ \A i \in DOMAIN before : copied'[i] = before[i]
      /\ \A i \in DOMAIN upper \ DOMAIN before : copied'[i] = upper[i]
  BY <1>1 DEF Over
<1>5. \A w \in late : (w[1] \in Item => Part[w[1]] \notin parts) => w \in late'
  BY <1>1, <1>2
<1>6. QED
  BY <1>1, <1>2, <1>3, <1>4, <1>5 DEF Has

LEMMA CopySnapshot ==
    ASSUME Base, Snapshot, CopyPart("copyState", {"state"}, "copyWorkspace")
           \/ CopyPart("copyWorkspace", {"workspace"}, "copyRest")
           \/ CopyPart("copyRest", {"extensions", "requirements"}, "tar")
    PROVE  Snapshot' /\ Opened'
<1>1. CASE CopyPart("copyState", {"state"}, "copyWorkspace")
  <2>1. cmd'.at = "copyWorkspace"
    BY <1>1, CopyPartBase DEF SnapshotSteps, Onto
  <2>2. /\ root' = root /\ DOMAIN Empty = {}
        /\ \A i \in Item :
              /\ i \in DOMAIN copied' <=> Part[i] = "state" /\ Has(i)
              /\ i \in DOMAIN copied' => copied'[i] = root[i]
    BY <1>1, CopyPartIs DEF Empty
  <2>3. QED
    BY <2>1, <2>2 DEF Snapshot, Opened, Staged, Has, At
<1>2. CASE CopyPart("copyWorkspace", {"workspace"}, "copyRest")
  <2>1. cmd'.at = "copyRest" /\ At("copyWorkspace")
    BY <1>2, CopyPartBase DEF SnapshotSteps, Onto, CopyPart
  <2>2. /\ root' = root
        /\ \A i \in Item :
              /\ i \in DOMAIN copied' <=> i \in DOMAIN copied \/ (Part[i] \in {"workspace"} /\ Has(i))
              /\ i \in DOMAIN copied => copied'[i] = copied[i]
              /\ i \in DOMAIN copied' /\ i \notin DOMAIN copied => copied'[i] = root[i]
        /\ \A w \in late : (w[1] \in Item => Part[w[1]] \notin {"workspace"}) => w \in late'
    BY <1>2, CopyPartIs
  <2>3. ASSUME NEW i \in Item
        PROVE  /\ i \in DOMAIN copied' =>
                     /\ Part[i] \in {"state", "workspace"} /\ Has(i)
                     /\ copied'[i] = root[i] \/ <<i, root[i]>> \in late'
               /\ Part[i] \in {"state", "workspace"} /\ Has(i) /\ i \notin DOMAIN copied' =>
                     i \in {"db", "notes"} /\ <<i, root[i]>> \in late'
    <3>1. /\ i \in DOMAIN copied =>
                Part[i] = "state" /\ Has(i) /\ (copied[i] = root[i] \/ <<i, root[i]>> \in late)
          /\ Part[i] = "state" /\ Has(i) /\ i \notin DOMAIN copied =>
                i \in {"db", "notes"} /\ <<i, root[i]>> \in late
      BY <2>1 DEF Snapshot, Staged, At
    <3>2. Part[i] = "state" /\ <<i, root[i]>> \in late => <<i, root[i]>> \in late'
      BY <2>2
    <3>3. QED
      BY <2>2, <3>1, <3>2
  <2>4. QED
    BY <2>1, <2>2, <2>3 DEF Snapshot, Opened, Staged, Has, At
<1>3. CASE CopyPart("copyRest", {"extensions", "requirements"}, "tar")
  <2>1. cmd'.at = "tar" /\ At("copyRest")
    BY <1>3, CopyPartBase DEF SnapshotSteps, Onto, CopyPart
  <2>2. /\ root' = root
        /\ \A i \in Item :
              /\ i \in DOMAIN copied' <=>
                    i \in DOMAIN copied \/ (Part[i] \in {"extensions", "requirements"} /\ Has(i))
              /\ i \in DOMAIN copied => copied'[i] = copied[i]
              /\ i \in DOMAIN copied' /\ i \notin DOMAIN copied => copied'[i] = root[i]
        /\ \A w \in late : (w[1] \in Item => Part[w[1]] \notin {"extensions", "requirements"}) => w \in late'
    BY <1>3, CopyPartIs
  <2>3. ASSUME NEW i \in Item
        PROVE  /\ i \in DOMAIN copied' => Has(i) /\ (copied'[i] = root[i] \/ <<i, root[i]>> \in late')
               /\ Has(i) /\ i \notin DOMAIN copied' => i \in {"db", "notes"} /\ <<i, root[i]>> \in late'
    <3>1. /\ i \in DOMAIN copied =>
                /\ Part[i] \in {"state", "workspace"} /\ Has(i)
                /\ copied[i] = root[i] \/ <<i, root[i]>> \in late
          /\ Part[i] \in {"state", "workspace"} /\ Has(i) /\ i \notin DOMAIN copied =>
                i \in {"db", "notes"} /\ <<i, root[i]>> \in late
      BY <2>1 DEF Snapshot, Staged, At
    <3>2. Part[i] \in {"state", "workspace"} /\ <<i, root[i]>> \in late => <<i, root[i]>> \in late'
      BY <2>2
    <3>3. Part[i] \in {"state", "workspace", "extensions", "requirements"}
      BY PartIs
    <3>4. QED
      BY <2>2, <3>1, <3>2, <3>3
  <2>4. QED
    BY <2>1, <2>2, <2>3 DEF Snapshot, Opened, Staged, Has, At
<1>4. QED
  BY <1>1, <1>2, <1>3

LEMMA BesideSnapshot ==
    ASSUME Base, Snapshot, Opened, Serve \/ Edit
    PROVE  Snapshot' /\ Opened'
<1>1. PICK item \in {"db", "notes", "skill", "ext"} :
          Write(item, root'[item]) /\ Reaches(item) /\ Fits(item, root'[item])
  BY Beside
<1>2. /\ UNCHANGED cmd /\ DOMAIN root' = DOMAIN root \cup {item}
      /\ \A i \in DOMAIN root \ {item} : root'[i] = root[i]
  BY <1>1, WriteBase
<1>3. UNCHANGED <<backups, copied, halfway>>
  BY <1>1 DEF Write
<1>4. Opened'
  BY <1>2, <1>3 DEF Opened, At
<1>5. CASE cmd.at \notin {"copyWorkspace", "copyRest", "tar", "write"}
  BY <1>2, <1>5, OutsideSnapshot
<1>6. CASE cmd.at \in {"copyWorkspace", "copyRest", "tar", "write"}
  <2>1. Running
    BY <1>6, StepsOf DEF Base, At
  <2>2. late' = late \cup {<<item, root'[item]>>}
    BY <1>1, <2>1 DEF Write
  <2>3. ASSUME NEW i \in Item
        PROVE  /\ i \in DOMAIN copied =>
                     Staged(i) /\ Has(i)' /\ (copied[i] = root'[i] \/ <<i, root'[i]>> \in late')
               /\ Staged(i) /\ Has(i)' /\ i \notin DOMAIN copied =>
                     i \in {"db", "notes"} /\ <<i, root'[i]>> \in late'
    <3>1. /\ i \in DOMAIN copied =>
                Staged(i) /\ Has(i) /\ (copied[i] = root[i] \/ <<i, root[i]>> \in late)
          /\ Staged(i) /\ Has(i) /\ i \notin DOMAIN copied =>
                i \in {"db", "notes"} /\ <<i, root[i]>> \in late
      BY <1>6 DEF Snapshot
    <3>2. CASE i = item
      BY <1>1, <1>2, <2>2, <3>1, <3>2 DEF Has, Reaches
    <3>3. CASE i # item
      BY <1>2, <2>2, <3>1, <3>3 DEF Has
    <3>4. QED
      BY <3>2, <3>3
  <2>4. Snapshot'
    BY <1>2, <1>3, <1>6, <2>3 DEF Snapshot, Staged, At
  <2>5. QED
    BY <1>4, <2>4
<1>7. QED
  BY <1>5, <1>6

LEMMA SnapshotStep ==
    ASSUME Base, Course, Snapshot, Opened, [Next]_vars
    PROVE  Snapshot' /\ Opened'
<1>1. CASE RunBackup
  BY <1>1, RunBackupBase, OutsideSnapshot
<1>2. CASE CopyPart("copyState", {"state"}, "copyWorkspace")
           \/ CopyPart("copyWorkspace", {"workspace"}, "copyRest")
           \/ CopyPart("copyRest", {"extensions", "requirements"}, "tar")
  BY <1>2, CopySnapshot
<1>3. CASE OpenTarball
  <2>1. cmd'.at = "write" /\ At("tar") /\ UNCHANGED <<root, copied, late, halfway>>
    BY <1>3, OpenTarballBase DEF OpenTarball, Onto, history
  <2>2. Snapshot'
    BY <2>1 DEF Snapshot, Staged, At, Has
  <2>3. Opened'
    <3>1. /\ Len(backups) \in Nat /\ Len(backups)' = Len(backups) + 1
          /\ backups'[Len(backups) + 1] = [data |-> Empty, whole |-> FALSE, old |-> FALSE, half |-> halfway]
      BY <1>3, OpenTarballBase
    <3>2. Len(backups') = Len(backups) + 1 /\ Len(backups') >= 1
      BY <3>1
    <3>3. /\ ~backups'[Len(backups')].whole /\ ~backups'[Len(backups')].old
          /\ backups'[Len(backups')].half = halfway
      BY <3>1, <3>2
    <3>4. QED
      BY <2>1, <3>2, <3>3 DEF Opened
  <2>4. QED
    BY <2>2, <2>3
<1>4. CASE WriteTarball
  BY <1>4, WriteTarballBase, OutsideSnapshot DEF Onto, Ended
<1>5. CASE Restore
  <2>1. cmd'.at \in {"copyState", "clear", "extract", "restored", "idle"}
    <3>1. CASE \E n \in DOMAIN backups, force \in BOOLEAN : RunRestore(n, force)
      BY <3>1, RunRestoreBase
    <3>2. CASE ClearItem \/ Cleared \/ Extract \/ Restored \/ EndRestore
      BY <3>2, ClearItemBase, ClearedBase, ExtractBase, RestoredBase, EndRestoreBase DEF Onto, Ended, At
    <3>3. QED
      BY <1>5, <3>1, <3>2 DEF Restore
  <2>2. QED
    BY <2>1, OutsideSnapshot
<1>6. CASE Update
  BY <1>6, UpdateOp, OutsideSnapshot
<1>7. CASE Skill
  <2>1. cmd'.at \notin {"copyWorkspace", "copyRest", "tar", "write"}
    BY <1>7, SyncSkillBase, CopyTreeBase, StageBase, AsideBase, PlaceBase, DropOldBase, RecordSkillBase,
       InstallSkillBase DEF Skill, Onto, Ended, SkillAfter, Course, Place, At
  <2>2. QED
    BY <2>1, OutsideSnapshot
<1>8. CASE MigrateHeartbeat \/ RunInit \/ CreateMissing
  <2>1. cmd'.at \in {"idle", "writingJobs", "sync", "config"}
    BY <1>8, MigrateHeartbeatBase, RunInitBase, CreateMissingBase DEF Ended, Onto
  <2>2. QED
    BY <2>1, OutsideSnapshot
<1>9. CASE Extension
  BY <1>9, ExtensionOp, ExtensionCourse, OtherSnapshot
<1>10. CASE Wizards
  BY <1>10, WizardsOp, WizardsCourse, OtherSnapshot
<1>11. CASE Serve \/ Edit
  BY <1>11, BesideSnapshot
<1>12. CASE Kill \/ DeleteSkill \/ Upgrade \/ Rebuild
  BY <1>12, IdleOp, OutsideSnapshot
<1>13. CASE UNCHANGED vars
  BY <1>13 DEF Snapshot, Opened, Staged, vars, history, At, Has
<1>14. QED
  BY <1>1, <1>2, <1>3, <1>4, <1>5, <1>6, <1>7, <1>8, <1>9, <1>10, <1>11, <1>12, <1>13
     DEF Next, SnapshotData


-----------------------------------------------------------------------------
(* What may be replaced is in the newest tarball                           *)

LEMMA SafeKept ==
    ASSUME NEW i, Safe(i), UNCHANGED backups, Has(i)' => Has(i) /\ root'[i] = root[i],
           <<i, root[i]>> \in late => <<i, root[i]>> \in late'
    PROVE  Safe(i)'
BY DEF Safe, Saves, Has

LEMMA OutsideSaved ==
    ASSUME cmd'.at \notin {"clear", "rotate", "sync", "heartbeatJob"} \cup SkillSteps
    PROVE  Saved'
BY DEF Saved, At, SkillSteps

LEMMA OtherSaved ==
    ASSUME Base', cmd'.op \notin {"restore", "update"}
    PROVE  Saved'
<1>1. cmd'.at # "clear"
  BY DEF Base, Command, Where, SnapshotSteps, SkillSteps, RecordSteps
<1>2. QED
  BY <1>1 DEF Saved, At

LEMMA WriteSaved ==
    ASSUME Base, Snapshot, Opened, WriteTarball
    PROVE  Saved'
<1>1. /\ Len(backups) \in Nat /\ Len(backups)' = Len(backups) /\ Len(backups) >= 1 /\ At("write")
      /\ backups'[Len(backups)].data = copied /\ backups'[Len(backups)].whole
  BY WriteTarballBase DEF Opened, WriteTarball
<1>2. UNCHANGED <<root, late>>
  BY DEF WriteTarball, history
<1>3. ASSUME NEW i \in Item
      PROVE  Safe(i)'
  <2>1. Has(i) => <<i, root[i]>> \in late \/ (i \in DOMAIN copied /\ copied[i] = root[i])
    BY <1>1 DEF Snapshot, Staged, At
  <2>2. Len(backups') = Len(backups)
    BY <1>1
  <2>3. Has(i) => \/ <<i, root[i]>> \in late
                  \/ Len(backups') >= 1 /\ Saves(backups'[Len(backups')], i, root[i])
    BY <1>1, <2>1, <2>2 DEF Saves
  <2>4. QED
    BY <1>2, <2>3 DEF Safe, Has
<1>4. "skill" \in Item /\ "jobs" \in Item
  BY PartIs
<1>5. QED
  BY <1>3, <1>4 DEF Saved

LEMMA RotateSaved ==
    ASSUME Base, Saved, Rotate
    PROVE  Saved'
<1>1. cmd.op = "update" /\ At("rotate") /\ UNCHANGED <<root, late>>
  BY RotateBase DEF Rotate, history
<1>2. Safe("skill") /\ Safe("jobs")
  BY <1>1 DEF Saved, At
<1>3. CASE /\ UNCHANGED cmd /\ Len(backups) \in Nat /\ Len(backups) > MaxSnapshots
           /\ Len(backups)' = Len(backups) - 1
           /\ DOMAIN backups = 1..Len(backups) /\ DOMAIN backups' = 1..Len(backups) - 1
           /\ \A n \in DOMAIN backups' : backups'[n] = backups[n + 1]
  <2>1. PICK last \in Nat : last = Len(backups) /\ last > MaxSnapshots
    BY <1>3
  <2>2. MaxSnapshots \in Nat \ {0}
    BY DataRootAssumption
  <2>3. last >= 2 /\ last - 1 \in 1..last - 1 /\ (last - 1) + 1 = last
    BY <2>1, <2>2
  <2>4. Len(backups') = last - 1 /\ backups'[last - 1] = backups[last]
    BY <1>3, <2>1, <2>3
  <2>5. Len(backups') >= 1 /\ backups'[Len(backups')] = backups[Len(backups)]
    BY <2>1, <2>3, <2>4
  <2>6. Safe("skill")' /\ Safe("jobs")'
    BY <1>1, <1>2, <2>5 DEF Safe, Saves, Has
  <2>7. QED
    BY <1>1, <1>3, <2>6 DEF Saved, At
<1>4. CASE UNCHANGED backups /\ Onto({"sync"})
  <2>1. Safe("skill")' /\ Safe("jobs")'
    BY <1>1, <1>2, <1>4 DEF Safe, Saves, Has
  <2>2. QED
    BY <1>1, <1>4, <2>1 DEF Saved, At, Onto
<1>5. QED
  BY <1>3, <1>4, RotateBase

LEMMA ClearSaved ==
    ASSUME Base, Saved, ClearItem
    PROVE  Saved'
<1>1. UNCHANGED cmd /\ At("clear") /\ cmd.op = "restore"
  BY ClearItemBase
<1>2. UNCHANGED <<backups, late>>
  BY DEF ClearItem
<1>3. PICK i : DOMAIN root' = DOMAIN root \ {i} /\ \A j \in DOMAIN root \ {i} : root'[j] = root[j]
  BY ClearItemBase
<1>4. ASSUME NEW j \in Item, Safe(j)
      PROVE  Safe(j)'
  BY <1>2, <1>3, <1>4, SafeKept DEF Has
<1>5. QED
  BY <1>1, <1>4 DEF Saved, At

LEMMA SkillSaved ==
    ASSUME Base, Course, Saved, Skill
    PROVE  Saved'
<1>1. Base' /\ cmd'.op \in {"none", "update", "init", "install"} /\ (cmd'.op = "update" => cmd.op = "update")
  BY SkillOp, SkillCourse
<1>2. CASE cmd'.op # "update"
  BY <1>1, <1>2, OtherSaved
<1>3. CASE cmd'.op = "update"
  <2>1. cmd.op = "update" /\ ~\E force \in BOOLEAN : InstallSkill(force)
    BY <1>1, <1>3, InstallSkillBase
  <2>2. cmd.at \in SkillSteps \cup {"sync"} /\ UNCHANGED backups
    BY <2>1 DEF Skill, SyncSkill, CopyTree, Stage, Aside, Place, DropOld, RecordSkill, InPlace, At,
                SkillSteps, others
  <2>3. Safe("jobs")'
    <3>1. Safe("jobs")
      BY <2>1, <2>2 DEF Saved
    <3>2. Has("jobs")' => Has("jobs") /\ root'["jobs"] = root["jobs"]
      BY SkillLeaves, PartIs DEF Leaves
    <3>3. <<"jobs", root["jobs"]>> \in late => <<"jobs", root["jobs"]>> \in late'
      BY <2>1 DEF Skill, SyncSkill, CopyTree, Stage, Aside, Place, DropOld, RecordSkill, history, Seen
    <3>4. QED
      BY <2>2, <3>1, <3>2, <3>3, SafeKept
  <2>4. cmd'.at \in {"rotate", "sync", "stage", "staging", "swap"} => Safe("skill")'
    <3>1. CASE SyncSkill /\ cmd'.at = "stage"
      <4>1. StaleSkill
        <5>1. Ended \/ cmd'.at # "stage" \/ StaleSkill
          <6>1. CASE cmd' = AfterSkill
            BY <2>1, <6>1 DEF AfterSkill, Base, Command
          <6>2. CASE cmd' = Idle \/ cmd' = [cmd EXCEPT !.at = "copyTree"] \/ cmd' = [cmd EXCEPT !.at = "recordSkill"]
            BY <6>2 DEF Idle, Base, Command
          <6>3. QED
            BY <3>1, <6>1, <6>2 DEF SyncSkill
        <5>2. QED
          BY <1>3, <3>1, <5>1 DEF Ended
      <4>2. GoodOrigin(Entry("skillOrigin"))
        BY EntryIs DEF Base
      <4>3. Has("skill") /\ root["skill"].edit = 0
        <5>1. Has("skill") /\ Hash(root["skill"]) = Entry("skillOrigin").hash
          BY <4>1 DEF StaleSkill, Pristine
        <5>2. root["skill"] \in TreeType
          BY <5>1 DEF Base, Types, Dir, Fits, Has
        <5>3. QED
          BY <4>2, <5>1, <5>2 DEF Hash, GoodOrigin, TreeType
      <4>4. <<"skill", root["skill"]>> \in late => <<"skill", root["skill"]>> \in late'
        BY <3>1, <4>3 DEF SyncSkill
      <4>5. Safe("skill")
        BY <2>1, <3>1 DEF Saved, SyncSkill, At
      <4>6. root'["skill"] = root["skill"]
        BY <3>1, <4>3 DEF SyncSkill, With, Has
      <4>7. QED
        BY <2>2, <4>3, <4>4, <4>5, <4>6, SafeKept
    <3>2. CASE Stage
      <4>1. Safe("skill")
        BY <2>1, <3>2 DEF Saved, Stage, InPlace, At
      <4>2. Leaves({"skillNew"}) /\ late' = late
        BY <3>2, PutLeaves DEF Stage, InPlace, history
      <4>3. Has("skill")' => Has("skill") /\ root'["skill"] = root["skill"]
        BY <4>2, PartIs DEF Leaves
      <4>4. QED
        BY <2>2, <4>1, <4>2, <4>3, SafeKept
    <3>3. CASE SyncSkill /\ cmd'.at # "stage"
      <4>1. cmd'.at \notin {"rotate", "sync", "staging", "swap"}
        <5>1. CASE cmd' = AfterSkill
          BY <2>1, <5>1 DEF AfterSkill, Base, Command
        <5>2. CASE cmd' = Idle \/ cmd' = [cmd EXCEPT !.at = "copyTree"] \/ cmd' = [cmd EXCEPT !.at = "recordSkill"]
          BY <5>2 DEF Idle, Base, Command
        <5>3. CASE cmd' = [cmd EXCEPT !.at = "stage"]
          BY <3>3, <5>3 DEF Base, Command
        <5>4. QED
          BY <3>3, <5>1, <5>2, <5>3 DEF SyncSkill
      <4>2. QED
        BY <3>3, <4>1
    <3>4. CASE CopyTree \/ Aside \/ Place \/ DropOld \/ RecordSkill
      <4>1. cmd'.at \notin {"rotate", "sync", "stage", "staging", "swap"}
        BY <3>4, CopyTreeBase, AsideBase, PlaceBase, DropOldBase, RecordSkillBase DEF Onto, Ended, Course, Place, At
      <4>2. QED
        BY <4>1
    <3>5. QED
      BY <2>1, <3>1, <3>2, <3>3, <3>4 DEF Skill
  <2>5. cmd'.at # "clear"
    BY <1>1, <1>3 DEF Base, Command, Where, SnapshotSteps, SkillSteps, RecordSteps
  <2>6. QED
    BY <2>3, <2>4, <2>5 DEF Saved, At
<1>4. QED
  BY <1>2, <1>3

LEMMA BesideSaved ==
    ASSUME Base, Saved, Serve \/ Edit
    PROVE  Saved'
<1>1. PICK item \in {"db", "notes", "skill", "ext"} :
          Write(item, root'[item]) /\ Reaches(item) /\ Fits(item, root'[item])
  BY Beside
<1>2. /\ UNCHANGED cmd /\ DOMAIN root' = DOMAIN root \cup {item}
      /\ \A i \in DOMAIN root \ {item} : root'[i] = root[i]
  BY <1>1, WriteBase
<1>3. CASE ~Running
  BY <1>2, <1>3, StepsOf, OutsideSaved DEF Base, At, SkillSteps
<1>4. CASE Running
  <2>1. late' = late \cup {<<item, root'[item]>>} /\ UNCHANGED backups
    BY <1>1, <1>4 DEF Write
  <2>2. ASSUME NEW i, Safe(i)
        PROVE  Safe(i)'
    BY <1>2, <2>1, <2>2 DEF Safe, Saves, Has
  <2>3. QED
    BY <1>2, <2>2 DEF Saved, At
<1>5. QED
  BY <1>3, <1>4

LEMMA SavedStep ==
    ASSUME Base, Course, Snapshot, Opened, Saved, [Next]_vars
    PROVE  Saved'
<1>1. CASE RunBackup
  BY <1>1, RunBackupBase, OutsideSaved DEF SkillSteps
<1>2. CASE SnapshotData
  <2>1. CASE WriteTarball
    BY <2>1, WriteSaved
  <2>2. CASE ~WriteTarball
    <3>1. cmd'.at \in SnapshotSteps
      BY <1>2, <2>2, CopyPartBase, OpenTarballBase DEF SnapshotData, SnapshotSteps, Onto
    <3>2. QED
      BY <3>1, OutsideSaved DEF SnapshotSteps, SkillSteps
  <2>3. QED
    BY <2>1, <2>2
<1>3. CASE Restore
  <2>1. CASE \E n \in DOMAIN backups, force \in BOOLEAN : RunRestore(n, force)
    <3>1. PICK n \in DOMAIN backups, force \in BOOLEAN : RunRestore(n, force)
      BY <2>1
    <3>2. /\ cmd'.op = "restore" /\ cmd'.force = force /\ cmd'.stateless = ("state" \notin dirs)
          /\ cmd'.at = (IF "state" \in dirs /\ ~force THEN "copyState" ELSE "clear")
      BY <3>1, RunRestoreBase
    <3>3. QED
      BY <3>2 DEF Saved, At, SkillSteps
  <2>2. CASE ClearItem
    BY <2>2, ClearSaved
  <2>3. CASE Cleared \/ Extract \/ Restored \/ EndRestore
    <3>1. cmd'.at \in {"extract", "restored", "idle"}
      BY <2>3, ClearedBase, ExtractBase, RestoredBase, EndRestoreBase DEF Onto, Ended
    <3>2. QED
      BY <3>1, OutsideSaved DEF SkillSteps
  <2>4. QED
    BY <1>3, <2>1, <2>2, <2>3 DEF Restore
<1>4. CASE Update
  <2>1. CASE Rotate
    BY <2>1, RotateSaved
  <2>2. CASE RunUpdate \/ StartMove \/ MoveByRename \/ MoveByCopy \/ RemoveMoved \/ Moved
    <3>1. cmd'.at \in {"copyState", "move", "moving", "idle"}
      BY <2>2, RunUpdateBase, StartMoveBase, MoveByRenameBase, MoveByCopyBase, RemoveMovedBase, MovedBase
         DEF Onto, Ended, At
    <3>2. QED
      BY <3>1, OutsideSaved DEF SkillSteps
  <2>3. QED
    BY <1>4, <2>1, <2>2 DEF Update
<1>5. CASE Skill
  BY <1>5, SkillSaved
<1>6. CASE MigrateHeartbeat \/ RunInit \/ CreateMissing
  <2>1. CASE MigrateHeartbeat
    BY <2>1, MigrateHeartbeatBase, OutsideSaved DEF Onto, Ended, SkillSteps
  <2>2. CASE RunInit \/ CreateMissing
    BY <2>2, RunInitBase, CreateMissingBase, OtherSaved DEF Onto, Ended, Advances
  <2>3. QED
    BY <1>6, <2>1, <2>2
<1>7. CASE Extension
  BY <1>7, ExtensionOp, ExtensionCourse, OtherSaved
<1>8. CASE Wizards
  BY <1>8, WizardsOp, WizardsCourse, OtherSaved
<1>9. CASE Serve \/ Edit
  BY <1>9, BesideSaved
<1>10. CASE Kill \/ DeleteSkill \/ Upgrade \/ Rebuild
  BY <1>10, IdleOp, OutsideSaved DEF SkillSteps
<1>11. CASE UNCHANGED vars
  BY <1>11 DEF Saved, Safe, Saves, vars, history, At, Has
<1>12. QED
  BY <1>1, <1>2, <1>3, <1>4, <1>5, <1>6, <1>7, <1>8, <1>9, <1>10, <1>11 DEF Next


-----------------------------------------------------------------------------
(* What a move takes out of the checkout                                   *)

LEMMA OutsideArrived ==
    ASSUME cmd'.at # "moving"
    PROVE  Arrived'
BY DEF Arrived, At

(* A move writes nothing over.                                             *)
LEMMA MoveAdds ==
    ASSUME MoveByRename \/ MoveByCopy
    PROVE  \E items :
              /\ items \subseteq ToMove /\ items \subseteq DOMAIN legacy /\ items \cap There = {}
              /\ Into(items) /\ (MoveByRename => items = ToMove)
<1>1. CASE MoveByRename
  <2>1. Into(ToMove) /\ ToMove \subseteq DOMAIN legacy /\ ToMove \cap There = {}
    BY <1>1 DEF MoveByRename, ToMove
  <2>2. QED
    BY <2>1
<1>2. CASE MoveByCopy /\ ~MoveByRename
  <2>1. PICK i \in ToMove \ There : Into({i})
    BY <1>2 DEF MoveByCopy
  <2>2. Into({i}) /\ {i} \subseteq ToMove /\ {i} \subseteq DOMAIN legacy /\ {i} \cap There = {}
    BY <2>1 DEF ToMove
  <2>3. QED
    BY <1>2, <2>2
<1>3. QED
  BY <1>1, <1>2

LEMMA MoveKeeps ==
    ASSUME MoveByRename \/ MoveByCopy
    PROVE  /\ \A i : Has(i) => Has(i)' /\ root'[i] = root[i]
           /\ \A i \in DOMAIN nested : i \in DOMAIN nested' /\ nested'[i] = nested[i]
<1>1. PICK items : items \subseteq DOMAIN legacy /\ items \cap There = {} /\ Into(items)
  BY MoveAdds
<1>2. CASE cmd.into = "root"
  BY <1>1, <1>2, IntoIs DEF There, Has
<1>3. CASE cmd.into # "root"
  BY <1>1, <1>3, IntoIs DEF There, Has
<1>4. QED
  BY <1>2, <1>3

LEMMA UpdateArrived ==
    ASSUME Base, Course, Arrived, Update
    PROVE  Arrived'
<1>1. CASE RunUpdate
  BY <1>1, RunUpdateBase, OutsideArrived
<1>2. CASE StartMove
  <2>1. CASE Ended
    BY <2>1, OutsideArrived DEF Ended
  <2>2. CASE ~Ended
    <3>1. cmd'.into = "root" <=> MovePart \notin dirs
      BY <1>2, <2>2, StartMoveBase
    <3>2. UNCHANGED <<root, legacy, nested>> /\ At("move") /\ Moving # {}
      BY <1>2 DEF StartMove
    <3>3. cmd'.into # "root" => ItemsOf(MovePart) \cap DOMAIN nested = {}
      <4>1. Finish => Ended
        BY FinishIs DEF Finish, Ended
      <4>2. QED
        BY <1>2, <2>2, <3>1, <4>1 DEF StartMove
    <3>4. ToMove' = ToMove
      BY <3>2 DEF ToMove, MovePart
    <3>5. \A i \in ToMove : Part[i] = MovePart /\ Part[i] # "requirements" /\ i \in ItemsOf(MovePart)
      BY <3>2, ToMoveIs DEF Base, ToMove
    <3>6. cmd'.into = "root" => ToMove \cap DOMAIN root = {}
      BY <3>1, <3>5 DEF Base, Placed, Has
    <3>7. There' = IF cmd'.into = "root" THEN DOMAIN root ELSE DOMAIN nested
      BY <3>2 DEF There
    <3>8. ToMove' \cap There' = {}
      BY <3>3, <3>4, <3>5, <3>6, <3>7
    <3>9. QED
      BY <3>8 DEF Arrived
  <2>3. QED
    BY <2>1, <2>2
<1>3. CASE MoveByRename
  BY <1>3, MoveByRenameBase, OutsideArrived DEF Onto
<1>4. CASE MoveByCopy
  <2>1. PICK items : items \subseteq ToMove /\ items \subseteq DOMAIN legacy /\ Into(items) /\ items \cap There = {}
    BY <1>4, MoveAdds
  <2>2. UNCHANGED <<legacy, cmd, late>> /\ At("moving")
    BY <1>4 DEF MoveByCopy, history
  <2>3. ToMove' = ToMove
    BY <2>2 DEF ToMove, MovePart
  <2>4. CASE cmd.into = "root"
    <3>1. /\ DOMAIN root' = DOMAIN root \cup items /\ \A i \in items : root'[i] = legacy[i]
          /\ \A i \in DOMAIN root \ items : root'[i] = root[i]
      BY <2>1, <2>4, IntoIs
    <3>2. ASSUME NEW i \in ToMove, i \in DOMAIN root'
          PROVE  root'[i] = legacy[i] \/ <<i, root'[i]>> \in late
      BY <2>2, <2>4, <3>1, <3>2 DEF Arrived, There
    <3>3. QED
      BY <2>2, <2>3, <2>4, <3>2 DEF Arrived, There
  <2>5. CASE cmd.into # "root"
    <3>1. /\ DOMAIN nested' = DOMAIN nested \cup items /\ \A i \in items : nested'[i] = legacy[i]
          /\ \A i \in DOMAIN nested \ items : nested'[i] = nested[i]
      BY <2>1, <2>5, IntoIs
    <3>2. ASSUME NEW i \in ToMove, i \in DOMAIN nested'
          PROVE  nested'[i] = legacy[i]
      BY <2>2, <2>5, <3>1, <3>2 DEF Arrived, There
    <3>3. QED
      BY <2>2, <2>3, <2>5, <3>2 DEF Arrived, There
  <2>6. QED
    BY <2>4, <2>5
<1>5. CASE RemoveMoved
  <2>1. PICK i \in ToMove :
            /\ ToMove = {i} => Onto({"move"})
            /\ ToMove # {i} => UNCHANGED cmd
            /\ DOMAIN legacy' = DOMAIN legacy \ {i}
            /\ \A j \in DOMAIN legacy \ {i} : legacy'[j] = legacy[j]
    BY <1>5, RemoveMovedBase
  <2>2. CASE ToMove = {i}
    BY <2>1, <2>2, OutsideArrived DEF Onto
  <2>3. CASE ToMove # {i}
    <3>1. PICK j \in ToMove : j # i
      BY <2>1, <2>3
    <3>2. j \in ItemsOf(MovePart) \cap DOMAIN legacy' /\ DOMAIN legacy \subseteq Item
      BY <2>1, <3>1 DEF ToMove, Base, Types, Dir
    <3>3. ItemsOf(FirstPart(DOMAIN legacy)) \cap DOMAIN legacy' # {} /\ DOMAIN legacy' \subseteq DOMAIN legacy
      BY <2>1, <3>2 DEF MovePart
    <3>4. MovePart' = MovePart
      BY <3>2, <3>3, FirstPartStays DEF MovePart
    <3>5. ToMove' = ToMove \ {i} /\ \A k \in ToMove \ {i} : legacy'[k] = legacy[k]
      BY <2>1, <3>4 DEF ToMove
    <3>6. UNCHANGED <<root, nested, late, cmd>> /\ At("moving")
      BY <1>5, <2>1, <2>3 DEF RemoveMoved
    <3>7. There' = There
      BY <3>6 DEF There
    <3>8. QED
      BY <3>5, <3>6, <3>7 DEF Arrived
  <2>4. QED
    BY <2>2, <2>3
<1>6. CASE Moved
  BY <1>6, MovedBase, OutsideArrived DEF Onto
<1>7. CASE Rotate
  BY <1>7, RotateBase, OutsideArrived DEF Onto, At
<1>8. QED
  BY <1>1, <1>2, <1>3, <1>4, <1>5, <1>6, <1>7 DEF Update

LEMMA BesideArrived ==
    ASSUME Base, Arrived, Serve \/ Edit
    PROVE  Arrived'
<1>1. PICK item \in {"db", "notes", "skill", "ext"} :
          Write(item, root'[item]) /\ Reaches(item) /\ Fits(item, root'[item])
  BY Beside
<1>2. /\ UNCHANGED cmd /\ DOMAIN root' = DOMAIN root \cup {item}
      /\ \A i \in DOMAIN root \ {item} : root'[i] = root[i]
  BY <1>1, WriteBase
<1>3. CASE ~At("moving")
  BY <1>2, <1>3, OutsideArrived DEF At
<1>4. CASE At("moving")
  <2>1. Running
    BY <1>4, StepsOf DEF Base, At
  <2>2. late' = late \cup {<<item, root'[item]>>} /\ UNCHANGED <<legacy, nested>>
    BY <1>1, <2>1 DEF Write
  <2>3. ToMove' = ToMove /\ There' = There
    BY <1>1, <1>2, <1>4, <2>2 DEF ToMove, MovePart, There, Reaches, Has
  <2>4. ASSUME NEW i \in ToMove \cap There
        PROVE  IF cmd.into = "root" THEN root'[i] = legacy[i] \/ <<i, root'[i]>> \in late'
                                     ELSE nested[i] = legacy[i]
    <3>1. CASE cmd.into = "root" /\ i = item
      BY <2>2, <3>1
    <3>2. CASE cmd.into # "root" \/ i # item
      BY <1>2, <1>4, <2>2, <3>2 DEF Arrived, There
    <3>3. QED
      BY <3>1, <3>2
  <2>5. QED
    BY <1>2, <2>2, <2>3, <2>4 DEF Arrived
<1>5. QED
  BY <1>3, <1>4

LEMMA SkillPlace ==
    ASSUME Base, Course, Skill
    PROVE  cmd'.at \in SkillSteps \cup {"heartbeatJob", "config", "idle"}
BY SyncSkillBase, CopyTreeBase, StageBase, AsideBase, PlaceBase, DropOldBase, RecordSkillBase,
   InstallSkillBase DEF Skill, Onto, Ended, SkillAfter, Course, Place, At, SkillSteps

LEMMA ArrivedStep ==
    ASSUME Base, Course, Arrived, [Next]_vars
    PROVE  Arrived'
<1>1. Base' /\ (cmd'.op # "update" => cmd'.at # "moving")
  BY BaseStep DEF Base, Command, Where, SnapshotSteps, SkillSteps, RecordSteps
<1>2. CASE RunBackup \/ SnapshotData
  BY <1>2, SnapshotOp, OutsideArrived DEF SnapshotSteps
<1>3. CASE Update
  BY <1>3, UpdateArrived
<1>4. CASE Skill
  <2>1. cmd'.at \in SkillSteps \cup {"heartbeatJob", "config", "idle"}
    BY <1>4, SkillPlace
  <2>2. QED
    BY <2>1, OutsideArrived DEF SkillSteps
<1>5. CASE MigrateHeartbeat \/ RunInit \/ CreateMissing
  BY <1>5, MigrateHeartbeatBase, RunInitBase, CreateMissingBase, OutsideArrived DEF Ended, Onto
<1>6. CASE Restore \/ Extension \/ Wizards \/ Kill \/ DeleteSkill \/ Upgrade \/ Rebuild
  BY <1>1, <1>6, RestoreOp, ExtensionOp, WizardsOp, IdleOp, OutsideArrived
<1>7. CASE Serve \/ Edit
  BY <1>7, BesideArrived
<1>8. CASE UNCHANGED vars
  BY <1>8 DEF Arrived, vars, history, At, ToMove, MovePart, There
<1>9. QED
  BY <1>2, <1>3, <1>4, <1>5, <1>6, <1>7, <1>8 DEF Next


-----------------------------------------------------------------------------
(* What was taken away can be had again                                    *)

LEMMA NothingCarried ==
    ASSUME Watched, cmd.at \notin {"move", "moving"}, Types
    PROVE  \A r \in replaced : r[4] = "saved" /\ Kept(r)
BY DEF Watched, Types

(* A command that takes away only what is safe.                            *)
LEMMA TakeWatched ==
    ASSUME Base, Watched, UNCHANGED <<backups, made>>, cmd.at \notin {"move", "moving"},
           NEW items, \A i \in items : Safe(i), replaced' \subseteq replaced \cup Taken(items)
    PROVE  Watched'
<1>1. ASSUME NEW r \in replaced'
      PROVE  r[4] = "saved" /\ Kept(r)'
  <2>1. CASE r \in replaced
    <3>1. r[4] = "saved" /\ Kept(r)
      BY <2>1, NothingCarried DEF Base
    <3>2. QED
      BY <3>1 DEF Kept, Saves
  <2>2. CASE r \in Taken(items)
    <3>1. /\ r[1] \in items /\ Has(r[1]) /\ r[2] = root[r[1]] /\ r[3] = made /\ r[4] = "saved"
          /\ <<r[1], root[r[1]]>> \notin late
      BY <2>2, TakenIs
    <3>2. Len(backups) >= 1 /\ Saves(backups[Len(backups)], r[1], r[2])
      BY <3>1 DEF Safe
    <3>3. PICK S : backups \in Seq(S)
      BY DEF Base, Listed
    <3>4. PICK last \in Nat : last = Len(backups) /\ last >= 1 /\ last \in DOMAIN backups /\ made \in Nat
      BY <3>2, <3>3 DEF Base, Types
    <3>5. made - last + last >= made
      BY <3>4
    <3>6. Kept(r)
      BY <3>1, <3>2, <3>4, <3>5 DEF Kept
    <3>7. QED
      BY <3>1, <3>6 DEF Kept, Saves
  <2>3. QED
    BY <2>1, <2>2
<1>2. QED
  BY <1>1 DEF Watched

LEMMA QuietWatched ==
    ASSUME Base, Watched, UNCHANGED <<backups, made>>, cmd.at \notin {"move", "moving"},
           replaced' \subseteq replaced
    PROVE  Watched'
<1>1. (\A i \in {} : Safe(i)) /\ replaced' \subseteq replaced \cup Taken({})
  OBVIOUS
<1>2. QED
  BY <1>1, TakeWatched

LEMMA SnapshotWatched ==
    ASSUME Base, Opened, Watched, RunBackup \/ SnapshotData
    PROVE  Watched'
<1>1. cmd.at \in SnapshotSteps \cup {"idle"}
  BY StepsOf DEF RunBackup, Begin, SnapshotData, CopyPart, OpenTarball, WriteTarball, SnapshotSteps, At, Base
<1>2. cmd.at \notin {"move", "moving"}
  BY <1>1 DEF SnapshotSteps
<1>3. CASE UNCHANGED <<backups, made, replaced>>
  BY <1>2, <1>3, QuietWatched
<1>4. CASE OpenTarball
  <2>1. /\ Len(backups) \in Nat /\ Len(backups)' = Len(backups) + 1
        /\ DOMAIN backups = 1..Len(backups) /\ DOMAIN backups' = 1..Len(backups) + 1
        /\ \A n \in DOMAIN backups : backups'[n] = backups[n]
    BY <1>4, OpenTarballBase
  <2>2. made' = made + 1 /\ replaced' = replaced /\ made \in Nat
    BY <1>4 DEF OpenTarball, history, Base, Types
  <2>3. Len(backups') = Len(backups) + 1
    BY <2>1
  <2>4. ASSUME NEW r \in replaced
        PROVE  r[4] = "saved" /\ Kept(r)'
    <3>1. r[4] = "saved" /\ Kept(r) /\ r[3] \in Nat /\ MaxSnapshots \in Nat
      BY <1>2, NothingCarried, DataRootAssumption DEF Base, Types
    <3>2. CASE made >= r[3] + MaxSnapshots
      <4>1. made + 1 >= r[3] + MaxSnapshots
        BY <2>2, <3>1, <3>2
      <4>2. QED
        BY <2>2, <3>1, <4>1 DEF Kept
    <3>3. CASE \E n \in DOMAIN backups : Saves(backups[n], r[1], r[2]) /\ made - Len(backups) + n >= r[3]
      <4>1. PICK n \in DOMAIN backups : Saves(backups[n], r[1], r[2]) /\ made - Len(backups) + n >= r[3]
        BY <3>3
      <4>2. n \in Nat /\ n \in DOMAIN backups' /\ backups'[n] = backups[n]
        BY <2>1
      <4>3. (made + 1) - (Len(backups) + 1) + n >= r[3]
        BY <2>1, <2>2, <3>1, <4>1, <4>2
      <4>4. Saves(backups'[n], r[1], r[2]) /\ made' - Len(backups') + n >= r[3]
        BY <2>2, <2>3, <4>1, <4>2, <4>3
      <4>5. QED
        BY <3>1, <4>2, <4>4 DEF Kept, Saves
    <3>4. QED
      BY <3>1, <3>2, <3>3 DEF Kept
  <2>5. QED
    BY <2>2, <2>4 DEF Watched
<1>5. CASE WriteTarball
  <2>1. /\ Len(backups) \in Nat /\ Len(backups)' = Len(backups)
        /\ DOMAIN backups = 1..Len(backups) /\ DOMAIN backups' = 1..Len(backups)
        /\ \A n \in DOMAIN backups : n # Len(backups) => backups'[n] = backups[n]
    BY <1>5, WriteTarballBase
  <2>2. made' = made /\ replaced' = replaced /\ ~backups[Len(backups)].whole /\ Len(backups') = Len(backups)
    BY <1>5, <2>1 DEF WriteTarball, history, Opened
  <2>3. ASSUME NEW r \in replaced
        PROVE  r[4] = "saved" /\ Kept(r)'
    <3>1. r[4] = "saved" /\ Kept(r)
      BY <1>2, NothingCarried DEF Base
    <3>2. CASE made >= r[3] + MaxSnapshots
      BY <2>2, <3>1, <3>2 DEF Kept
    <3>3. CASE \E n \in DOMAIN backups : Saves(backups[n], r[1], r[2]) /\ made - Len(backups) + n >= r[3]
      <4>1. PICK n \in DOMAIN backups : Saves(backups[n], r[1], r[2]) /\ made - Len(backups) + n >= r[3]
        BY <3>3
      <4>2. n # Len(backups)
        BY <2>2, <4>1 DEF Saves
      <4>3. n \in DOMAIN backups' /\ Saves(backups'[n], r[1], r[2]) /\ made' - Len(backups') + n >= r[3]
        BY <2>1, <2>2, <4>1, <4>2
      <4>4. QED
        BY <3>1, <4>3 DEF Kept, Saves
    <3>4. QED
      BY <3>1, <3>2, <3>3 DEF Kept
  <2>4. QED
    BY <2>2, <2>3 DEF Watched
<1>6. QED
  BY <1>3, <1>4, <1>5 DEF RunBackup, SnapshotData, CopyPart

LEMMA RotateWatched ==
    ASSUME Base, Watched, Rotate
    PROVE  Watched'
<1>1. At("rotate") /\ UNCHANGED <<made, replaced>> /\ cmd.at \notin {"move", "moving"}
  BY DEF Rotate, history, At
<1>2. CASE UNCHANGED backups
  BY <1>1, <1>2, QuietWatched
<1>3. CASE /\ Len(backups) \in Nat /\ Len(backups) > MaxSnapshots
           /\ Len(backups)' = Len(backups) - 1
           /\ DOMAIN backups = 1..Len(backups) /\ DOMAIN backups' = 1..Len(backups) - 1
           /\ \A n \in DOMAIN backups' : backups'[n] = backups[n + 1]
  <2>1. MaxSnapshots \in Nat \ {0} /\ made \in Nat /\ Len(backups') = Len(backups) - 1
    BY <1>3, DataRootAssumption DEF Base, Types
  <2>2. ASSUME NEW r \in replaced
        PROVE  r[4] = "saved" /\ Kept(r)'
    <3>1. r[4] = "saved" /\ Kept(r) /\ r[3] \in Nat
      BY <1>1, NothingCarried DEF Base, Types
    <3>2. CASE made >= r[3] + MaxSnapshots
      BY <1>1, <3>1, <3>2 DEF Kept
    <3>3. CASE \E n \in DOMAIN backups : Saves(backups[n], r[1], r[2]) /\ made - Len(backups) + n >= r[3]
      <4>1. PICK n \in DOMAIN backups : Saves(backups[n], r[1], r[2]) /\ made - Len(backups) + n >= r[3]
        BY <3>3
      <4>2. n \in 1..Len(backups) /\ n \in Nat
        BY <1>3
      <4>3. CASE n = 1
        <5>1. made >= r[3] + MaxSnapshots
          BY <1>3, <2>1, <3>1, <4>1, <4>3
        <5>2. QED
          BY <1>1, <3>1, <5>1 DEF Kept
      <4>4. CASE n # 1
        <5>1. n - 1 \in 1..Len(backups) - 1 /\ (n - 1) + 1 = n
          BY <1>3, <4>2, <4>4
        <5>2. n - 1 \in DOMAIN backups' /\ backups'[n - 1] = backups[n]
          BY <1>3, <5>1
        <5>3. made - (Len(backups) - 1) + (n - 1) >= r[3]
          BY <1>3, <2>1, <3>1, <4>1, <4>2
        <5>4. Saves(backups'[n - 1], r[1], r[2]) /\ made' - Len(backups') + (n - 1) >= r[3]
          BY <1>1, <2>1, <4>1, <5>2, <5>3
        <5>5. QED
          BY <3>1, <5>2, <5>4 DEF Kept, Saves
      <4>5. QED
        BY <4>3, <4>4
    <3>4. QED
      BY <3>1, <3>2, <3>3 DEF Kept
  <2>3. QED
    BY <1>1, <2>2 DEF Watched
<1>4. QED
  BY <1>2, <1>3, RotateBase

(* What is carried is not written over while the move goes on.             *)
LEMMA CarryWatched ==
    ASSUME Base, Watched, UNCHANGED <<backups, made>>, cmd'.at \in {"move", "moving"},
           \A i : Has(i) => Has(i)' /\ root'[i] = root[i],
           \A i \in DOMAIN nested : i \in DOMAIN nested' /\ nested'[i] = nested[i],
           \A r \in replaced' \ replaced : r[4] = "moved" /\ Carried(r)
    PROVE  Watched'
<1>1. ASSUME NEW r \in replaced'
      PROVE  (r[4] = "saved" => Kept(r)') /\ (r[4] = "moved" => Carried(r)')
  <2>1. (r[4] = "saved" => Kept(r)) /\ (r[4] = "moved" => Carried(r))
    BY DEF Watched
  <2>2. QED
    BY <2>1 DEF Kept, Saves, Carried, Has
<1>2. QED
  BY <1>1 DEF Watched

(* The end of a move, however it ends.                                     *)
LEMMA ForgetWatched ==
    ASSUME Base, Watched, UNCHANGED <<backups, made>>, replaced' = AfterMove
    PROVE  Watched'
<1>1. ASSUME NEW r \in replaced'
      PROVE  r[4] = "saved" /\ Kept(r)
  BY DEF AfterMove, Watched, Base, Types
<1>2. QED
  BY <1>1 DEF Watched, Kept, Saves

LEMMA UpdateWatched ==
    ASSUME Base, Course, Arrived, Watched, Update
    PROVE  Watched'
<1>1. CASE RunUpdate
  <2>1. cmd.at \notin {"move", "moving"} /\ UNCHANGED <<backups, made, replaced>>
    BY <1>1, StepsOf DEF RunUpdate, Begin, Base, At
  <2>2. QED
    BY <2>1, QuietWatched
<1>2. CASE StartMove
  <2>1. UNCHANGED <<backups, made, root, nested>>
    BY <1>2 DEF StartMove
  <2>2. CASE replaced' = AfterMove
    BY <2>1, <2>2, ForgetWatched
  <2>3. CASE replaced' = replaced /\ cmd'.at = "moving"
    BY <2>1, <2>3, CarryWatched DEF Has
  <2>4. QED
    BY <1>2, <2>2, <2>3 DEF StartMove, Base, Command
<1>3. CASE MoveByRename \/ MoveByCopy
  <2>1. cmd'.at \in {"move", "moving"}
    BY <1>3, MoveByRenameBase, MoveByCopyBase DEF Onto, At
  <2>2. UNCHANGED <<backups, made, replaced>>
    BY <1>3 DEF MoveByRename, MoveByCopy, history
  <2>3. QED
    BY <1>3, <2>1, <2>2, MoveKeeps, CarryWatched
<1>4. CASE RemoveMoved
  <2>1. PICK i \in ToMove :
            /\ ToMove = {i} => Onto({"move"})
            /\ ToMove # {i} => UNCHANGED cmd
            /\ replaced' = IF cmd.into = "root" /\ <<i, root[i]>> \in late THEN replaced
                           ELSE replaced \cup {<<i, legacy[i], made, "moved">>}
    BY <1>4, RemoveMovedBase
  <2>2. cmd'.at \in {"move", "moving"} /\ At("moving") /\ ToMove \subseteq There
    BY <1>4, <2>1 DEF RemoveMoved, Onto, At
  <2>3. UNCHANGED <<backups, made, root, nested>>
    BY <1>4 DEF RemoveMoved
  <2>4. i \in ToMove \cap There
    BY <2>1, <2>2
  <2>5. ASSUME NEW r \in replaced' \ replaced
        PROVE  r[4] = "moved" /\ Carried(r)
    <3>1. r = <<i, legacy[i], made, "moved">> /\ ~(cmd.into = "root" /\ <<i, root[i]>> \in late)
      BY <2>1
    <3>2. r[1] = i /\ r[2] = legacy[i] /\ r[4] = "moved"
      BY <3>1
    <3>3. CASE cmd.into = "root"
      <4>1. root[i] = legacy[i] /\ Has(i)
        BY <2>2, <2>4, <3>1, <3>3 DEF Arrived, There, Has
      <4>2. QED
        BY <3>2, <4>1 DEF Carried
    <3>4. CASE cmd.into # "root"
      <4>1. i \in DOMAIN nested /\ nested[i] = legacy[i]
        BY <2>2, <2>4, <3>4 DEF Arrived, There
      <4>2. QED
        BY <3>2, <4>1 DEF Carried
    <3>5. QED
      BY <3>3, <3>4
  <2>6. QED
    BY <2>2, <2>3, <2>5, CarryWatched DEF Has
<1>5. CASE Moved
  BY <1>5, ForgetWatched DEF Moved
<1>6. CASE Rotate
  BY <1>6, RotateWatched
<1>7. QED
  BY <1>1, <1>2, <1>3, <1>4, <1>5, <1>6 DEF Update

LEMMA RestoreWatched ==
    ASSUME Base, Course, Saved, Watched, Restore
    PROVE  Watched'
<1>1. CASE \E n \in DOMAIN backups, force \in BOOLEAN : RunRestore(n, force)
  <2>1. cmd.at \notin {"move", "moving"} /\ UNCHANGED <<backups, made, replaced>>
    BY <1>1, StepsOf DEF RunRestore, Base, At
  <2>2. QED
    BY <2>1, QuietWatched
<1>2. CASE ClearItem
  <2>1. PICK i \in ToClear :
            replaced' = IF cmd.force \/ cmd.stateless THEN replaced ELSE replaced \cup Taken({i})
    BY <1>2, ClearItemBase
  <2>2. At("clear") /\ UNCHANGED <<backups, made>> /\ cmd.at \notin {"move", "moving"}
    BY <1>2 DEF ClearItem, At
  <2>3. CASE replaced' = replaced
    BY <2>2, <2>3, QuietWatched
  <2>4. CASE ~cmd.force /\ ~cmd.stateless /\ replaced' = replaced \cup Taken({i})
    <3>1. i \in Item
      BY DEF ToClear, Base, Types, Dir
    <3>2. Safe(i)
      BY <2>2, <2>4, <3>1 DEF Saved
    <3>3. QED
      BY <2>2, <2>4, <3>2, TakeWatched
  <2>5. QED
    BY <2>1, <2>3, <2>4
<1>3. CASE Cleared \/ Extract \/ Restored \/ EndRestore
  <2>1. cmd.at \notin {"move", "moving"} /\ UNCHANGED <<backups, made, replaced>>
    BY <1>3 DEF Cleared, Extract, Restored, EndRestore, At, history
  <2>2. QED
    BY <2>1, QuietWatched
<1>4. QED
  BY <1>1, <1>2, <1>3 DEF Restore

LEMMA SkillWatched ==
    ASSUME Base, Course, Saved, Watched, Skill
    PROVE  Watched'
<1>1. UNCHANGED <<backups, made>>
  BY DEF Skill, SyncSkill, CopyTree, Stage, Aside, Place, DropOld, RecordSkill, InstallSkill, others
<1>2. cmd.at \in SkillSteps \cup {"sync", "idle"}
  BY StepsOf DEF Skill, SyncSkill, CopyTree, Stage, Aside, Place, DropOld, RecordSkill, InPlace, At,
                 SkillSteps, InstallSkill, Base
<1>3. cmd.at \notin {"move", "moving"}
  BY <1>2 DEF SkillSteps
<1>4. CASE replaced' = replaced
  BY <1>1, <1>3, <1>4, QuietWatched
<1>5. CASE Aside /\ cmd.op = "update" /\ replaced' = replaced \cup Taken({"skill"})
  <2>1. Safe("skill")
    BY <1>5 DEF Aside, Saved, At
  <2>2. QED
    BY <1>1, <1>3, <1>5, <2>1, TakeWatched
<1>6. QED
  BY <1>4, <1>5 DEF Skill, SyncSkill, CopyTree, Stage, Aside, Place, DropOld, RecordSkill, InstallSkill, history

LEMMA RestWatched ==
    ASSUME Base, Saved, Watched, MigrateHeartbeat \/ RunInit \/ CreateMissing
    PROVE  Watched'
<1>1. UNCHANGED <<backups, made>>
  BY DEF MigrateHeartbeat, RunInit, CreateMissing, others
<1>2. cmd.at \notin {"move", "moving"}
  BY StepsOf DEF MigrateHeartbeat, RunInit, CreateMissing, Begin, At, Base
<1>3. CASE replaced' = replaced
  BY <1>1, <1>2, <1>3, QuietWatched
<1>4. CASE At("heartbeatJob") /\ replaced' = replaced \cup Taken({"jobs"})
  <2>1. cmd.op = "update"
    BY <1>4, StepsOf DEF Base, At
  <2>2. Safe("jobs")
    BY <1>4, <2>1 DEF Saved, At
  <2>3. QED
    BY <1>1, <1>2, <1>4, <2>2, TakeWatched
<1>5. QED
  BY <1>3, <1>4 DEF MigrateHeartbeat, RunInit, CreateMissing, history

LEMMA BesideWatched ==
    ASSUME Base, Watched, Serve \/ Edit
    PROVE  Watched'
<1>1. PICK item \in {"db", "notes", "skill", "ext"} :
          Write(item, root'[item]) /\ Reaches(item) /\ Fits(item, root'[item])
  BY Beside
<1>2. /\ UNCHANGED cmd /\ DOMAIN root' = DOMAIN root \cup {item}
      /\ \A i \in DOMAIN root \ {item} : root'[i] = root[i]
  BY <1>1, WriteBase
<1>3. /\ UNCHANGED <<backups, made, nested>>
      /\ replaced' = {r \in replaced : ~(r[4] = "moved" /\ r[1] = item /\ Has(item) /\ r[2] = root[item])}
  BY <1>1 DEF Write
<1>4. ASSUME NEW r \in replaced'
      PROVE  (r[4] = "saved" => Kept(r)') /\ (r[4] = "moved" => cmd'.at \in {"move", "moving"} /\ Carried(r)')
  <2>1. r \in replaced /\ ~(r[4] = "moved" /\ r[1] = item /\ Has(item) /\ r[2] = root[item])
    BY <1>3
  <2>2. r[4] = "saved" => Kept(r)'
    BY <1>3, <2>1 DEF Watched, Kept, Saves
  <2>3. r[4] = "moved" => cmd.at \in {"move", "moving"} /\ Carried(r)
    BY <2>1 DEF Watched
  <2>4. r[4] = "moved" => Carried(r)'
    BY <1>2, <1>3, <2>1, <2>3 DEF Carried, Has
  <2>5. QED
    BY <1>2, <2>2, <2>3, <2>4
<1>5. QED
  BY <1>4 DEF Watched

LEMMA WatchedStep ==
    ASSUME Base, Course, Opened, Saved, Arrived, Watched, [Next]_vars
    PROVE  Watched'
<1>1. CASE RunBackup \/ SnapshotData
  BY <1>1, SnapshotWatched
<1>2. CASE Restore
  BY <1>2, RestoreWatched
<1>3. CASE Update
  BY <1>3, UpdateWatched
<1>4. CASE Skill
  BY <1>4, SkillWatched
<1>5. CASE MigrateHeartbeat \/ RunInit \/ CreateMissing
  BY <1>5, RestWatched
<1>6. CASE Extension
  <2>1. UNCHANGED <<backups, made, replaced>>
    BY <1>6 DEF Extension, BeginUpdateExtension, Bak, ReplaceExtension, BeginWizard, RefuseExtension,
                CopyExtension, AddRequirement, RecordExtension, others, history
  <2>2. cmd.at \in {"idle", "bak", "replace", "copyExtension", "copyingExtension", "requirement",
                    "recordExtension", "recordingExtension"}
    BY <1>6, StepsOf DEF Extension, BeginUpdateExtension, Bak, ReplaceExtension, BeginWizard, RefuseExtension,
                CopyExtension, AddRequirement, RecordExtension, Begin, InPlace, At, Base
  <2>3. QED
    BY <2>1, <2>2, QuietWatched
<1>7. CASE Wizards
  <2>1. UNCHANGED <<backups, made, replaced>>
    BY <1>7 DEF Wizards, SaveSecret, Enable, DefaultJobs, BeginProviderWizard, SetSlots, others, history
  <2>2. cmd.at \in {"idle", "secret", "enable", "defaultJobs", "writingJobs", "slots"}
    BY <1>7, StepsOf DEF Wizards, SaveSecret, Enable, DefaultJobs, BeginProviderWizard, SetSlots, At, Base
  <2>3. QED
    BY <2>1, <2>2, QuietWatched
<1>8. CASE Serve \/ Edit
  BY <1>8, BesideWatched
<1>9. CASE Kill
  BY <1>9, ForgetWatched DEF Kill
<1>10. CASE DeleteSkill \/ Upgrade \/ Rebuild
  <2>1. UNCHANGED <<backups, made, replaced>> /\ cmd.at = "idle"
    BY <1>10, StepsOf DEF DeleteSkill, Upgrade, Rebuild, history, Base, At
  <2>2. QED
    BY <2>1, QuietWatched
<1>11. CASE UNCHANGED vars
  BY <1>11 DEF Watched, Kept, Saves, Carried, vars, history, Has
<1>12. QED
  BY <1>1, <1>2, <1>3, <1>4, <1>5, <1>6, <1>7, <1>8, <1>9, <1>10, <1>11 DEF Next

(* What `faff restore` without --force and `faff update` take out of the   *)
(* data root, or out of a checkout that held it, can be had again: it is   *)
(* in a whole tarball, or was carried over, until MaxSnapshots more have   *)
(* been made.  Rotation takes the oldest, a tarball that was cut short     *)
(* counts for nothing, and a kill anywhere leaves this so.                 *)
THEOREM NothingIsLost == Spec => []ReplacedIsRecoverable
<1> DEFINE Inv == Base /\ Course /\ Snapshot /\ Opened /\ Saved /\ Arrived /\ Watched
<1>1. Init => Inv
  <2>1. Init => Snapshot /\ Opened /\ Saved /\ Arrived /\ Watched
    BY DEF Init, Snapshot, Opened, Saved, Arrived, Watched, Idle, At, SkillSteps
  <2>2. QED
    BY <2>1, BaseInit
<1>2. Inv /\ [Next]_vars => Inv'
  BY BaseStep, SnapshotStep, SavedStep, ArrivedStep, WatchedStep
<1>3. Inv => ReplacedIsRecoverable
  <2>1. SUFFICES ASSUME Base, Watched, NEW r \in replaced
                 PROVE  Recoverable(r[1], r[2]) \/ made >= r[3] + MaxSnapshots
    BY DEF ReplacedIsRecoverable
  <2>2. CASE r[4] = "saved"
    BY <2>1, <2>2 DEF Watched, Kept, Saves, Recoverable
  <2>3. CASE r[4] = "moved"
    BY <2>1, <2>3 DEF Watched, Carried, Recoverable
  <2>4. QED
    BY <2>1, <2>2, <2>3 DEF Base, Types
<1>4. QED
  BY <1>1, <1>2, <1>3, PTL DEF Spec


-----------------------------------------------------------------------------
(* Keys, config and extension belong together                              *)

LEMMA AlikeIs ==
    ASSUME NEW d, NEW e, Alike(d, e)
    PROVE  /\ BackedDir(d) => BackedDir(e)
           /\ RecordedDir(d) => RecordedDir(e)
<1>1. /\ "config" \in DOMAIN d <=> "config" \in DOMAIN e
      /\ "config" \in DOMAIN d => d["config"] = e["config"]
      /\ "keys" \in DOMAIN d <=> "keys" \in DOMAIN e
      /\ "keys" \in DOMAIN d => d["keys"] = e["keys"]
      /\ "ext" \in DOMAIN d <=> "ext" \in DOMAIN e
      /\ "extOrigin" \in DOMAIN d <=> "extOrigin" \in DOMAIN e
      /\ "extOrigin" \in DOMAIN d => d["extOrigin"] = e["extOrigin"]
      /\ "requirements" \in DOMAIN d <=> "requirements" \in DOMAIN e
      /\ "requirements" \in DOMAIN d => d["requirements"] = e["requirements"]
  BY DEF Alike, Core
<1>2. KeysOf(d) = KeysOf(e)
  BY <1>1 DEF KeysOf
<1>3. BackedDir(d) => BackedDir(e)
  BY <1>1, <1>2 DEF BackedDir
<1>4. RecordedDir(d) => RecordedDir(e)
  BY <1>1 DEF RecordedDir, PackageListed
<1>5. QED
  BY <1>3, <1>4

LEMMA NoConfig ==
    ASSUME NEW d, "config" \notin DOMAIN d
    PROVE  BackedDir(d) /\ RecordedDir(d)
BY DEF BackedDir, RecordedDir

LEMMA CoreIs ==
    /\ Core \subseteq Item
    /\ \A i \in Core : Part[i] \in {"state", "extensions"} \/ i = "requirements"
BY PartIs DEF Core

LEMMA LeavesAlike ==
    ASSUME NEW items, Leaves(items), items \cap Core = {}
    PROVE  Alike(root, root')
BY CoreIs DEF Leaves, Alike, Has

(* A root without state/ has none of them.                                 *)
LEMMA Bare ==
    ASSUME Placed, "state" \notin dirs
    PROVE  DOMAIN root \cap Core = {}
BY CoreIs DEF Placed, Has

LEMMA BareJoint ==
    ASSUME Placed, "state" \notin dirs
    PROVE  Alike(legacy, Joint)
BY Bare DEF Alike, Joint, Over

LEMMA SoundAlike ==
    ASSUME NEW d, NEW e, Alike(d, e), Sound(d)
    PROVE  Sound(e)
BY AlikeIs DEF Sound

-----------------------------------------------------------------------------
(* The move out of the checkout                                            *)

(* Whatever happens, state/ stays.                                         *)
LEMMA StateStays ==
    ASSUME Base, Course, [Next]_vars, "state" \in dirs
    PROVE  "state" \in dirs'
<1>1. CASE RunBackup \/ SnapshotData
  BY <1>1 DEF RunBackup, SnapshotData, CopyPart, OpenTarball, WriteTarball
<1>2. CASE Restore
  <2>1. CASE ClearItem
    BY <2>1 DEF ClearItem
  <2>2. CASE Cleared \/ Extract
    BY <2>2 DEF Cleared, Extract
  <2>3. CASE \E n \in DOMAIN backups, force \in BOOLEAN : RunRestore(n, force)
    BY <2>3 DEF RunRestore
  <2>4. CASE Restored \/ EndRestore
    BY <2>4 DEF Restored, EndRestore
  <2>5. QED
    BY <1>2, <2>1, <2>2, <2>3, <2>4 DEF Restore
<1>3. CASE Update
  BY <1>3 DEF Update, RunUpdate, StartMove, MoveByRename, MoveByCopy, RemoveMoved, Moved, Rotate
<1>4. CASE Skill
  BY <1>4 DEF Skill, SyncSkill, CopyTree, Stage, Aside, Place, DropOld, RecordSkill, InstallSkill, others
<1>5. CASE MigrateHeartbeat \/ RunInit \/ CreateMissing
  BY <1>5 DEF MigrateHeartbeat, RunInit, CreateMissing, others
<1>6. CASE Extension
  BY <1>6 DEF Extension, BeginUpdateExtension, Bak, ReplaceExtension, BeginWizard, RefuseExtension,
              CopyExtension, AddRequirement, RecordExtension, others
<1>7. CASE Wizards
  BY <1>7 DEF Wizards, SaveSecret, Enable, DefaultJobs, BeginProviderWizard, SetSlots, others
<1>8. CASE Serve \/ Edit \/ Kill \/ DeleteSkill \/ Upgrade \/ Rebuild
  BY <1>8 DEF Serve, Edit, Write, Kill, DeleteSkill, Upgrade, Rebuild
<1>9. CASE UNCHANGED vars
  BY <1>9 DEF vars
<1>10. QED
  BY <1>1, <1>2, <1>3, <1>4, <1>5, <1>6, <1>7, <1>8, <1>9 DEF Next

(* Only a move changes what is in the checkout's data root.                *)
LEMMA LegacyStays ==
    ASSUME [Next]_vars, ~Update
    PROVE  legacy' = legacy
<1>1. CASE RunBackup \/ SnapshotData \/ Restore
  BY <1>1 DEF RunBackup, SnapshotData, CopyPart, OpenTarball, WriteTarball, Restore, RunRestore, ClearItem,
              Cleared, Extract, Restored, EndRestore
<1>2. CASE Skill \/ MigrateHeartbeat \/ RunInit \/ CreateMissing
  BY <1>2 DEF Skill, SyncSkill, CopyTree, Stage, Aside, Place, DropOld, RecordSkill, InstallSkill, others,
              MigrateHeartbeat, RunInit, CreateMissing
<1>3. CASE Extension \/ Wizards
  BY <1>3 DEF Extension, BeginUpdateExtension, Bak, ReplaceExtension, BeginWizard, RefuseExtension,
              CopyExtension, AddRequirement, RecordExtension, others,
              Wizards, SaveSecret, Enable, DefaultJobs, BeginProviderWizard, SetSlots
<1>4. CASE Serve \/ Edit \/ Kill \/ DeleteSkill \/ Upgrade \/ Rebuild
  BY <1>4 DEF Serve, Edit, Write, Kill, DeleteSkill, Upgrade, Rebuild
<1>5. CASE UNCHANGED vars
  BY <1>5 DEF vars
<1>6. QED
  BY <1>1, <1>2, <1>3, <1>4, <1>5 DEF Next

LEMMA UnmovedStep ==
    ASSUME Base, Course, Unmoved, [Next]_vars
    PROVE  Unmoved'
<1>1. SUFFICES ASSUME "state" \notin dirs', "state" \notin dirs
               PROVE  Sound(legacy)'
  BY StateStays DEF Unmoved
<1>2. Sound(legacy)
  BY <1>1 DEF Unmoved
<1>3. CASE legacy' = legacy
  BY <1>2, <1>3 DEF Sound, BackedDir, RecordedDir, KeysOf, NoTree, Torn, Tree
<1>4. CASE MoveByRename \/ RemoveMoved
  <2>1. At("moving") /\ Moving # {}
    BY <1>4, MovingIs DEF MoveByRename, RemoveMoved, Base
  <2>2. MovePart = "workspace"
    <3>1. MovePart \in dirs /\ ~Gone("state")
      BY <1>1, <2>1 DEF Course, At
    <3>2. QED
      BY <1>1, <2>1, <3>1, ToMoveIs DEF Base
  <2>3. \A i \in Core : i \notin ToMove
    BY <2>2, PartIs DEF ToMove, ItemsOf, Core
  <2>4. Alike(legacy, legacy')
    <3>1. CASE MoveByRename
      BY <2>3, <3>1, MoveByRenameBase DEF Alike
    <3>2. CASE RemoveMoved
      BY <2>3, <3>2, RemoveMovedBase DEF Alike
    <3>3. QED
      BY <1>4, <3>1, <3>2
  <2>5. QED
    BY <1>2, <2>4, SoundAlike DEF Sound
<1>5. CASE Moved
  <2>1. At("move") /\ \A i \in DOMAIN legacy : Part[i] = "requirements"
    BY <1>5, MovedBase
  <2>2. Gone("state")
    BY <2>1 DEF Gone, ItemsOf
  <2>3. QED
    BY <1>1, <2>1, <2>2 DEF Course, At
<1>6. QED
  BY <1>3, <1>4, <1>5, LegacyStays DEF Update, RunUpdate, StartMove, MoveByCopy, Rotate


LEMMA OutsideMove ==
    ASSUME cmd'.at \notin {"move", "moving"}
    PROVE  Move'
BY DEF Move, At

(* A move carries what config and keys are, or does not touch them.        *)
LEMMA MoveAlike ==
    ASSUME Base, Course, Move, MoveByRename \/ MoveByCopy \/ RemoveMoved
    PROVE  Alike(Joint, Joint') /\ Sound(Joint)'
<1>1. At("moving") /\ Sound(Joint) /\ (cmd.into # "root" => MovePart = "workspace")
  BY DEF MoveByRename, MoveByCopy, RemoveMoved, Move, At, Base, Command
<1>2. MovePart = "workspace" => ToMove \cap Core = {}
  BY PartIs DEF ToMove, ItemsOf, Core
<1>3. ASSUME NEW items, items \subseteq ToMove, items \subseteq DOMAIN legacy, items \cap There = {}, Into(items),
             DOMAIN legacy' = DOMAIN legacy \/ (items = ToMove /\ DOMAIN legacy' = DOMAIN legacy \ ToMove),
             \A i \in DOMAIN legacy' : legacy'[i] = legacy[i]
      PROVE  Alike(Joint, Joint')
  <2>1. CASE cmd.into = "root"
    <3>1. /\ DOMAIN root' = DOMAIN root \cup items
          /\ \A i \in items : root'[i] = legacy[i]
          /\ \A i \in DOMAIN root \ items : root'[i] = root[i]
      BY <1>3, <2>1, IntoIs
    <3>2. items \cap DOMAIN root = {}
      BY <1>3, <2>1 DEF There
    <3>3. DOMAIN Joint' = DOMAIN Joint
      BY <1>3, <3>1 DEF Joint, Over
    <3>4. \A i \in DOMAIN Joint : Joint'[i] = Joint[i]
      BY <1>3, <3>1, <3>2 DEF Joint, Over
    <3>5. QED
      BY <3>3, <3>4 DEF Alike
  <2>2. CASE cmd.into # "root"
    <3>1. root' = root
      BY <1>3, <2>2, IntoIs
    <3>2. \A i \in Core : i \in DOMAIN legacy' <=> i \in DOMAIN legacy
      BY <1>1, <1>2, <1>3, <2>2
    <3>3. QED
      BY <1>3, <3>1, <3>2 DEF Alike, Joint, Over
  <2>3. QED
    BY <2>1, <2>2
<1>4. ASSUME MoveByRename \/ MoveByCopy
      PROVE  Alike(Joint, Joint')
  <2>1. PICK items : /\ items \subseteq ToMove /\ items \subseteq DOMAIN legacy /\ items \cap There = {}
                     /\ Into(items) /\ (MoveByRename => items = ToMove)
    BY <1>4, MoveAdds
  <2>2. CASE MoveByRename
    <3>1. DOMAIN legacy' = DOMAIN legacy \ ToMove /\ \A i \in DOMAIN legacy \ ToMove : legacy'[i] = legacy[i]
      BY <2>2, MoveByRenameBase
    <3>2. items = ToMove /\ \A i \in DOMAIN legacy' : legacy'[i] = legacy[i]
      BY <2>1, <2>2, <3>1
    <3>3. DOMAIN legacy' = DOMAIN legacy \/ (items = ToMove /\ DOMAIN legacy' = DOMAIN legacy \ ToMove)
      BY <3>1, <3>2
    <3>4. QED
      BY <1>3, <2>1, <3>2, <3>3
  <2>3. CASE MoveByCopy
    <3>1. legacy' = legacy
      BY <2>3 DEF MoveByCopy
    <3>2. DOMAIN legacy' = DOMAIN legacy /\ \A i \in DOMAIN legacy' : legacy'[i] = legacy[i]
      BY <3>1
    <3>3. DOMAIN legacy' = DOMAIN legacy \/ (items = ToMove /\ DOMAIN legacy' = DOMAIN legacy \ ToMove)
      BY <3>2
    <3>4. QED
      BY <1>3, <2>1, <3>2, <3>3
  <2>4. QED
    BY <1>4, <2>2, <2>3
<1>5. ASSUME RemoveMoved
      PROVE  Alike(Joint, Joint')
  <2>1. PICK i \in ToMove : DOMAIN legacy' = DOMAIN legacy \ {i} /\ \A j \in DOMAIN legacy \ {i} : legacy'[j] = legacy[j]
    BY <1>5, RemoveMovedBase
  <2>2. root' = root /\ i \in There
    BY <1>5 DEF RemoveMoved
  <2>3. CASE cmd.into = "root"
    <3>1. i \in DOMAIN root
      BY <2>2, <2>3 DEF There
    <3>2. DOMAIN Joint' = DOMAIN Joint
      BY <2>1, <2>2, <3>1 DEF Joint, Over
    <3>3. \A j \in DOMAIN Joint : Joint'[j] = Joint[j]
      BY <2>1, <2>2, <3>1 DEF Joint, Over
    <3>4. QED
      BY <3>2, <3>3 DEF Alike
  <2>4. CASE cmd.into # "root"
    <3>1. i \notin Core
      BY <1>1, <1>2, <2>4
    <3>2. \A j \in Core : j \in DOMAIN Joint' <=> j \in DOMAIN Joint
      BY <2>1, <2>2, <3>1 DEF Joint, Over
    <3>3. \A j \in Core : j \in DOMAIN Joint => Joint'[j] = Joint[j]
      BY <2>1, <2>2, <3>1 DEF Joint, Over
    <3>4. QED
      BY <3>2, <3>3 DEF Alike
  <2>5. QED
    BY <2>3, <2>4
<1>6. Alike(Joint, Joint')
  BY <1>4, <1>5
<1>7. Sound(Joint)'
  <2>1. Sound(Joint')
    BY <1>1, <1>6, SoundAlike
  <2>2. QED
    BY <2>1 DEF Sound, BackedDir, RecordedDir, KeysOf, NoTree, Torn, Tree
<1>8. QED
  BY <1>6, <1>7

LEMMA UpdateMove ==
    ASSUME Base, Course, Unmoved, Move, Update
    PROVE  Move'
<1>1. CASE RunUpdate
  <2>1. cmd'.at = (IF "state" \in dirs THEN "copyState" ELSE "move") /\ UNCHANGED <<root, legacy, dirs>>
    BY <1>1, RunUpdateBase DEF RunUpdate
  <2>2. CASE "state" \in dirs
    BY <2>1, <2>2, OutsideMove
  <2>3. CASE "state" \notin dirs
    <3>1. Sound(legacy) /\ Alike(legacy, Joint)
      BY <2>3, BareJoint DEF Unmoved, Base
    <3>2. Sound(Joint) /\ "extensions" \notin dirs /\ ~Has("requirements")
      BY <2>3, <3>1, SoundAlike DEF Base, Placed
    <3>3. Sound(Joint)'
      BY <2>1, <3>2 DEF Sound, BackedDir, RecordedDir, KeysOf, NoTree, Torn, Tree, Joint
    <3>4. QED
      BY <2>1, <2>3, <3>2, <3>3 DEF Move, At, Has
  <2>4. QED
    BY <2>2, <2>3
<1>2. CASE StartMove
  <2>1. CASE Ended
    BY <2>1, OutsideMove DEF Ended
  <2>2. CASE ~Ended
    <3>1. /\ cmd'.at = "moving" /\ cmd'.into \in {"root", "nested"} /\ dirs' = dirs \cup {MovePart}
          /\ cmd'.into = "root" <=> MovePart \notin dirs
      BY <1>2, <2>2, StartMoveBase
    <3>2. UNCHANGED <<root, legacy>> /\ halfway' = "apart" /\ At("move") /\ Moving # {}
      BY <1>2 DEF StartMove
    <3>3. /\ MovePart \in {"workspace", "state", "extensions"} /\ ~Gone(MovePart)
          /\ MovePart' = MovePart
      BY <3>2, ToMoveIs DEF Base, MovePart
    <3>4. /\ Sound(Joint) /\ ~Has("requirements")
          /\ \A p \in {"state", "extensions"} : p \in dirs => Gone(p)
      BY <3>2 DEF Move, At
    <3>5. Sound(Joint)'
      BY <3>2, <3>4 DEF Sound, BackedDir, RecordedDir, KeysOf, NoTree, Torn, Tree, Joint
    <3>6. cmd'.into = "nested" => MovePart = "workspace"
      BY <3>1, <3>3, <3>4
    <3>7. \A p \in {"state", "extensions"} : p \in dirs' => Gone(p)' \/ MovePart' = p
      BY <3>1, <3>2, <3>3, <3>4 DEF Gone
    <3>8. QED
      BY <3>1, <3>2, <3>3, <3>4, <3>5, <3>6, <3>7 DEF Move, At, Has
  <2>3. QED
    BY <2>1, <2>2
<1>3. CASE MoveByRename \/ MoveByCopy \/ RemoveMoved
  <2>1. /\ At("moving") /\ dirs' = dirs /\ halfway' = halfway
    BY <1>3 DEF MoveByRename, MoveByCopy, RemoveMoved, history
  <2>2. /\ \A p \in {"state", "extensions"} : p \in dirs => Gone(p) \/ MovePart = p
        /\ halfway = "apart" /\ (cmd.into = "nested" => MovePart = "workspace")
    BY <2>1 DEF Move, At
  <2>3. Sound(Joint)' /\ ~Has("requirements")'
    <3>1. /\ ToMove \subseteq DOMAIN legacy /\ \A i \in ToMove : Part[i] = MovePart
          /\ MovePart \in dirs
      BY <2>1, MovingIs, ToMoveIs DEF Base, Course
    <3>2. "requirements" \notin ToMove
      BY <3>1, PartIs DEF Base, Types
    <3>3. DOMAIN root' \subseteq DOMAIN root \cup ToMove
      <4>1. CASE MoveByRename
        BY <3>1, <4>1, IntoIs DEF MoveByRename
      <4>2. CASE MoveByCopy
        <5>1. PICK i \in ToMove : Into({i})
          BY <4>2 DEF MoveByCopy
        <5>2. QED
          BY <3>1, <5>1, IntoIs
      <4>3. CASE RemoveMoved
        BY <4>3 DEF RemoveMoved
      <4>4. QED
        BY <1>3, <4>1, <4>2, <4>3
    <3>4. ~Has("requirements")
      BY <2>1 DEF Move, At
    <3>5. QED
      BY <1>3, <3>2, <3>3, <3>4, MoveAlike DEF Has
  <2>4. CASE MoveByRename
    <3>1. Onto({"move"}) /\ DOMAIN legacy' = DOMAIN legacy \ ToMove
      BY <2>4, MoveByRenameBase
    <3>2. \A p \in {"state", "extensions"} : p \in dirs' => Gone(p)'
      BY <2>1, <2>2, <3>1 DEF Gone, ToMove
    <3>3. QED
      BY <2>3, <3>1, <3>2 DEF Move, Onto, At
  <2>5. CASE MoveByCopy
    <3>1. UNCHANGED <<cmd, legacy>>
      BY <2>5 DEF MoveByCopy
    <3>2. MovePart' = MovePart /\ \A p : Gone(p)' <=> Gone(p)
      BY <3>1 DEF MovePart, Gone
    <3>3. QED
      BY <2>1, <2>2, <2>3, <3>1, <3>2 DEF Move, At
  <2>6. CASE RemoveMoved
    <3>1. PICK i \in ToMove :
            /\ ToMove = {i} => Onto({"move"})
            /\ ToMove # {i} => UNCHANGED cmd
            /\ DOMAIN legacy' = DOMAIN legacy \ {i}
      BY <2>6, RemoveMovedBase
    <3>2. \A p : Gone(p) => Gone(p)'
      BY <3>1 DEF Gone
    <3>3. CASE ToMove = {i}
      <4>1. Gone(MovePart) \/ \A p : p = MovePart => Gone(p)'
        BY <3>1, <3>3 DEF Gone, ToMove
      <4>2. \A p \in {"state", "extensions"} : p \in dirs' => Gone(p)'
        BY <2>1, <2>2, <3>2, <4>1
      <4>3. QED
        BY <2>3, <3>1, <3>3, <4>2 DEF Move, Onto, At
    <3>4. CASE ToMove # {i}
      <4>1. PICK j \in ToMove : j # i
        BY <3>1, <3>4
      <4>2. j \in ItemsOf(MovePart) \cap DOMAIN legacy' /\ DOMAIN legacy \subseteq Item
        BY <3>1, <4>1 DEF ToMove, Base, Types, Dir
      <4>3. ItemsOf(FirstPart(DOMAIN legacy)) \cap DOMAIN legacy' # {} /\ DOMAIN legacy' \subseteq DOMAIN legacy
        BY <3>1, <4>2 DEF MovePart
      <4>4. MovePart' = MovePart
        BY <4>2, <4>3, FirstPartStays DEF MovePart
      <4>5. QED
        BY <2>1, <2>2, <2>3, <3>1, <3>2, <3>4, <4>4 DEF Move, At
    <3>5. QED
      BY <3>3, <3>4
  <2>7. QED
    BY <1>3, <2>4, <2>5, <2>6
<1>4. CASE Moved
  BY <1>4, MovedBase, OutsideMove DEF Onto
<1>5. CASE Rotate
  BY <1>5, RotateBase, OutsideMove DEF Onto, At
<1>6. QED
  BY <1>1, <1>2, <1>3, <1>4, <1>5 DEF Update

(* What is written beside a command is nothing that this speaks of.        *)
LEMMA BesideAlike ==
    ASSUME Base, Serve \/ Edit
    PROVE  /\ Alike(root, root') /\ Alike(Joint, Joint') /\ UNCHANGED cmd
           /\ \A i \in Item \ {"db", "notes", "skill", "ext"} : (Has(i)' <=> Has(i)) /\ (Has(i) => root'[i] = root[i])
           /\ \A i \in {"skill", "ext"} : Has(i)' <=> Has(i)
           /\ UNCHANGED <<dirs, backups, legacy, checkout, archive, halfway>>
<1>1. PICK item \in {"db", "notes", "skill", "ext"} :
          Write(item, root'[item]) /\ Reaches(item) /\ Fits(item, root'[item])
  BY Beside
<1>2. /\ UNCHANGED cmd /\ DOMAIN root' = DOMAIN root \cup {item}
      /\ \A i \in DOMAIN root \ {item} : root'[i] = root[i]
  BY <1>1, WriteBase
<1>3. UNCHANGED <<dirs, backups, legacy, checkout, archive, halfway>>
  BY <1>1 DEF Write
<1>4. /\ \A i \in Core : i \in DOMAIN root /\ i # "ext" => root'[i] = root[i]
      /\ item \in Core \cup {"skill", "ext"} => Has(item)
      /\ \A i \in Core : i \in DOMAIN root' <=> i \in DOMAIN root
  <2>1. item \in Core \cup {"skill", "ext"} => Has(item)
    BY <1>1 DEF Core, Reaches
  <2>2. QED
    BY <1>1, <1>2, <2>1 DEF Core, Has
<1>5. Alike(root, root')
  BY <1>2, <1>4 DEF Alike
<1>6. Alike(Joint, Joint')
  BY <1>2, <1>3, <1>4 DEF Alike, Joint, Over
<1>7. QED
  BY <1>1, <1>2, <1>3, <1>4, <1>5, <1>6 DEF Has

LEMMA MoveStep ==
    ASSUME Base, Course, Unmoved, Move, [Next]_vars
    PROVE  Move'
<1>1. Base' /\ (cmd'.op # "update" => cmd'.at \notin {"move", "moving"})
  BY BaseStep DEF Base, Command, Where, SnapshotSteps, SkillSteps, RecordSteps
<1>2. CASE RunBackup \/ SnapshotData
  BY <1>2, SnapshotOp, OutsideMove DEF SnapshotSteps
<1>3. CASE Update
  BY <1>3, UpdateMove
<1>4. CASE Skill
  <2>1. cmd'.at \in SkillSteps \cup {"heartbeatJob", "config", "idle"}
    BY <1>4, SkillPlace
  <2>2. QED
    BY <2>1, OutsideMove DEF SkillSteps
<1>5. CASE MigrateHeartbeat \/ RunInit \/ CreateMissing
  BY <1>5, MigrateHeartbeatBase, RunInitBase, CreateMissingBase, OutsideMove DEF Ended, Onto
<1>6. CASE Restore \/ Extension \/ Wizards \/ Kill \/ DeleteSkill \/ Upgrade \/ Rebuild
  BY <1>1, <1>6, RestoreOp, ExtensionOp, WizardsOp, IdleOp, OutsideMove
<1>7. CASE Serve \/ Edit
  <2>1. UNCHANGED <<dirs, legacy, cmd, halfway>> /\ Alike(Joint, Joint')
    BY <1>7, BesideAlike
  <2>2. MovePart' = MovePart /\ \A p : Gone(p)' <=> Gone(p)
    BY <2>1 DEF MovePart, Gone
  <2>3. Sound(Joint) => Sound(Joint)'
    <3>1. Sound(Joint) => Sound(Joint')
      BY <2>1, SoundAlike
    <3>2. QED
      BY <3>1 DEF Sound, BackedDir, RecordedDir, KeysOf, NoTree, Torn, Tree
  <2>4. Has("requirements")' <=> Has("requirements")
    BY <1>7, BesideAlike, PartIs
  <2>5. QED
    BY <2>1, <2>2, <2>3, <2>4 DEF Move, At
<1>8. CASE UNCHANGED vars
  <2>1. UNCHANGED <<root, legacy, dirs, cmd, halfway>>
    BY <1>8 DEF vars, history
  <2>2. Sound(Joint) => Sound(Joint)'
    BY <2>1 DEF Sound, BackedDir, RecordedDir, KeysOf, NoTree, Torn, Tree, Joint
  <2>3. MovePart' = MovePart /\ \A p : Gone(p)' <=> Gone(p)
    BY <2>1 DEF MovePart, Gone
  <2>4. QED
    BY <2>1, <2>2, <2>3 DEF Move, At, Has
<1>9. QED
  BY <1>2, <1>3, <1>4, <1>5, <1>6, <1>7, <1>8 DEF Next

-----------------------------------------------------------------------------
(* The tarballs                                                            *)

LEMMA QuietTarballs ==
    ASSUME Tarballs, UNCHANGED <<backups, archive>>, cmd'.op = "restore" => cmd.op = "restore"
    PROVE  Tarballs'
BY DEF Tarballs, SoundTarball, BackedDir, RecordedDir, KeysOf, NoTree, Torn, Tree

(* Nobody writes an item of Core while a snapshot is taken.                *)
LEMMA CopiedAlike ==
    ASSUME Base, Snapshot, At("write")
    PROVE  Alike(root, copied)
<1>1. ASSUME NEW i \in Core
      PROVE  /\ Has(i) <=> i \in DOMAIN copied
             /\ Has(i) /\ i # "ext" => root[i] = copied[i]
  <2>1. /\ i \in DOMAIN copied <=> Has(i)
        /\ i \in DOMAIN copied => copied[i] = root[i] \/ <<i, root[i]>> \in late
    <3>1. i \in Item /\ i \notin {"db", "notes"}
      BY CoreIs DEF Core
    <3>2. Staged(i) /\ cmd.at \in {"copyWorkspace", "copyRest", "tar", "write"}
      BY DEF Staged, At
    <3>3. QED
      BY <3>1, <3>2 DEF Snapshot
  <2>2. i # "ext" => <<i, root[i]>> \notin late
    <3>1. \A w \in late : w[1] \in {"db", "notes", "skill", "ext"}
      BY DEF Base, Types
    <3>2. <<i, root[i]>>[1] = i
      OBVIOUS
    <3>3. QED
      BY <3>1, <3>2 DEF Core
  <2>3. QED
    BY <2>1, <2>2
<1>2. QED
  BY <1>1 DEF Alike, Has

LEMMA SnapshotTarballs ==
    ASSUME Base, Course, Snapshot, Opened, Backed, Recorded, Tarballs, RunBackup \/ SnapshotData
    PROVE  Tarballs'
<1>1. cmd'.op = "restore" => cmd.op = "restore"
  BY SnapshotOp
<1>2. archive' = archive
  BY DEF RunBackup, SnapshotData, CopyPart, OpenTarball, WriteTarball
<1>3. CASE backups' = backups
  BY <1>1, <1>2, <1>3, QuietTarballs
<1>4. ASSUME \A n \in DOMAIN backups' : backups'[n].whole => SoundTarball(backups'[n])
      PROVE  Tarballs'
  BY <1>1, <1>2, <1>4 DEF Tarballs, SoundTarball, BackedDir, RecordedDir, KeysOf, NoTree, Torn, Tree
<1>5. CASE OpenTarball
  <2>1. /\ Len(backups) \in Nat /\ DOMAIN backups = 1..Len(backups) /\ DOMAIN backups' = 1..Len(backups) + 1
        /\ \A n \in DOMAIN backups : backups'[n] = backups[n]
        /\ ~backups'[Len(backups) + 1].whole
    BY <1>5, OpenTarballBase
  <2>2. \A n \in DOMAIN backups' : n \in DOMAIN backups \/ n = Len(backups) + 1
    BY <2>1
  <2>3. \A n \in DOMAIN backups' : backups'[n].whole => SoundTarball(backups'[n])
    BY <2>1, <2>2 DEF Tarballs
  <2>4. QED
    BY <1>4, <2>3
<1>6. CASE WriteTarball
  <2> DEFINE b == backups'[Len(backups)]
  <2>1. /\ DOMAIN backups = 1..Len(backups) /\ DOMAIN backups' = 1..Len(backups)
        /\ \A n \in DOMAIN backups : n # Len(backups) => backups'[n] = backups[n]
        /\ Len(backups) >= 1 => b.data = copied /\ b.half = backups[Len(backups)].half
    BY <1>6, WriteTarballBase
  <2>2. At("write") /\ Alike(root, copied)
    BY <1>6, CopiedAlike DEF WriteTarball
  <2>3. b.data = copied /\ b.half = halfway
    BY <2>1, <2>2 DEF Opened
  <2>4. /\ halfway = "no" => BackedDir(copied)
        /\ halfway # "apart" => RecordedDir(copied)
    BY <2>2, AlikeIs DEF Backed, Recorded
  <2>5. SoundTarball(b)
    <3> HIDE DEF b
    <3>1. QED
      BY <2>3, <2>4 DEF SoundTarball
  <2> HIDE DEF b
  <2>6. \A n \in DOMAIN backups' : backups'[n].whole => SoundTarball(backups'[n])
    BY <2>1, <2>5 DEF Tarballs, b
  <2>7. QED
    BY <1>4, <2>6
<1>7. QED
  BY <1>3, <1>5, <1>6 DEF RunBackup, SnapshotData, CopyPart

LEMMA RestoreTarballs ==
    ASSUME Base, Course, Tarballs, Restore
    PROVE  Tarballs'
<1>1. CASE \E n \in DOMAIN backups, force \in BOOLEAN : RunRestore(n, force)
  <2>1. PICK n \in DOMAIN backups : archive' = backups[n] /\ backups[n].whole /\ backups' = backups
    BY <1>1 DEF RunRestore
  <2>2. SoundTarball(archive') /\ \A m \in DOMAIN backups : backups[m].whole => SoundTarball(backups[m])
    BY <2>1 DEF Tarballs
  <2>3. QED
    BY <2>1, <2>2 DEF Tarballs, SoundTarball, BackedDir, RecordedDir, KeysOf, NoTree, Torn, Tree
<1>2. CASE ClearItem \/ Cleared \/ Extract \/ Restored \/ EndRestore
  <2>1. cmd.op = "restore" /\ UNCHANGED <<backups, archive>>
    BY <1>2, StepsOf DEF ClearItem, Cleared, Extract, Restored, EndRestore, At, Base
  <2>2. QED
    BY <2>1, QuietTarballs
<1>3. QED
  BY <1>1, <1>2 DEF Restore

LEMMA RotateTarballs ==
    ASSUME Base, Tarballs, Rotate
    PROVE  Tarballs'
<1>1. cmd.op = "update" /\ archive' = archive /\ cmd'.op = "update"
  BY RotateBase DEF Rotate, Onto, Advances
<1>2. CASE backups' = backups
  BY <1>1, <1>2, QuietTarballs
<1>3. CASE backups' # backups
  <2>1. /\ Len(backups) \in Nat /\ DOMAIN backups = 1..Len(backups) /\ DOMAIN backups' = 1..Len(backups) - 1
        /\ \A n \in DOMAIN backups' : backups'[n] = backups[n + 1]
    BY <1>3, RotateBase
  <2>2. \A n \in DOMAIN backups' : n + 1 \in DOMAIN backups
    BY <2>1
  <2>3. \A n \in DOMAIN backups' : backups'[n].whole => SoundTarball(backups'[n])
    BY <2>1, <2>2 DEF Tarballs
  <2>4. QED
    BY <1>1, <2>3 DEF Tarballs, SoundTarball, BackedDir, RecordedDir, KeysOf, NoTree, Torn, Tree
<1>4. QED
  BY <1>2, <1>3

LEMMA TarballsStep ==
    ASSUME Base, Course, Snapshot, Opened, Backed, Recorded, Tarballs, [Next]_vars
    PROVE  Tarballs'
<1>1. CASE RunBackup \/ SnapshotData
  BY <1>1, SnapshotTarballs
<1>2. CASE Restore
  BY <1>2, RestoreTarballs
<1>3. CASE Rotate
  BY <1>3, RotateTarballs
<1>4. CASE Update /\ ~Rotate
  <2>1. UNCHANGED <<backups, archive>>
    BY <1>4 DEF Update, RunUpdate, StartMove, MoveByRename, MoveByCopy, RemoveMoved, Moved
  <2>2. cmd'.op # "restore"
    BY <1>4, UpdateOp
  <2>3. QED
    BY <2>1, <2>2, QuietTarballs
<1>5. CASE Skill
  <2>1. UNCHANGED <<backups, archive>>
    BY <1>5 DEF Skill, SyncSkill, CopyTree, Stage, Aside, Place, DropOld, RecordSkill, InstallSkill, others
  <2>2. QED
    BY <1>5, <2>1, SkillOp, QuietTarballs
<1>6. CASE MigrateHeartbeat \/ RunInit \/ CreateMissing
  <2>1. UNCHANGED <<backups, archive>>
    BY <1>6 DEF MigrateHeartbeat, RunInit, CreateMissing, others
  <2>2. QED
    BY <1>6, <2>1, RestOp, QuietTarballs
<1>7. CASE Extension
  <2>1. UNCHANGED <<backups, archive>>
    BY <1>7 DEF Extension, BeginUpdateExtension, Bak, ReplaceExtension, BeginWizard, RefuseExtension,
                CopyExtension, AddRequirement, RecordExtension, others
  <2>2. QED
    BY <1>7, <2>1, ExtensionOp, QuietTarballs
<1>8. CASE Wizards
  <2>1. UNCHANGED <<backups, archive>>
    BY <1>8 DEF Wizards, SaveSecret, Enable, DefaultJobs, BeginProviderWizard, SetSlots, others
  <2>2. QED
    BY <1>8, <2>1, WizardsOp, QuietTarballs
<1>9. CASE Serve \/ Edit
  BY <1>9, BesideAlike, QuietTarballs
<1>10. CASE Kill \/ DeleteSkill \/ Upgrade \/ Rebuild
  <2>1. UNCHANGED <<backups, archive>>
    BY <1>10 DEF Kill, DeleteSkill, Upgrade, Rebuild
  <2>2. QED
    BY <1>10, <2>1, IdleOp, QuietTarballs
<1>11. CASE UNCHANGED vars
  BY <1>11, QuietTarballs DEF vars
<1>12. QED
  BY <1>1, <1>2, <1>3, <1>4, <1>5, <1>6, <1>7, <1>8, <1>9, <1>10, <1>11 DEF Next

-----------------------------------------------------------------------------
(* Unpacking                                                               *)

LEMMA OutsideUnpacking ==
    ASSUME cmd'.at # "extract"
    PROVE  Unpacking'
BY DEF Unpacking, At

LEMMA UnpackingStep ==
    ASSUME Base, Course, Unpacking, [Next]_vars
    PROVE  Unpacking'
<1>1. Base' /\ (cmd'.op # "restore" => cmd'.at # "extract")
  BY BaseStep DEF Base, Command, Where, SnapshotSteps, SkillSteps, RecordSteps
<1>2. CASE RunBackup \/ SnapshotData
  BY <1>2, SnapshotOp, OutsideUnpacking DEF SnapshotSteps
<1>3. CASE \E n \in DOMAIN backups, force \in BOOLEAN : RunRestore(n, force)
  BY <1>3, RunRestoreBase, OutsideUnpacking
<1>4. CASE ClearItem
  BY <1>4, ClearItemBase, OutsideUnpacking DEF At
<1>5. CASE Cleared
  <2>1. /\ cmd'.at = "extract" /\ cmd'.left = {i \in DOMAIN archive.data : Part[i] \in Target}
        /\ archive' = archive /\ halfway' = IF archive.half = "apart" \/ Mixing THEN "apart" ELSE "restore"
    BY <1>5, ClearedBase DEF Cleared
  <2>2. "config" \notin DOMAIN archive.data \ cmd'.left
    BY <2>1, TargetIs, PartIs
  <2>3. QED
    BY <2>1, <2>2 DEF Unpacking, At, Mixing
<1>6. CASE Extract
  <2>1. /\ cmd'.at = "extract" /\ cmd'.left = cmd.left \ {NextMember} /\ At("extract")
        /\ cmd.left # {} /\ cmd.left \subseteq Item /\ UNCHANGED <<archive, halfway>>
    BY <1>6, ExtractBase DEF Extract, history, Base, Command
  <2>2. NextMember = "config" => cmd.left \cap {"ext", "extOrigin", "requirements"} = {}
    BY <2>1, NextMemberIs
  <2>3. "config" \in DOMAIN archive.data \ cmd'.left =>
            cmd'.left \cap {"ext", "extOrigin", "requirements"} = {}
    BY <2>1, <2>2 DEF Unpacking, At
  <2>4. QED
    BY <2>1, <2>3 DEF Unpacking, At, Mixing
<1>7. CASE Restored \/ EndRestore
  BY <1>7, RestoredBase, EndRestoreBase, OutsideUnpacking DEF Onto, Ended
<1>8. CASE Update
  BY <1>1, <1>8, UpdateOp, OutsideUnpacking
<1>9. CASE Skill \/ MigrateHeartbeat \/ RunInit \/ CreateMissing \/ Extension \/ Wizards
           \/ Kill \/ DeleteSkill \/ Upgrade \/ Rebuild
  BY <1>1, <1>9, SkillOp, RestOp, ExtensionOp, WizardsOp, IdleOp, OutsideUnpacking
<1>10. CASE Serve \/ Edit
  BY <1>10, BesideAlike DEF Unpacking, At, Mixing
<1>11. CASE UNCHANGED vars
  BY <1>11 DEF Unpacking, At, Mixing, vars, history
<1>12. QED
  BY <1>2, <1>3, <1>4, <1>5, <1>6, <1>7, <1>8, <1>9, <1>10, <1>11 DEF Next, Restore

-----------------------------------------------------------------------------
(* What a wizard has done before it enables the extension                  *)

LEMMA OutsideProgress ==
    ASSUME cmd'.op # "wizard"
    PROVE  Progress'
BY DEF Progress

LEMMA OriginKept ==
    ASSUME NEW i, NEW content, Put(i, content), i # "extOrigin", OriginThere
    PROVE  OriginThere'
<1>1. "extOrigin" \in DOMAIN root \ {i}
  BY DEF OriginThere, Has
<1>2. "extOrigin" \in DOMAIN root' /\ root'["extOrigin"] = root["extOrigin"]
  BY <1>1, PutIs
<1>3. QED
  BY <1>2 DEF OriginThere, Has, NoTree, Torn, Tree

LEMMA ListingKept ==
    ASSUME NEW i, NEW content, Put(i, content), i # "requirements", PackageListed(root)
    PROVE  PackageListed(root')
<1>1. "requirements" \in DOMAIN root \ {i}
  BY DEF PackageListed
<1>2. "requirements" \in DOMAIN root' /\ root'["requirements"] = root["requirements"]
  BY <1>1, PutIs
<1>3. QED
  BY <1>2 DEF PackageListed

LEMMA ExtensionProgress ==
    ASSUME Base, Course, Progress, Extension
    PROVE  Progress'
<1>1. CASE BeginWizard
  <2>1. cmd'.op = "wizard" /\ cmd'.at = Setup[1] /\ checkout' = checkout
    BY <1>1, BeginWizardBase DEF BeginWizard, others
  <2>2. checkout.extension \in {"telegram", "discord", "search", "voice"}
    BY DEF Base, Types, Kinds, ChannelKinds
  <2>3. cmd'.at = IF checkout.extension = "voice" THEN "secret" ELSE "copyExtension"
    BY <2>1, <2>2, AfterIs
  <2>4. QED
    BY <2>1, <2>3 DEF Progress, At, RecordSteps, ChannelKinds
<1>2. CASE BeginUpdateExtension \/ Bak \/ ReplaceExtension \/ RefuseExtension
  <2>1. cmd'.op # "wizard"
    BY <1>2, BeginUpdateExtensionBase, BakBase, ReplaceExtensionBase, RefuseExtensionBase
       DEF Onto, Advances, Ended
  <2>2. QED
    BY <2>1, OutsideProgress
<1>3. CASE CopyExtension
  <2>1. /\ cmd.op = "wizard" /\ cmd.at \in {"copyExtension", "copyingExtension"} /\ checkout' = checkout
        /\ cmd'.at \in {"copyingExtension", "requirement", "recordExtension"}
        /\ cmd'.at = "recordExtension" => After("copyExtension") = "recordExtension"
    BY <1>3, CopyExtensionBase DEF CopyExtension, InPlace, Onto, At
  <2>2. PICK content : Put("ext", content)
    BY <1>3 DEF CopyExtension, InPlace
  <2>3. Has("ext")'
    BY <2>2, PutIs DEF Has
  <2>4. KeysIn' = KeysIn
    BY <2>2, PutKeeps
  <2>5. checkout.extension \in ChannelKinds => cmd'.at # "recordExtension"
    BY <2>1, AfterIs DEF ChannelKinds
  <2>6. QED
    BY <2>1, <2>3, <2>4, <2>5 DEF Progress, At, RecordSteps
<1>4. CASE AddRequirement
  <2>1. At("requirement") /\ cmd.op = "wizard" /\ checkout' = checkout
    BY <1>4, StepsOf DEF AddRequirement, Base, others, At
  <2>2. checkout.extension \in {"telegram", "discord"}
    BY <2>1 DEF Course, Base, Types, At, Kinds, ChannelKinds
  <2>3. cmd'.at = "recordExtension" /\ cmd'.op = "wizard"
    BY <1>4, <2>2, AddRequirementBase DEF Onto, Advances
  <2>4. Has("ext")' /\ KeysIn' = KeysIn
    <3>1. PICK content : Put("requirements", content)
      BY <1>4 DEF AddRequirement
    <3>2. Has("ext")
      BY <2>1 DEF Progress, At
    <3>3. QED
      BY <3>1, <3>2, PutKeeps
  <2>5. PackageListed(root')
    <3>1. "requirements" \in DOMAIN root' /\ root'["requirements"] = {"package"}
      BY <1>4, PutIs DEF AddRequirement
    <3>2. QED
      BY <3>1 DEF PackageListed
  <2>6. PackageListed(root)'
    BY <2>5 DEF PackageListed
  <2>7. QED
    BY <2>1, <2>2, <2>3, <2>4, <2>6 DEF Progress, At, RecordSteps
<1>5. CASE RecordExtension /\ cmd.op = "wizard"
  <2>1. /\ cmd.at \in RecordSteps /\ Has("ext") /\ "extensions" \in dirs /\ checkout' = checkout
    BY <1>5 DEF RecordExtension, RecordSteps, At, Progress, Course, others
  <2>2. PICK content : Put("extOrigin", content)
    BY <1>5 DEF RecordExtension
  <2>3. Has("ext")' /\ Has("extOrigin")' /\ root'["extOrigin"] = content /\ KeysIn' = KeysIn
    <3>1. Has("ext")' /\ KeysIn' = KeysIn
      BY <2>1, <2>2, PutKeeps
    <3>2. Has("extOrigin")' /\ root'["extOrigin"] = content
      BY <2>2, PutIs DEF Has
    <3>3. QED
      BY <3>1, <3>2
  <2>4. OriginThere'
    <3>1. content = Torn(NoEntry) \/ content = Origin("contrib", Template)
      <4>1. CASE Put("extOrigin", Torn(NoEntry))
        BY <2>3, <4>1, PutIs
      <4>2. CASE Put("extOrigin", Origin("contrib", Template))
        BY <2>3, <4>2, PutIs
      <4>3. QED
        BY <1>5, <4>1, <4>2 DEF RecordExtension
    <3>2. content.whole => content.hash # NoTree
      BY <3>1, OriginsFit, TreesFit DEF Base
    <3>3. QED
      BY <2>3, <3>2 DEF OriginThere, NoTree, Torn, Tree
  <2>5. checkout.extension \in ChannelKinds => PackageListed(root)'
    <3>1. checkout.extension \in ChannelKinds => PackageListed(root)
      BY <1>5, <2>1 DEF Progress
    <3>2. checkout.extension \in ChannelKinds => PackageListed(root')
      BY <2>2, <3>1, ListingKept
    <3>3. QED
      BY <3>2 DEF PackageListed
  <2>6. CASE At("recordExtension")
    <3>1. cmd'.at = "recordingExtension" /\ cmd'.op = "wizard"
      BY <1>5, <2>1, <2>6, RecordExtensionBase DEF Onto, Advances
    <3>2. checkout.extension = "voice" => "secret" \in KeysIn
      BY <1>5, <2>6 DEF Progress, At
    <3>3. QED
      BY <2>1, <2>3, <2>4, <2>5, <3>1, <3>2 DEF Progress, At, RecordSteps
  <2>7. CASE At("recordingExtension")
    <3>1. cmd'.at = After("recordExtension") /\ cmd'.op = "wizard"
      BY <1>5, <2>1, <2>7, RecordExtensionBase DEF Onto, Advances
    <3>2. checkout.extension = "voice" => "secret" \in KeysIn
      BY <1>5, <2>7 DEF Progress, At
    <3>3. cmd'.at = IF checkout.extension = "voice" THEN "enable" ELSE "secret"
      BY <3>1, AfterIs DEF Base, Types, Kinds, ChannelKinds
    <3>4. QED
      BY <2>1, <2>3, <2>4, <2>5, <3>1, <3>2, <3>3 DEF Progress, At, RecordSteps
  <2>8. QED
    BY <2>1, <2>6, <2>7 DEF RecordSteps, At
<1>6. CASE RecordExtension /\ cmd.op # "wizard"
  <2>1. cmd'.op # "wizard"
    <3>1. cmd' = Idle \/ \E step : Goto(step)
      BY <1>6, StepsOf DEF RecordExtension, Base, Finish, RecordSteps, At
    <3>2. QED
      BY <1>6, <3>1, StaysOp DEF Base
  <2>2. QED
    BY <2>1, OutsideProgress
<1>7. QED
  BY <1>1, <1>2, <1>3, <1>4, <1>5, <1>6 DEF Extension

LEMMA WizardsProgress ==
    ASSUME Base, Course, Progress, Wizards
    PROVE  Progress'
<1>1. CASE SaveSecret
  <2>1. /\ cmd.op = "wizard" /\ At("secret") /\ cmd'.op = "wizard" /\ cmd'.at = After("secret")
        /\ KeysIn' = KeysIn \cup {"secret"} /\ checkout' = checkout
    BY <1>1, SaveSecretBase DEF SaveSecret, Onto, Advances, others
  <2>2. cmd'.at = IF checkout.extension = "voice" THEN "copyExtension" ELSE "enable"
    BY <2>1, AfterIs DEF Base, Types, Kinds, ChannelKinds
  <2>3. PICK content : Put("keys", content)
    BY <1>1 DEF SaveSecret
  <2>4. (Has("ext") => Has("ext")') /\ (OriginThere => OriginThere')
    BY <2>3, PutKeeps, OriginKept
  <2>5. checkout.extension \in ChannelKinds => PackageListed(root)'
    <3>1. checkout.extension \in ChannelKinds => PackageListed(root)
      BY <2>1 DEF Progress, At
    <3>2. checkout.extension \in ChannelKinds => PackageListed(root')
      BY <2>3, <3>1, ListingKept
    <3>3. QED
      BY <3>2 DEF PackageListed
  <2>6. QED
    BY <2>1, <2>2, <2>4, <2>5 DEF Progress, At, RecordSteps
<1>2. CASE Enable
  <2>1. Ended \/ (cmd'.at = "defaultJobs" /\ checkout.extension \in {"telegram", "discord"})
    BY <1>2, EnableBase DEF Onto, Base, Types, Kinds, ChannelKinds
  <2>2. checkout' = checkout
    BY <1>2 DEF Enable, others
  <2>3. QED
    BY <2>1, <2>2 DEF Progress, Ended, At, RecordSteps
<1>3. CASE DefaultJobs
  <2>1. /\ cmd.op = "wizard" /\ (Ended \/ cmd'.at = "writingJobs")
    BY <1>3, DefaultJobsBase DEF Onto
  <2>2. checkout' = checkout /\ cmd.at \in {"defaultJobs", "writingJobs"}
    BY <1>3 DEF DefaultJobs, others, At
  <2>3. checkout.extension # "voice"
    BY <2>1, <2>2 DEF Course
  <2>4. QED
    BY <2>1, <2>2, <2>3 DEF Progress, Ended, At, RecordSteps
<1>4. CASE \E key \in Key : BeginProviderWizard(key)
  BY <1>4, BeginProviderWizardBase, OutsideProgress
<1>5. CASE SetSlots
  BY <1>5, SetSlotsBase, OutsideProgress DEF Ended, Onto, Advances
<1>6. QED
  BY <1>1, <1>2, <1>3, <1>4, <1>5 DEF Wizards

LEMMA ProgressStep ==
    ASSUME Base, Course, Progress, [Next]_vars
    PROVE  Progress'
<1>1. CASE RunBackup \/ SnapshotData \/ Restore \/ Update
  BY <1>1, SnapshotOp, RestoreOp, UpdateOp, OutsideProgress
<1>2. CASE Skill \/ MigrateHeartbeat \/ RunInit \/ CreateMissing \/ Kill \/ DeleteSkill \/ Upgrade \/ Rebuild
  BY <1>2, SkillOp, RestOp, IdleOp, OutsideProgress
<1>3. CASE Extension
  BY <1>3, ExtensionProgress
<1>4. CASE Wizards
  BY <1>4, WizardsProgress
<1>5. CASE Serve \/ Edit
  <2>1. UNCHANGED <<cmd, checkout>> /\ (Has("ext")' <=> Has("ext"))
    BY <1>5, BesideAlike
  <2>2. KeysIn' = KeysIn /\ (OriginThere => OriginThere') /\ (PackageListed(root) => PackageListed(root)')
    <3>1. \A i \in {"keys", "extOrigin", "requirements"} :
              (Has(i)' <=> Has(i)) /\ (Has(i) => root'[i] = root[i])
      BY <1>5, BesideAlike, PartIs
    <3>2. QED
      BY <3>1 DEF KeysIn, OriginThere, NoTree, Torn, Tree, PackageListed, Has
  <2>3. QED
    BY <2>1, <2>2 DEF Progress, At
<1>6. CASE UNCHANGED vars
  BY <1>6 DEF Progress, At, Has, KeysIn, OriginThere, NoTree, Torn, Tree, PackageListed, vars, history
<1>7. QED
  BY <1>1, <1>2, <1>3, <1>4, <1>5, <1>6 DEF Next

-----------------------------------------------------------------------------
(* A config names only what is there                                       *)

LEMMA RootPrimes ==
    ASSUME halfway' = "no" => BackedDir(root'), halfway' # "apart" => RecordedDir(root')
    PROVE  Backed' /\ Recorded'
BY DEF Backed, Recorded, BackedDir, RecordedDir, KeysOf, NoTree, Torn, Tree

LEMMA AlikeBacked ==
    ASSUME Backed, Recorded, Alike(root, root'), halfway' = halfway \/ halfway' = "apart"
    PROVE  Backed' /\ Recorded'
BY AlikeIs, RootPrimes DEF Backed, Recorded

LEMMA SameAlike ==
    ASSUME root' = root
    PROVE  Alike(root, root')
BY DEF Alike

LEMMA MoreKeys ==
    ASSUME NEW d, NEW e, BackedDir(d), KeysOf(d) \subseteq KeysOf(e),
           "config" \in DOMAIN e => "config" \in DOMAIN d /\ e["config"] = d["config"]
    PROVE  BackedDir(e)
BY DEF BackedDir

LEMMA StillRecorded ==
    ASSUME NEW d, NEW e, RecordedDir(d),
           "config" \in DOMAIN e => "config" \in DOMAIN d /\ e["config"].enabled = d["config"].enabled,
           {"ext", "extOrigin"} \cap DOMAIN d \subseteq DOMAIN e,
           PackageListed(d) => PackageListed(e),
           "extOrigin" \in DOMAIN e => \/ e["extOrigin"].whole => e["extOrigin"].hash # NoTree
                                       \/ "extOrigin" \in DOMAIN d /\ e["extOrigin"] = d["extOrigin"]
    PROVE  RecordedDir(e)
BY DEF RecordedDir

(* One file of the root is written.                                        *)
LEMMA PutBacked ==
    ASSUME Backed, Recorded, NEW i, NEW content, Put(i, content), halfway' = halfway,
           i # "config",
           i = "keys" => KeysIn \subseteq content,
           i = "extOrigin" => (content.whole => content.hash # NoTree),
           i = "requirements" => (PackageListed(root) => "package" \in content)
    PROVE  Backed' /\ Recorded'
<1>1. /\ DOMAIN root' = DOMAIN root \cup {i} /\ root'[i] = content
      /\ \A j \in DOMAIN root \ {i} : root'[j] = root[j]
  BY PutIs
<1>2. "config" \in DOMAIN root' => "config" \in DOMAIN root /\ root'["config"] = root["config"]
  BY <1>1
<1>3. KeysOf(root) \subseteq KeysOf(root')
  BY <1>1 DEF KeysOf, KeysIn, Has
<1>4. BackedDir(root) => BackedDir(root')
  BY <1>2, <1>3, MoreKeys
<1>5. "extOrigin" \in DOMAIN root' => \/ root'["extOrigin"].whole => root'["extOrigin"].hash # NoTree
                                      \/ "extOrigin" \in DOMAIN root /\ root'["extOrigin"] = root["extOrigin"]
  BY <1>1
<1>6. {"ext", "extOrigin"} \cap DOMAIN root \subseteq DOMAIN root'
  BY <1>1
<1>7. PackageListed(root) => PackageListed(root')
  BY <1>1 DEF PackageListed
<1>8. RecordedDir(root) => RecordedDir(root')
  BY <1>2, <1>5, <1>6, <1>7, StillRecorded
<1>9. QED
  BY <1>4, <1>8, RootPrimes DEF Backed, Recorded

(* What is unpacked before the config is what it needs.                    *)
LEMMA Unpacked ==
    ASSUME Base, Exact, Unpacking, Tarballs, At("extract"), halfway # "apart"
    PROVE  RecordedDir(root)
<1>1. cmd.op = "restore" /\ SoundTarball(archive)
  BY StepsOf DEF Base, Tarballs, At
<1>2. archive.half # "apart" /\ ~Mixing
  BY DEF Unpacking
<1>3. ASSUME NEW i \in {"config", "extOrigin", "requirements"}, NEW w \in late
      PROVE  w[1] # i
  BY DEF Base, Types
<1>4. SUFFICES ASSUME Has("config"), root["config"].enabled # "no"
               PROVE  /\ {"ext", "extOrigin"} \subseteq DOMAIN root
                      /\ root["extOrigin"].whole => root["extOrigin"].hash # NoTree
                      /\ root["config"].enabled \in ChannelKinds => PackageListed(root)
  BY DEF RecordedDir, Has
<1>5. "config" \in DOMAIN archive.data \ cmd.left /\ root["config"] = archive.data["config"]
  BY <1>3, <1>4, PartIs, TargetIs DEF Exact, At
<1>6. ~archive.old /\ cmd.left \cap {"ext", "extOrigin", "requirements"} = {}
  BY <1>2, <1>4, <1>5 DEF Mixing, Unpacking
<1>7. RecordedDir(archive.data)
  BY <1>1, <1>2, <1>6 DEF SoundTarball
<1>8. /\ {"ext", "extOrigin"} \subseteq DOMAIN archive.data
      /\ archive.data["extOrigin"].whole => archive.data["extOrigin"].hash # NoTree
      /\ root["config"].enabled \in ChannelKinds => PackageListed(archive.data)
  BY <1>4, <1>5, <1>7 DEF RecordedDir
<1>9. "extensions" \in Target /\ Part["ext"] = "extensions" /\ Part["extOrigin"] = "extensions"
  BY <1>6, TargetIs, PartIs
<1>10. Has("ext") /\ Has("extOrigin") /\ root["extOrigin"] = archive.data["extOrigin"]
  BY <1>3, <1>6, <1>8, <1>9, PartIs DEF Exact, At
<1>11. root["config"].enabled \in ChannelKinds => PackageListed(root)
  <2>1. "requirements" \in Target /\ Part["requirements"] = "requirements" /\ "requirements" \in Item
    BY <1>6, TargetIs, PartIs
  <2>2. "requirements" \in DOMAIN archive.data =>
            Has("requirements") /\ root["requirements"] = archive.data["requirements"]
    BY <1>3, <1>6, <2>1 DEF Exact, At
  <2>3. QED
    BY <1>8, <2>2 DEF PackageListed, Has
<1>12. QED
  BY <1>8, <1>10, <1>11 DEF Has

LEMMA RestoredBacked ==
    ASSUME Base, Exact, Unpacking, Tarballs, At("extract"), cmd.left = {}, archive.half = "no"
    PROVE  BackedDir(root)
<1>1. cmd.op = "restore" /\ BackedDir(archive.data)
  BY StepsOf DEF Base, Tarballs, SoundTarball, At
<1>2. ASSUME NEW i \in {"config", "keys"}
      PROVE  (Has(i) <=> i \in DOMAIN archive.data) /\ (Has(i) => root[i] = archive.data[i])
  <2>1. Part[i] \in Target /\ i \in Item /\ \A w \in late : w[1] # i
    BY PartIs, TargetIs DEF Base, Types
  <2>2. QED
    BY <2>1 DEF Exact, At
<1>3. KeysOf(archive.data) \subseteq KeysOf(root)
  BY <1>2 DEF KeysOf, Has
<1>4. QED
  BY <1>1, <1>2, <1>3, MoreKeys DEF Has

LEMMA RestoreBacked ==
    ASSUME Base, Course, Exact, Unpacking, Tarballs, Backed, Recorded, Restore
    PROVE  Backed' /\ Recorded'
<1>1. CASE (\E n \in DOMAIN backups, force \in BOOLEAN : RunRestore(n, force)) \/ EndRestore
  BY <1>1, SameAlike, AlikeBacked DEF RunRestore, EndRestore, history
<1>2. CASE ClearItem
  <2>1. PICK i \in ToClear, listed \in {ToClear, ToClear \ MadeSince} :
           /\ i \in listed /\ i \in ItemsOf(FirstPart(listed)) /\ MadeSince \subseteq {"db"}
           /\ DOMAIN root' = DOMAIN root \ {i} /\ \A j \in DOMAIN root \ {i} : root'[j] = root[j]
    BY <1>2, ClearItemBase
  <2>2. halfway' # "no" /\ (halfway' # "apart" => halfway # "apart")
    BY <1>2 DEF ClearItem
  <2>3. ASSUME halfway # "apart", "config" \in DOMAIN root'
        PROVE  RecordedDir(root')
    <3>1. RecordedDir(root) /\ i # "config" /\ Has("config")
      BY <2>1, <2>3 DEF Recorded, Has
    <3>2. "config" \in ItemsOf("state") \cap listed
      <4>1. "config" \in ItemsOf("state") \cap ToClear
        BY <3>1, PartIs, TargetIs DEF ItemsOf, ToClear, Has, Item
      <4>2. QED
        BY <2>1, <4>1
    <3>3. listed \subseteq Item /\ listed # {}
      BY <2>1 DEF ToClear, Base, Types, Dir
    <3>4. FirstPart(listed) \notin {"extensions", "requirements"}
      BY <3>2, <3>3, FirstPartIs
    <3>5. i \notin {"ext", "extOrigin", "requirements"}
      BY <2>1, <3>4, PartIs DEF ItemsOf
    <3>6. PackageListed(root) => PackageListed(root')
      BY <2>1, <3>5 DEF PackageListed
    <3>7. QED
      BY <2>1, <2>3, <3>1, <3>5, <3>6, StillRecorded DEF Has
  <2>4. QED
    BY <2>2, <2>3, NoConfig, RootPrimes
<1>3. CASE Cleared
  <2>1. root' = root /\ ToClear \subseteq {"db"}
    BY <1>3, MadeSinceIs DEF Cleared, Base
  <2>2. "config" \notin DOMAIN root'
    BY <2>1, PartIs, TargetIs DEF ToClear
  <2>3. QED
    BY <2>2, NoConfig, RootPrimes
<1>4. CASE Extract
  <2>1. Base' /\ Exact' /\ Unpacking' /\ Tarballs' /\ At("extract")'
    BY <1>4, BaseStep, ExactStep, UnpackingStep, RestoreTarballs, ExtractBase DEF Next, Restore, At
  <2>2. (halfway # "apart")' => RecordedDir(root)'
    BY <2>1, Unpacked, PTL
  <2>3. (halfway # "no")'
    BY <2>1 DEF Unpacking, At
  <2>4. QED
    BY <2>2, <2>3 DEF Backed, Recorded
<1>5. CASE Restored
  <2>1. /\ root' = root /\ At("extract") /\ cmd.left = {}
        /\ halfway' = IF archive.half # "no" \/ Mixing THEN halfway ELSE "no"
    BY <1>5 DEF Restored
  <2>2. halfway' = "no" => BackedDir(root)
    BY <2>1, RestoredBacked DEF Unpacking
  <2>3. halfway' # "apart" => halfway # "apart"
    BY <2>1 DEF Unpacking
  <2>4. QED
    BY <2>1, <2>2, <2>3, RootPrimes DEF Recorded
<1>6. QED
  BY <1>1, <1>2, <1>3, <1>4, <1>5 DEF Restore

LEMMA UpdateBacked ==
    ASSUME Base, Course, Move, Backed, Recorded, Update
    PROVE  Backed' /\ Recorded'
<1>1. CASE RunUpdate \/ RemoveMoved \/ Rotate
  BY <1>1, SameAlike, AlikeBacked DEF RunUpdate, RemoveMoved, Rotate, history
<1>2. CASE StartMove
  BY <1>2, SameAlike, AlikeBacked DEF StartMove
<1>3. CASE MoveByRename \/ MoveByCopy
  <2>1. At("moving") /\ halfway' = halfway
    BY <1>3 DEF MoveByRename, MoveByCopy, history
  <2>2. halfway' = "apart"
    BY <2>1 DEF Move, At
  <2>3. QED
    BY <2>2, RootPrimes
<1>4. CASE Moved
  <2>1. root' = Over(legacy, root) /\ At("move") /\ \A i \in DOMAIN legacy : Part[i] = "requirements"
    BY <1>4, MovedBase
  <2>2. DOMAIN legacy \cap Core \subseteq {"requirements"} /\ ~Has("requirements")
    BY <2>1, CoreIs DEF Move, At
  <2>3. Alike(Joint, root')
    BY <2>1, <2>2 DEF Alike, Joint, Over, Has
  <2>4. Sound(root')
    BY <2>1, <2>3, SoundAlike DEF Move, At
  <2>5. QED
    BY <2>4, RootPrimes DEF Sound
<1>5. QED
  BY <1>1, <1>2, <1>3, <1>4 DEF Update

LEMMA CreateBacked ==
    ASSUME Base, Backed, Recorded, CreateMissing
    PROVE  Backed' /\ Recorded'
<1> DEFINE missing == [config |-> NewConfig, keys |-> {}, jobs |-> Jobs("empty"),
                       requirements |-> {}, extOrigin |-> NoEntry]
<1>1. halfway' = halfway
  BY DEF CreateMissing, history
<1>2. CASE root' = root
  BY <1>1, <1>2, SameAlike, AlikeBacked
<1>3. ASSUME ~Has("config"), Put("config", NewConfig)
      PROVE  Backed' /\ Recorded'
  <2>1. "config" \in DOMAIN root' /\ root'["config"] = NewConfig
    BY <1>3, PutIs
  <2>2. BackedDir(root') /\ RecordedDir(root')
    BY <2>1, ConfigsFit DEF BackedDir, RecordedDir
  <2>3. QED
    BY <2>2, RootPrimes
<1>4. ASSUME ~Has("keys"), Put("keys", {})
      PROVE  Backed' /\ Recorded'
  <2>1. KeysIn = {}
    BY <1>4 DEF KeysIn
  <2>2. QED
    BY <1>1, <1>4, <2>1, PutBacked
<1>5. ASSUME NEW i \in {"jobs", "requirements"}, NEW content, ~Has(i), Put(i, content)
      PROVE  Backed' /\ Recorded'
  <2>1. i = "requirements" => ~PackageListed(root)
    BY <1>5 DEF PackageListed, Has
  <2>2. QED
    BY <1>1, <1>5, <2>1, PutBacked
<1>6. ASSUME ~Has("extOrigin"), Put("extOrigin", NoEntry)
      PROVE  Backed' /\ Recorded'
  <2>1. /\ DOMAIN root' = DOMAIN root \cup {"extOrigin"}
        /\ \A j \in DOMAIN root \ {"extOrigin"} : root'[j] = root[j]
    BY <1>6, PutIs
  <2>2. ("config" \in DOMAIN root' => "config" \in DOMAIN root /\ root'["config"] = root["config"])
        /\ KeysOf(root') = KeysOf(root)
    BY <2>1 DEF KeysOf
  <2>3. BackedDir(root) => BackedDir(root')
    BY <2>2, MoreKeys
  <2>4. RecordedDir(root) => RecordedDir(root')
    BY <1>6, <2>1, <2>2 DEF RecordedDir, Has
  <2>5. QED
    BY <1>1, <2>3, <2>4, RootPrimes DEF Backed, Recorded
<1>7. root' = root \/ \E i \in DOMAIN missing : ~Has(i) /\ Put(i, missing[i])
  BY DEF CreateMissing
<1>8. CASE \E i \in DOMAIN missing : ~Has(i) /\ Put(i, missing[i])
  <2>1. PICK i \in {"config", "keys", "jobs", "requirements", "extOrigin"} : ~Has(i) /\ Put(i, missing[i])
    BY <1>8
  <2>2. /\ missing["config"] = NewConfig /\ missing["keys"] = {} /\ missing["extOrigin"] = NoEntry
    OBVIOUS
  <2> HIDE DEF missing
  <2>3. QED
    BY <1>3, <1>4, <1>5, <1>6, <2>1, <2>2
<1>9. QED
  BY <1>2, <1>7, <1>8

LEMMA ExtensionBacked ==
    ASSUME Base, Course, Backed, Recorded, Extension
    PROVE  Backed' /\ Recorded'
<1>1. halfway' = halfway
  BY DEF Extension, BeginUpdateExtension, Bak, ReplaceExtension, BeginWizard, RefuseExtension,
         CopyExtension, AddRequirement, RecordExtension, history
<1>2. CASE BeginUpdateExtension \/ BeginWizard \/ RefuseExtension
  BY <1>1, <1>2, SameAlike, AlikeBacked DEF BeginUpdateExtension, BeginWizard, RefuseExtension
<1>3. CASE Bak \/ ReplaceExtension \/ CopyExtension \/ AddRequirement
  <2>1. PICK i \in {"ext", "extBak", "requirements"} :
            \E content : Put(i, content) /\ (i = "requirements" => "package" \in content)
    BY <1>3 DEF Bak, ReplaceExtension, CopyExtension, AddRequirement, InPlace
  <2>2. PICK content : Put(i, content) /\ (i = "requirements" => "package" \in content)
    BY <2>1
  <2>3. QED
    BY <1>1, <2>1, <2>2, PutBacked
<1>4. CASE RecordExtension
  <2>1. CASE Put("extOrigin", Torn(NoEntry))
    BY <1>1, <2>1, OriginsFit, PutBacked DEF Base
  <2>2. CASE Put("extOrigin", Origin("contrib", Template))
    <3>1. Origin("contrib", Template).hash # NoTree
      BY OriginsFit, TreesFit DEF Base
    <3>2. QED
      BY <1>1, <2>2, <3>1, PutBacked
  <2>3. QED
    BY <1>4, <2>1, <2>2 DEF RecordExtension
<1>5. QED
  BY <1>2, <1>3, <1>4 DEF Extension

LEMMA WizardsBacked ==
    ASSUME Base, Course, Progress, Backed, Recorded, Wizards
    PROVE  Backed' /\ Recorded'
<1>1. halfway' = halfway
  BY DEF Wizards, SaveSecret, Enable, DefaultJobs, BeginProviderWizard, SetSlots, history
<1>2. CASE root' = root
  BY <1>1, <1>2, SameAlike, AlikeBacked
<1>3. CASE SaveSecret \/ \E key \in Key : BeginProviderWizard(key) /\ root' # root
  <2>1. \E key \in Key \cup {"secret"} : Put("keys", KeysIn \cup {key})
    BY <1>3 DEF SaveSecret, BeginProviderWizard
  <2>2. PICK content : Put("keys", content) /\ KeysIn \subseteq content
    BY <2>1
  <2>3. QED
    BY <1>1, <2>2, PutBacked
<1>4. CASE Enable
  <2>1. /\ cmd.op = "wizard" /\ At("enable") /\ Has("config")
        /\ Put("config", [root["config"] EXCEPT !.enabled = checkout.extension])
    BY <1>4, EnableBase DEF Enable
  <2>2. root["config"] \in ConfigType
    BY <2>1, PartIs DEF Base, Types, Dir, Fits, Has
  <2>3. /\ DOMAIN root' = DOMAIN root
        /\ \A j \in DOMAIN root \ {"config"} : root'[j] = root[j]
        /\ root'["config"].slots = root["config"].slots /\ root'["config"].enabled = checkout.extension
    <3>1. /\ DOMAIN root' = DOMAIN root \cup {"config"}
          /\ root'["config"] = [root["config"] EXCEPT !.enabled = checkout.extension]
          /\ \A j \in DOMAIN root \ {"config"} : root'[j] = root[j]
      BY <2>1, PutIs
    <3>2. QED
      BY <2>1, <2>2, <3>1 DEF Has, ConfigType
  <2>4. Has("ext") /\ OriginThere /\ "secret" \in KeysIn
    BY <2>1 DEF Progress, At
  <2>5. KeysOf(root') = KeysIn /\ KeysOf(root) = KeysIn
    BY <2>3 DEF KeysOf, KeysIn, Has
  <2>6. BackedDir(root) => BackedDir(root')
    BY <2>1, <2>3, <2>4, <2>5 DEF BackedDir, Has
  <2>7. RecordedDir(root')
    <3>1. checkout.extension \in ChannelKinds => PackageListed(root)
      BY <2>1 DEF Progress, At
    <3>2. PackageListed(root) => PackageListed(root')
      BY <2>3 DEF PackageListed
    <3>3. QED
      BY <2>3, <2>4, <3>1, <3>2 DEF RecordedDir, OriginThere, Has
  <2>8. QED
    BY <1>1, <2>6, <2>7, RootPrimes DEF Backed, Recorded
<1>5. CASE DefaultJobs /\ root' # root
  <2>1. PICK content : Put("jobs", content)
    BY <1>5 DEF DefaultJobs
  <2>2. QED
    BY <1>1, <2>1, PutBacked
<1>6. CASE SetSlots
  <2>1. /\ cmd.op = "provider" /\ Has("config") /\ DOMAIN root' = DOMAIN root
        /\ \A i \in DOMAIN root \ {"config"} : root'[i] = root[i]
        /\ root'["config"].enabled = root["config"].enabled
        /\ \A s \in SlotName : root'["config"].slots[s] \in {root["config"].slots[s], cmd.key}
    BY <1>6, SetSlotsBase
  <2>2. cmd.key \in KeysIn \cup Exported
    BY <2>1 DEF Base, Found, Environment
  <2>3. KeysOf(root') = KeysIn /\ KeysOf(root) = KeysIn
    BY <2>1 DEF KeysOf, KeysIn, Has
  <2>4. BackedDir(root) => BackedDir(root')
    BY <2>1, <2>2, <2>3 DEF BackedDir, Has
  <2>5. PackageListed(root) => PackageListed(root')
    BY <2>1 DEF PackageListed
  <2>6. RecordedDir(root) => RecordedDir(root')
    BY <2>1, <2>5, StillRecorded
  <2>7. QED
    BY <1>1, <2>4, <2>6, RootPrimes DEF Backed, Recorded
<1>7. QED
  BY <1>2, <1>3, <1>4, <1>5, <1>6 DEF Wizards

LEMMA BackedStep ==
    ASSUME Base, Course, Exact, Unpacking, Tarballs, Move, Progress, Backed, Recorded, [Next]_vars
    PROVE  Backed' /\ Recorded'
<1>1. CASE RunBackup \/ SnapshotData
  BY <1>1, SameAlike, AlikeBacked DEF RunBackup, SnapshotData, CopyPart, OpenTarball, WriteTarball, history
<1>2. CASE Restore
  BY <1>2, RestoreBacked
<1>3. CASE Update
  BY <1>3, UpdateBacked
<1>4. CASE Skill
  <2>1. halfway' = halfway
    BY <1>4 DEF Skill, SyncSkill, CopyTree, Stage, Aside, Place, DropOld, RecordSkill, InstallSkill, history
  <2>2. Alike(root, root')
    BY <1>4, SkillLeaves, LeavesAlike DEF Core
  <2>3. QED
    BY <2>1, <2>2, AlikeBacked
<1>5. CASE MigrateHeartbeat \/ RunInit
  <2>1. halfway' = halfway
    BY <1>5 DEF MigrateHeartbeat, RunInit
  <2>2. Alike(root, root')
    BY <1>5, MigrateLeaves, LeavesAlike, SameAlike DEF Core, RunInit
  <2>3. QED
    BY <2>1, <2>2, AlikeBacked
<1>6. CASE CreateMissing
  BY <1>6, CreateBacked
<1>7. CASE Extension
  BY <1>7, ExtensionBacked
<1>8. CASE Wizards
  BY <1>8, WizardsBacked
<1>9. CASE Serve \/ Edit
  BY <1>9, BesideAlike, AlikeBacked
<1>10. CASE Kill \/ Upgrade \/ Rebuild
  BY <1>10, SameAlike, AlikeBacked DEF Kill, Upgrade, Rebuild, history
<1>11. CASE DeleteSkill
  <2>1. halfway' = halfway
    BY <1>11 DEF DeleteSkill, history
  <2>2. DOMAIN root' = DOMAIN root \ {"skill"} /\ \A i \in DOMAIN root \ {"skill"} : root'[i] = root[i]
    BY <1>11, DeleteSkillBase
  <2>3. Alike(root, root')
    BY <2>2 DEF Alike, Core
  <2>4. QED
    BY <2>1, <2>3, AlikeBacked
<1>12. CASE UNCHANGED vars
  BY <1>12, SameAlike, AlikeBacked DEF vars, history
<1>13. QED
  BY <1>1, <1>2, <1>3, <1>4, <1>5, <1>6, <1>7, <1>8, <1>9, <1>10, <1>11, <1>12 DEF Next

-----------------------------------------------------------------------------
(* What starts, and what the doctor says                                   *)

Settled ==
    /\ Base /\ Course /\ Snapshot /\ Opened /\ Exact
    /\ Unpacking /\ Tarballs /\ Unmoved /\ Move /\ Progress /\ Backed /\ Recorded

LEMMA SettledInit == Init => Settled
<1> SUFFICES ASSUME Init
             PROVE  Settled
  OBVIOUS
<1>1. Base /\ Course
  BY BaseInit
<1>2. cmd.op = "none" /\ cmd.at = "idle" /\ halfway = "no"
  BY DEF Init, Idle
<1>3. PICK b \in Beginnings : root = b.root /\ dirs = b.dirs /\ backups = b.backups /\ legacy = b.legacy
  BY DEF Init
<1>4. /\ \A n \in DOMAIN backups : backups[n].whole => SoundTarball(backups[n])
      /\ LET d == IF "state" \in dirs THEN root ELSE legacy
         IN  BackedDir(d) /\ RecordedDir(d)
  BY <1>3, BeginningsAssumption
<1>5. CASE "state" \in dirs
  BY <1>1, <1>2, <1>4, <1>5
     DEF Settled, Snapshot, Opened, Exact, Unpacking, Tarballs, Unmoved, Move, Progress, Backed, Recorded, At
<1>6. CASE "state" \notin dirs
  <2>1. "config" \notin DOMAIN root
    BY <1>1, <1>6, Bare DEF Base, Core
  <2>2. BackedDir(root) /\ RecordedDir(root) /\ Sound(legacy)
    BY <1>4, <1>6, <2>1, NoConfig DEF Sound
  <2>3. QED
    BY <1>1, <1>2, <1>4, <2>2
       DEF Settled, Snapshot, Opened, Exact, Unpacking, Tarballs, Unmoved, Move, Progress, Backed, Recorded, At
<1>7. QED
  BY <1>5, <1>6

LEMMA SettledStep ==
    ASSUME Settled, [Next]_vars
    PROVE  Settled'
<1>1. Base' /\ Course' /\ Snapshot' /\ Opened' /\ Exact'
  BY BaseStep, SnapshotStep, ExactStep DEF Settled
<1>2. Unpacking' /\ Tarballs' /\ Unmoved' /\ Move' /\ Progress'
  BY UnpackingStep, TarballsStep, UnmovedStep, MoveStep, ProgressStep DEF Settled
<1>3. Backed' /\ Recorded'
  BY BackedStep DEF Settled
<1>4. QED
  BY <1>1, <1>2, <1>3 DEF Settled

LEMMA ConfigFits ==
    ASSUME Base, Has("config")
    PROVE  root["config"] \in ConfigType /\ DOMAIN root["config"].slots = SlotName
<1>1. root["config"] \in ConfigType
  BY PartIs DEF Base, Types, Dir, Fits, Has
<1>2. QED
  BY <1>1 DEF ConfigType

(* Once there is a model, `faff chat` starts from what the commands have   *)
(* left, and `faff run` where a channel is enabled, whichever of them were *)
(* run and killed and wherever: the config names no key and no extension   *)
(* that is not there, but for one that a wizard is copying over.  Where    *)
(* the image lacks the package of a channel, `faff run` needs it rebuilt,  *)
(* and the package is in the requirements it is to be rebuilt from.        *)
THEOREM WhatIsConfiguredIsThere == Spec => []ConfigIsBacked
<1>1. Settled => ConfigIsBacked
  <2>1. SUFFICES ASSUME Settled, Has("config"), halfway = "no", CheckProviderConfigured
                 PROVE  \/ CmdChat /\ (Enabled(ChannelKinds) => CmdRun)
                        \/ /\ LoadConfig /\ "secret" \in Environment /\ Has("ext")
                           /\ \/ ~root["ext"].whole
                              \/ Enabled(ChannelKinds) /\ ~checkout.installed /\ PackageListed(root)
    BY DEF ConfigIsBacked
  <2>2. BackedDir(root) /\ RecordedDir(root) /\ DOMAIN root["config"].slots = SlotName
    BY <2>1, ConfigFits DEF Settled, Backed, Recorded
  <2>3. KeysOf(root) = KeysIn
    BY DEF KeysOf, KeysIn, Has
  <2>4. LoadConfig
    BY <2>1, <2>2, <2>3 DEF BackedDir, LoadConfig, ParseModel, Environment, CheckProviderConfigured, Has
  <2>5. root["config"].enabled # "no" =>
            /\ "secret" \in Environment /\ Has("ext")
            /\ Enabled(ChannelKinds) => PackageListed(root)
    BY <2>1, <2>2, <2>3 DEF BackedDir, RecordedDir, Environment, Has, Enabled
  <2>6. CASE root["config"].enabled = "no"
    BY <2>1, <2>4, <2>6 DEF CmdChat, Wire, WireTranscriber, WireSearchProvider, Enabled, ChannelKinds
  <2>7. CASE root["config"].enabled # "no" /\ root["ext"].whole /\ (Enabled(ChannelKinds) => checkout.installed)
    <3>1. ImportClass /\ "secret" \in Environment
      BY <2>5, <2>7 DEF ImportClass
    <3>2. QED
      BY <2>1, <2>4, <3>1 DEF CmdChat, CmdRun, BuildChannels, Wire, WireTranscriber, WireSearchProvider
  <2>8. QED
    BY <2>4, <2>5, <2>6, <2>7
<1>2. QED
  BY <1>1, SettledInit, SettledStep, PTL DEF Spec

(* "Ready to run", says `faff doctor`, and so it is: `faff chat` starts,   *)
(* and `faff run` where a channel is enabled, in the middle of a command,  *)
(* after a killed one, and after a restore that was cut short while the    *)
(* secret is there.  The doctor does not look at the secret, nor at the    *)
(* module of a search or a voice; what the wizards record first does.      *)
THEOREM ReadyMeansReady == Spec => []ReadyStarts
<1>1. Settled => ReadyStarts
  <2>1. SUFFICES ASSUME Settled, RunDoctor, halfway # "apart", halfway = "restore" => "secret" \in Environment
                 PROVE  CmdChat /\ (Enabled(ChannelKinds) => CmdRun)
    BY DEF ReadyStarts
  <2>2. Has("config") /\ LoadConfig /\ CheckProviderConfigured
    BY <2>1 DEF RunDoctor, CheckConfig, CheckProvider, CheckProviderConfigured
  <2>3. CASE root["config"].enabled = "no"
    BY <2>2, <2>3 DEF CmdChat, Wire, WireTranscriber, WireSearchProvider, Enabled, ChannelKinds
  <2>4. CASE root["config"].enabled # "no"
    <3>1. "secret" \in Environment
      <4>1. CASE halfway = "no"
        BY <2>1, <2>2, <2>4, <4>1 DEF Settled, Backed, BackedDir, KeysOf, KeysIn, Environment, Has
      <4>2. QED
        BY <2>1, <4>1 DEF Settled, Base, Types
    <3>2. Has("ext") /\ Has("extOrigin") /\ (root["extOrigin"].whole => root["extOrigin"].hash # NoTree)
      BY <2>1, <2>2, <2>4 DEF Settled, Recorded, RecordedDir, Has
    <3>3. "extensions" \in dirs
      BY <2>1, <3>2, PartIs DEF Settled, Base, Placed, Has
    <3>4. root["extOrigin"].whole /\ "tampered" \notin ClassifyOrigin
      BY <2>1, <3>2, <3>3 DEF RunDoctor, CheckExtensions
    <3>5. Entry("extOrigin") = root["extOrigin"] /\ GoodOrigin(root["extOrigin"])
      BY <2>1, <3>2, <3>4, EntryIs DEF Entry, Settled, Base
    <3>6. root["ext"] = root["extOrigin"].hash
      BY <3>2, <3>4, <3>5 DEF ClassifyOrigin
    <3>7. root["ext"].whole
      BY <3>2, <3>4, <3>5, <3>6 DEF GoodOrigin
    <3>8. ImportClass
      BY <2>1, <3>2, <3>7 DEF RunDoctor, CheckChannels, ImportClass
    <3>9. QED
      BY <2>2, <3>1, <3>8 DEF CmdChat, CmdRun, BuildChannels, Wire, WireTranscriber, WireSearchProvider
  <2>5. QED
    BY <2>3, <2>4
<1>2. QED
  BY <1>1, SettledInit, SettledStep, PTL DEF Spec
=============================================================================
