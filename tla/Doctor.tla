------------------------------- MODULE Doctor -------------------------------
(***************************************************************************)
(* `faff doctor`, run at any moment: it reads what the commands have left, *)
(* or are about to leave, and says whether the agent is ready to run.  Its *)
(* checks are those whose subject the other modules model; each is the     *)
(* condition under which it is not red.  The provider is taken to answer.  *)
(***************************************************************************)
EXTENDS Housekeeping

CheckDirs == {"workspace", "state"} \subseteq dirs
CheckConfig == Has("config") /\ LoadConfig
CheckProvider == root["config"].slots["main"] # NoModel

(* The routes that `faff init` writes and the jobs that the channel wizards*)
(* add name all three slots.                                               *)
CheckRouting == \A slot \in DOMAIN root["config"].slots : root["config"].slots[slot] # NoModel

CheckChannels == Enabled(ChannelKinds) => ImportClass

(* Mutant: one that has an update is not looked at further. *)
ClassifyOriginOnce ==
    LET hash == Entry("extOrigin").hash
    IN  CASE hash = NoTree \/ ~Has("ext") -> {}
          [] Template # hash -> {"stale"}
          [] root["ext"] # hash -> {"tampered"}
          [] OTHER -> {}

(* What is recorded of the extension against what is there and what is     *)
(* shipped.  A file that is gone is passed over.                           *)
ClassifyOrigin ==
    LET hash == Entry("extOrigin").hash
    IN  IF hash = NoTree \/ ~Has("ext") THEN {}
        ELSE {class \in {"tampered", "stale"} :
                 \/ class = "tampered" /\ root["ext"] # hash
                 \/ class = "stale" /\ Template # hash}

CheckExtensions ==
    "extensions" \in dirs /\ Has("extOrigin") =>
        root["extOrigin"].whole /\ "tampered" \notin ClassifyOrigin

CheckJobs == "workspace" \in dirs /\ Has("jobs") => root["jobs"].whole

RunDoctor ==
    /\ CheckDirs
    /\ CheckConfig /\ CheckProvider /\ CheckRouting /\ CheckChannels
    /\ CheckExtensions /\ CheckJobs

-----------------------------------------------------------------------------
(* "Ready to run: faff chat (CLI) or faff run (all channels)": when the    *)
(* doctor says so, `faff chat` starts, and so does `faff run` where a      *)
(* channel is enabled: in the middle of a command and after a killed one,  *)
(* a restore included.  The doctor looks at no search or voice module and  *)
(* at no token, so the promise rests on what the wizards record before they*)
(* enable anything.  Three things escape it: a move out of the checkout    *)
(* that was cut short; a config that came back from a state-only tarball   *)
(* and enables an extension, which was not in it; and a restore that was   *)
(* cut short while .env, and the token in it, was gone and the config not. *)
ReadyStarts ==
    RunDoctor /\ halfway # "apart" /\ (halfway = "restore" => "secret" \in Environment) =>
        CmdChat /\ (Enabled(ChannelKinds) => CmdRun)
=============================================================================
