--------------------------- MODULE MCHousekeeping ---------------------------
(* An install with an archive of each layout, a machine before and after   *)
(* `faff init`, and a data root that is still in the checkout.             *)
EXTENDS Doctor, TLC

All == {"workspace", "state", "extensions"}
Home ==
    [keys |-> {"secret"}, config |-> Config(NoKey, "telegram"), db |-> 0,
     jobs |-> Jobs("old"), notes |-> 0,
     skillOrigin |-> Origin("templates", Tree(1, 0)), skill |-> Tree(1, 0),
     extOrigin |-> Origin("contrib", Tree(1, 0)), ext |-> Tree(1, 0), requirements |-> {"package"}]
Tarball(data, old) == [data |-> data, whole |-> TRUE, old |-> old, half |-> "no"]
StateOnly == [keys |-> {}, config |-> NewConfig, db |-> 9]
EnablesOne == [keys |-> {"secret"}, config |-> Config(NoKey, "search")]

Installed == [root |-> Home, dirs |-> All, backups |-> <<>>, legacy |-> Empty, home |-> "templates",
              extension |-> "telegram", installed |-> TRUE]
Initialised ==
    [Installed EXCEPT !.root = [keys |-> {}, config |-> NewConfig, jobs |-> Jobs("empty"), notes |-> 0] @@
                               [skillOrigin |-> Home.skillOrigin, skill |-> Home.skill,
                                extOrigin |-> NoEntry, requirements |-> {}], !.installed = FALSE]
MCBeginnings ==
    {Installed,
     [Installed EXCEPT !.root = With(Home, "config", Config(NoKey, "search")), !.extension = "search",
                       !.backups = <<Tarball(StateOnly, TRUE)>>],
     [Installed EXCEPT !.backups = <<Tarball(With(Without(Home, {"ext", "extOrigin", "requirements"}),
                                                  "config", NewConfig), FALSE)>>],
     [Installed EXCEPT !.root = Empty, !.dirs = {}, !.extension = "discord", !.installed = FALSE],
     [Initialised EXCEPT !.extension = "voice"], [Initialised EXCEPT !.extension = "search"],
     [Initialised EXCEPT !.extension = "search", !.backups = <<Tarball(EnablesOne, TRUE)>>],
     [Installed EXCEPT !.root = Empty, !.dirs = {}, !.legacy = Home, !.installed = FALSE,
                       !.backups = <<Tarball(StateOnly, TRUE), Tarball(Home, FALSE)>>]}
=============================================================================
