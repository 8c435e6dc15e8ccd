----------------------------- MODULE MCUnitServer -----------------------------
(***************************************************************************)
(* Two units, and one thing that is hard about them in each setup.         *)
(***************************************************************************)
EXTENDS UnitServer

CONSTANTS a, b

Conf0 == [kind |-> "daemon", restart |-> FALSE, wanted |-> {"multi-user"}, requires |-> {},
          conflicts |-> {}, bad |-> FALSE]
Both(cs, ds) == [u \in Units |-> IF u = a THEN cs ELSE ds]

Req(command, u, options) == [command |-> command, arg |-> <<u>>, options |-> options]
All(command, options)    == {Req(command, u, options) : u \in Units}
Plain(command)           == [command |-> command, arg |-> <<>>, options |-> <<>>]

Setup0 == [conf |-> Both(<<Conf0>>, <<Conf0>>), cmdline |-> None, default |-> "multi-user",
           links |-> {}, requests |-> {}, flaky |-> {}, fails |-> 0, power |-> FALSE]

(* Two daemons that exclude each other, one of which dies and is restarted.*)
Rivals ==
  [Setup0 EXCEPT
     !.conf = Both(<<[Conf0 EXCEPT !.conflicts = {b}, !.restart = TRUE]>>,
                   <<[Conf0 EXCEPT !.conflicts = {a}]>>),
     !.links = {<<a, "multi-user">>}, !.flaky = {a},
     !.requests = All("enable", <<>>) \cup All("enable", <<"force", "run">>)
                    \cup All("start", <<"force">>) \cup All("stop", <<>>)
                    \cup {Req("start", b, <<>>), Req("status", a, <<>>), Plain("list")}]

(* A daemon that another one requires, and re-enabling. *)
Dependent ==
  [Setup0 EXCEPT
     !.conf = Both(<<[Conf0 EXCEPT !.restart = TRUE]>>,
                   <<[Conf0 EXCEPT !.requires = {a}, !.kind = "oneshot"]>>),
     !.links = {<<a, "multi-user">>, <<b, "multi-user">>}, !.flaky = {a},
     !.requests = All("disable", <<>>) \cup All("enable", <<>>)
                    \cup {Req("enable", b, <<"re-enable", "run">>), Req("start", b, <<"restart">>),
                          Req("start", a, <<>>), Req("stop", a, <<>>)}]

(* The files of the units are changed; the second version of one is wrong. *)
Edited ==
  [Setup0 EXCEPT
     !.conf = Both(<<Conf0, [Conf0 EXCEPT !.wanted = {"multi-user", "poweroff"}]>>,
                   <<Conf0, [Conf0 EXCEPT !.bad = TRUE], Conf0>>),
     !.links = {<<a, "multi-user">>},
     !.requests = All("start", <<"restart">>)
                    \cup {Req("status", a, <<>>), Req("stop", b, <<>>), Req("enable", a, <<"re-enable">>),
                          Req("enable", b, <<"re-enable", "run">>), Plain("list")}]

(* Default states, scripts that fail and losses of power. *)
Several == [Conf0 EXCEPT !.wanted = {"multi-user", "graphical", "reboot"}]
Default ==
  [Setup0 EXCEPT
     !.conf = Both(<<Several>>, <<[Several EXCEPT !.requires = {a}]>>),
     !.links = {<<a, "multi-user">>}, !.fails = 1, !.power = TRUE,
     !.requests = {Req("set-default", s, <<>>) : s \in Levels}
                    \cup {Plain("reboot"), Plain("get-default"), Req("disable", a, <<"run">>),
                          Req("enable", a, <<>>), Req("enable", b, <<>>)}]

CmdLine == [Default EXCEPT !.cmdline = "graphical", !.links = {<<a, "graphical">>}, !.power = FALSE]

(* Stop commands that cannot be executed. *)
Failing ==
  [Setup0 EXCEPT
     !.conf = Both(<<[Conf0 EXCEPT !.conflicts = {b}, !.restart = TRUE]>>,
                   <<[Conf0 EXCEPT !.kind = "oneshot"]>>),
     !.flaky = Units, !.fails = 1,
     !.requests = All("start", <<"restart">>) \cup All("start", <<"force">>)
                    \cup {Req("stop", a, <<>>), Req("disable", a, <<"run">>), Plain("poweroff")}]

Instances == {Rivals, Dependent, Edited, Default, CmdLine, Failing}

(* The hypothesis under which RivalsAreNotEnabled holds is true of them.   *)
ASSUME RivalsApart == LinksExclude
=============================================================================
