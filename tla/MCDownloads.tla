------------------------------ MODULE MCDownloads ------------------------------
(***************************************************************************)
(* Downloads with two manifests and the native tables they may meet, and   *)
(* with the manifests of channels/ and of the tests.  While one of the two *)
(* is active the other rests in one state.                                 *)
(***************************************************************************)
EXTENDS Downloads, TLC

CONSTANTS p1, p2, l1, l2, s1, s2

Tools     == {p1, p2}
Launchers == {l1, l2}
Seconds   == {s1, s2}
Slots     == 1 .. 3
Symmetry  == Permutations(Tools) \cup Permutations(Launchers)
               \cup Permutations(Seconds)

NativeTask(slot, file, adopt, unsigned, encrypted) ==
  [slot |-> slot, file |-> file, route |-> file, adopt |-> adopt,
   unsigned |-> unsigned, encrypted |-> encrypted]

ForecastChannel == [channel |-> "FORECAST", title |-> "forecast", base |-> "local",
             prune |-> TRUE,
             tasks |-> {NativeTask(1, "short", FALSE, TRUE, FALSE),
                        NativeTask(2, "full", FALSE, FALSE, TRUE)}]
GuideChannel == [channel |-> "GUIDE", title |-> "guide", base |-> "local", prune |-> FALSE,
             tasks |-> {NativeTask(3, "header", TRUE, TRUE, FALSE)}]
Manifests == {ForecastChannel, GuideChannel}

Native(title, file, flags) ==
  [title |-> title, file |-> file, url |-> <<"native", file>>, flags |-> flags,
   kind |-> Channel, due |-> FALSE]

Tables ==
  {[s \in Slots |-> IF s = 3 THEN Native("guide", "header", {"native", "decrypt"})
                             ELSE None],
   [s \in Slots |-> CASE s = 1 -> Native("forecast", "full", {"native", "decrypt"})
                      [] s = 2 -> None
                      [] s = 3 -> Native("mail", "full", {})]}

------------------------------------------------------------------------------
(* ContentServer *)

Task(slot, file, route, payload, coded) ==
  [slot |-> slot, file |-> file, route |-> route, payload |-> <<payload>>, coded |-> coded]
Asset(file, payload, coded) == [file |-> file, payload |-> <<payload>>, coded |-> coded]
Listed(channel, title, base, tasks, assets) ==
  [channel |-> channel, title |-> title, base |-> base, tasks |-> tasks, assets |-> assets]

Hbnj == Listed("HBNJ", "hbnj", "tvepg",
  {Task(10, "epg.bin", <<"1016", "epg.bin">>, "epg", TRUE),
   Task(11, "str.bin", <<"1016", "str.bin">>, "string", TRUE),
   Task(12, "header.bin", <<"header.bin">>, "header", TRUE)}, {})
Bootstrap == Listed("HBNJ", "hbnj", "tvepg",
  {Task(10, "header.bin", <<"header.bin">>, "header", TRUE)},
  {Asset("epg.bin", "epg", TRUE), Asset("str.bin", "string", TRUE)})
Forecast == Listed("HAFJ", "hafj", "local",
  {Task(3, "3.bin", <<"0", "001", "forecast.bin">>, "forecast", FALSE)}, {})
WiiNoMa == Listed("HCIJ", "hcij", "local", {}, {Asset("first.bin", "first", FALSE)})
Other == Listed("SYNTHETIC", "other", "local",
  {Task(1, "other.bin", <<"fixture", "other.bin">>, "other", TRUE)}, {})
Alias == Listed("ALIAS", "alias", "local",
  {Task(2, "alias.bin", <<"fixture", "3.bin">>, "other", FALSE)}, {})
Conflict == Listed("SYNTHETIC", "other", "local",
  {Task(1, "other.bin", <<"wrong", "header.bin">>, "other", FALSE)}, {})

Twin == Listed("SECOND", "second", "local",
  {Task(2, "other.bin", <<"second", "other.bin">>, "other", FALSE)}, {})

\* Routes with repeated and trailing slashes, one of which normalizes to another
\* task's, and the route of a handler.
Padded == Listed("PADDED", "padded", "local",
  {Task(4, "pad.bin", <<"a", "", "pad.bin">>, "pad", FALSE),
   Task(5, "dir.bin", <<"a", "">>, "pad", FALSE),
   Task(6, "a.bin", <<"a">>, "other", FALSE),
   Task(7, "ok.bin", <<"healthz">>, "other", FALSE)}, {})

Listings ==
  {<<m>> : m \in {Hbnj, Bootstrap, Forecast, WiiNoMa, Other, Padded}} \cup
  {<<Hbnj, m>> : m \in {Hbnj, Bootstrap, Forecast, Other, Conflict}} \cup
  {<<Forecast, WiiNoMa>>, <<Forecast, Alias>>, <<Bootstrap, Forecast>>,
   <<Other, Twin>>}

Consoles == {<<"header.bin">>, <<"1016", "epg.bin">>, <<"1016", "str.bin">>,
             <<"epg.bin">>, <<"other", "header.bin">>, <<"news", "news.bin.00">>,
             <<"0", "001", "forecast.bin">>, <<"bin1", "first.bin">>, <<"healthz">>,
             <<"", "header.bin">>, <<"1016", "", "epg.bin">>, <<"header.bin", "">>,
             <<"0", "", "001", "forecast.bin", "">>, <<"news", "", "news.bin.00">>,
             <<"", "news", "news.bin.00">>, <<"a">>, <<"a", "">>, <<"a", "", "pad.bin">>,
             <<"fixture", "other.bin">>, <<"fixture", "3.bin">>}

Areas    == <<"1016">>
Numbers  == {"1016", "0"}
Coded    == {"HBNJ", "HAFJ", "SYNTHETIC"}
Answered == {<<"healthz">>}
First    == [e \in 1 .. 2 |-> e - 1]
After    == [e \in 1 .. 2 |-> e + 1]

------------------------------------------------------------------------------

RestingInit ==
  /\ active \in {"profile", "server"}
  /\ Init
  /\ active # "profile" => table[1] = None /\ config.stage = "initial"
  /\ Serving!Init
  /\ active # "server" => \A p \in DOMAIN live : live[p] = Serving!Absent

\* A legacy update is one to the second edition.
RestingNext == SuiteNext /\ building' # 1

RestingSpec == RestingInit /\ [][RestingNext]_suite
================================================================================
