----------------------------- MODULE ContentServer -----------------------------
(***************************************************************************)
(* The download server of jwc24/server.py with the preparation checks      *)
(* before it (readiness.py, prepared_delivery.py, wc24_delivery.py) and    *)
(* the tools that change what it serves while it runs: the legacy guide    *)
(* update replaces one live file after another, a coherent publication     *)
(* switches one pointer.  A payload is the edition it was built from, and  *)
(* a path is the sequence of its parts: "" stands between two slashes and  *)
(* after a trailing one.                                                   *)
(***************************************************************************)
EXTENDS Naturals, Sequences, FiniteSets, SequencesExt

CONSTANTS
  MaxEdition,           \* bound: editions 1 .. MaxEdition, built in this order
  Collected, Expires,   \* the first second of an edition, and the first after it
  MaxClock,             \* bound
  Listing,              \* the lists of manifests that operators give
  Area,                 \* the guide areas, in the order of their directories
  Number,               \* the route parts that are digits, the areas among them
  Direct,               \* the routes that a handler answers by itself
  Routes,               \* the paths that consoles ask for
  Keyed                 \* the channels whose NAND title has a whole key file

Edition == 1 .. MaxEdition
Absent  == 0

GuideNames == {"header.bin", "epg.bin", "str.bin"}
NewsNames  == {"news.bin.00"}   \* for the 24 files of a News publication

VARIABLES
  live,      \* live[p]: the edition that the file at path p holds, or Absent
  todo,      \* the paths that the running legacy update has not replaced yet
  building,  \* the edition it replaces them with
  current,   \* the edition that each publication's pointer names, or Absent
  server,    \* the arguments that preflight has passed, the server process with its
             \* snapshots, how one has been refused, or Down
  answers,   \* from which editions the process has answered the routes of its
             \* publications, and whether each was current at that time
  clock

vars == <<live, todo, building, current, server, answers, clock>>

Down == [stage |-> "down"]

\* tools/update_hbnj_daily.py: the national files, then each area's pair.
AreaFile(area, file) == <<"areas", area, file>>
UpdateOrder == <<<<"epg">>, <<"string">>, <<"header">>>> \o
  FlattenSeq([i \in DOMAIN Area |->
                <<AreaFile(Area[i], <<"epg">>), AreaFile(Area[i], <<"string">>)>>])

Manifests  == UNION {Range(l) : l \in Listing}
ItemsOf(m) == m.tasks \cup m.assets
GuidePaths == Range(UpdateOrder)
OtherPaths == {i.payload : i \in UNION {ItemsOf(m) : m \in Manifests}} \ GuidePaths

In(edition, at) == edition # Absent /\ Collected[edition] <= at /\ at < Expires[edition]

Init ==
  /\ live \in {[p \in GuidePaths \cup OtherPaths |-> IF p \in built THEN 1 ELSE Absent] :
                 built \in {{}, OtherPaths, GuidePaths \cup OtherPaths}}
  /\ todo = <<>> /\ building = Absent
  /\ current = [guide |-> Absent, news |-> Absent]
  /\ server = Down /\ answers = {}
  /\ clock = 0

------------------------------------------------------------------------------
(* The manifests that a process is given.  An item is named by the place   *)
(* of its manifest in the list: the code compares identities.              *)

Tasks(list)  == UNION {{<<i, t>> : t \in list[i].tasks} : i \in DOMAIN list}
Assets(list) == UNION {{<<i, a>> : a \in list[i].assets} : i \in DOMAIN list}
Items(list)  == Tasks(list) \cup Assets(list)

\* Routes are declared as they are written; a request's path is brought to the form
\* without repeated and trailing slashes.
Normalize(path) == SelectSeq(path, LAMBDA part : part # "")
Basename(route) == IF route = <<>> THEN "" ELSE Last(route)
Aliases(asset)  == {<<asset.file>>} \cup {<<bin, asset.file>> : bin \in {"bin1", "bin10"}}

\* What is beneath the prefix of a News publication.
Beneath(path) == Len(path) > 1 /\ path[1] = "news"

Owned(list, guide) ==
  IF guide = Absent THEN {}
  ELSE {t \in Tasks(list) : list[t[1]].channel = "HBNJ" /\ t[2].file \in GuideNames}

\* snapshot_tasks, for each of the two publications.
GuideFits(list, guide) ==
  LET owned == Owned(list, guide) IN
  guide # Absent =>
    /\ Cardinality({i \in DOMAIN list : list[i].channel = "HBNJ"}) = 1
    /\ {t[2].file : t \in owned} = GuideNames
    /\ \A t \in owned : t[2].coded
    /\ \A t \in Tasks(list) \ owned : Basename(t[2].route) \notin GuideNames

NewsFits(list, news) ==
  news # Absent =>
    /\ \A t \in Tasks(list) : ~Beneath(t[2].route)
    /\ \A i \in Items(list) : i[2].file \notin NewsNames

SameNames(list)  == \E i, j \in Items(list) : i # j /\ i[2].file = j[2].file
SameRoutes(list) == \E t, u \in Tasks(list) : t # u /\ t[2].route = u[2].route
Coded(list)      == {i \in Items(list) : i[2].coded}
KeysArePresent(list) == \A i \in Coded(list) : list[i[1]].channel \in Keyed

\* The command line: publications named by --hbnj-root and --news-root are
\* loaded, which fails unless they are whole and current.
Arguments ==
  [list : Listing, nand : BOOLEAN, guide : BOOLEAN, news : BOOLEAN, oneBase : BOOLEAN]
Loaded(a, name) == IF a[name] THEN current[name] ELSE Absent
Loads(a) == \A name \in {"guide", "news"} : a[name] => In(current[name], clock)
Bases(a) == IF a.oneBase THEN {"one"} ELSE {a.list[i].base : i \in DOMAIN a.list}
SingleBase(a) == Cardinality(Bases(a)) = 1

Missing(list, guide) ==
  {i \in Items(list) \ Owned(list, guide) : live[i[2].payload] = Absent}

\* Mutant: filenames are compared within each manifest only.
Undisputed_NamesApart(list) == ~SameRoutes(list)

\* No two items dispute a route or a filename.
Undisputed(list) == ~SameRoutes(list) /\ ~SameNames(list)

\* inspect_readiness finds no issue in what preflight has loaded.
Prepared(a) ==
  LET list  == a.list
      guide == Loaded(a, "guide") IN
  /\ Loads(a) /\ Len(list) > 0
  /\ GuideFits(list, guide) /\ NewsFits(list, Loaded(a, "news"))
  /\ Missing(list, guide) = {}
  /\ Undisputed(list)
  /\ \A i, j \in DOMAIN list : i # j => list[i].title # list[j].title
  /\ \A t, u \in Tasks(list) : t # u => t[2].slot # u[2].slot
  /\ \A x \in Assets(list), t \in Tasks(list) : t[2].route \notin Aliases(x[2])
  /\ SingleBase(a)
  /\ a.nand => KeysArePresent(list)

\* What fails when the serve command prepares to serve.
LoadFaults(a) ==
  {fault \in {"load", "base"} :
     \/ fault = "load" /\ ~Loads(a)
     \/ fault = "base" /\ ~SingleBase(a)}

\* The checks of serve that fail, later and on what process s has loaded.
Faults(s) ==
  {fault \in {"empty", "expired", "conflict", "routes", "names", "payloads", "keys"} :
     \/ fault = "empty"    /\ Len(s.list) = 0
     \/ fault = "expired"  /\ s.guide # Absent /\ ~In(s.guide, clock)
     \/ fault = "conflict" /\ ~(GuideFits(s.list, s.guide) /\ NewsFits(s.list, s.news))
     \/ fault = "routes"   /\ SameRoutes(s.list)
     \/ fault = "names"    /\ SameNames(s.list)
     \/ fault = "payloads" /\ Missing(s.list, s.guide) # {}
     \/ fault = "keys"     /\ Coded(s.list) # {} /\ ~(s.nand /\ KeysArePresent(s.list))}

\* What no manifest or publication tells of: a certificate without its key, a request
\* log or a listener that cannot be opened.
Surroundings == {"tls", "log", "listener"}

------------------------------------------------------------------------------
(* do_GET *)

Ok(from, edition) == [status |-> 200, from |-> from, edition |-> edition]
Failure(status)   == [status |-> status, from |-> <<>>, edition |-> Absent]
Memory(edition)   == Ok(<<"memory">>, edition)
Stored(path)      == IF path \in DOMAIN live /\ live[path] # Absent
                       THEN Ok(path, live[path]) ELSE Failure(404)

\* NewsApplication.get, which sees the path as it was sent.
NewsAnswer(s, path) ==
  IF Len(path) # 2 \/ path[2] \notin NewsNames THEN Failure(404)
  ELSE IF In(s.news, clock) THEN Memory(s.news) ELSE Failure(503)

\* The routes of a loaded guide: the header, and one pair for each area.
InGuide(route) ==
  \/ route = <<"header.bin">>
  \/ /\ Len(route) = 2 /\ route[1] \in Range(Area)
     /\ route[2] \in {"epg.bin", "str.bin"}

\* Mutant: an expired guide falls through to the files.
GuideAnswer_FallsThrough(s, route) ==
  IF ~InGuide(route) THEN Failure(404)
  ELSE IF In(s.guide, clock) THEN Memory(s.guide)
  ELSE Stored(IF route = <<"header.bin">> THEN <<"header">>
              ELSE AreaFile(route[1], IF route[2] = "epg.bin"
                                      THEN <<"epg">> ELSE <<"string">>))

GuideAnswer(s, route) ==
  IF ~InGuide(route) THEN Failure(404)
  ELSE IF In(s.guide, clock) THEN Memory(s.guide) ELSE Failure(503)

\* Mutant: the filename alias is looked up before the declared route.
Declared_AliasFirst(list, route) ==
  LET named == {i[2] : i \in {j \in Items(list) : j[2].file = Basename(route)}} IN
  IF named # {} THEN named
  ELSE {t[2] : t \in {u \in Tasks(list) : u[2].route = route}}

\* The task of the route, else the asset, else the item of that filename.
Declared(list, route) ==
  LET tasks  == {t \in Tasks(list) : t[2].route = route}
      assets == {x \in Assets(list) : route \in Aliases(x[2])}
      named  == {i \in Items(list) : i[2].file = Basename(route)} IN
  {i[2] : i \in IF tasks # {} THEN tasks ELSE IF assets # {} THEN assets ELSE named}

Regional(route) == Len(route) = 2 /\ route[1] \in Number

FileAnswer(s, route) ==
  LET items == Declared(s.list, route) IN
  IF items = {} THEN Failure(404)
  ELSE LET item == CHOOSE i \in items : TRUE IN
       IF Regional(route)
         THEN Stored(AreaFile(route[1], item.payload)) ELSE Stored(item.payload)

Answer(s, path) ==
  LET route == Normalize(path) IN
  IF s.news # Absent /\ Beneath(path) THEN NewsAnswer(s, path)
  ELSE IF s.guide # Absent /\ Basename(route) \in GuideNames THEN GuideAnswer(s, route)
  ELSE IF route \in Direct THEN Ok(<<"handler">>, Absent)
  ELSE FileAnswer(s, route)

------------------------------------------------------------------------------
(* Actions *)

Tick == /\ clock < MaxClock /\ clock' = clock + 1
        /\ UNCHANGED <<live, todo, building, current, server, answers>>

\* main --legacy, after its staging tree has been validated.
StartUpdate(edition) ==
  /\ todo = <<>> /\ building < edition
  /\ todo' = UpdateOrder /\ building' = edition
  /\ UNCHANGED <<live, current, server, answers, clock>>

ReplaceFile ==
  /\ todo # <<>>
  /\ live' = [live EXCEPT ![Head(todo)] = building]
  /\ todo' = Tail(todo)
  /\ UNCHANGED <<building, current, server, answers, clock>>

\* An error or the end of the tool: what is replaced stays replaced.
UpdateFails ==
  /\ todo # <<>> /\ todo' = <<>>
  /\ UNCHANGED <<live, building, current, server, answers, clock>>

\* publish_hbnj_snapshot and write_news_publication: see Publication.
Publish(name, edition) ==
  /\ In(edition, clock) /\ current[name] < edition
  /\ current' = [current EXCEPT ![name] = edition]
  /\ UNCHANGED <<live, todo, building, server, answers, clock>>

\* preflight changes nothing; the operator may then serve with the same arguments.
Preflight(a) ==
  /\ server = Down /\ Prepared(a)
  /\ server' = [stage |-> "passed", args |-> a]
  /\ UNCHANGED <<live, todo, building, current, answers, clock>>

\* A command ends with the first of its checks to fail, whichever that is.
Refuse(nand, passed, faults) ==
  \E fault \in faults :
    server' = [stage |-> "refused", nand |-> nand, passed |-> passed, fault |-> fault]

\* serve, after a preflight with the same arguments or without one, loads the
\* publications anew.
Serve(a) ==
  /\ server \in {Down, [stage |-> "passed", args |-> a]}
  /\ LET passed == server.stage = "passed" IN
     IF LoadFaults(a) # {} THEN Refuse(a.nand, passed, LoadFaults(a))
     ELSE server' = [stage |-> "starting", nand |-> a.nand, passed |-> passed,
                     list |-> a.list, guide |-> Loaded(a, "guide"),
                     news |-> Loaded(a, "news")]
  /\ UNCHANGED <<live, todo, building, current, answers, clock>>

Start ==
  /\ server.stage = "starting"
  /\ \/ Refuse(server.nand, server.passed, Faults(server) \cup Surroundings)
     \/ /\ Faults(server) = {}
        /\ server' = [stage |-> "up", passed |-> server.passed, list |-> server.list,
                      guide |-> server.guide, news |-> server.news]
  /\ UNCHANGED <<live, todo, building, current, answers, clock>>

Stop ==
  /\ server # Down
  /\ server' = Down /\ answers' = {}
  /\ UNCHANGED <<live, todo, building, current, clock>>

\* The publication whose routes this process counts the path among, if any.
Kind(path) ==
  IF server.news # Absent /\ Beneath(path) THEN {"news"}
  ELSE IF server.guide # Absent /\ Basename(Normalize(path)) \in GuideNames THEN {"guide"}
  ELSE {}

Get(path) ==
  /\ server.stage = "up"
  /\ LET answer == Answer(server, path) IN
     answers' = answers \cup
       {[kind |-> k, edition |-> answer.edition, current |-> In(answer.edition, clock)] :
          k \in {x \in Kind(path) : answer.status = 200}}
  /\ UNCHANGED <<live, todo, building, current, server, clock>>

Next ==
  \/ Tick \/ ReplaceFile \/ UpdateFails \/ Start \/ Stop
  \/ \E edition \in Edition : StartUpdate(edition)
  \/ \E name \in {"guide", "news"}, edition \in Edition : Publish(name, edition)
  \/ /\ server.stage \in {"down", "passed"}
     /\ \E a \in Arguments : Preflight(a) \/ Serve(a)
  \/ \E path \in Routes : Get(path)

Spec == Init /\ [][Next]_vars

------------------------------------------------------------------------------
(* Properties *)

\* What the read-only preflight has passed, the server refuses later only for what
\* has changed or was not looked at: a named publication that is no longer current,
\* a certificate without its key, a log or listener that cannot be opened, or
\* encrypted payloads when preflight was given no NAND.  Publications, updates and the
\* clock have gone on in between, and the two commands repeat each other's checks
\* in different places (readiness.inspect_readiness, server.serve).
PreflightAgreesWithServe ==
  server.stage = "refused" /\ server.passed =>
    \/ server.fault \in {"load", "expired"} \cup Surroundings
    \/ server.fault = "keys" /\ ~server.nand

\* A task whose route can be asked for as it is declared: without repeated or trailing
\* slashes, which a request loses, not of a handler's own, and for a task that a guide
\* supplies, one that the guide has.
Reachable(t) ==
  /\ Normalize(t[2].route) = t[2].route /\ t[2].route \notin Direct
  /\ t \in Owned(server.list, server.guide) => InGuide(t[2].route)

\* A server that runs what preflight has passed answers the route of each reachable
\* task, and the route padded with slashes, with that task's own payload, whatever has
\* been published and replaced since: no alias, snapshot or other manifest takes the
\* route over, and no payload goes missing.  A guide task is answered from the snapshot
\* while that is current; a route of a numbered area with that area's file, which
\* preflight has not looked for, or not at all (do_GET).
PreflightedTaskIsServed ==
  server.stage = "up" /\ server.passed =>
    \A t \in Tasks(server.list) : \A path \in Routes \cup {t[2].route} :
      LET route == t[2].route IN
      Reachable(t) /\ Normalize(path) = route /\ (Beneath(path) => path = route) =>
        Answer(server, path) =
          IF t \in Owned(server.list, server.guide)
            THEN IF In(server.guide, clock) THEN Memory(server.guide) ELSE Failure(503)
          ELSE IF Regional(route) THEN Stored(AreaFile(route[1], t[2].payload))
          ELSE Ok(t[2].payload, live[t[2].payload])

\* One server process answers guide and News routes from the one edition it
\* loaded, and only while that edition is current, whatever is published or
\* replaced under it meanwhile; it never falls back to the live files of the
\* legacy update (do_GET, NewsApplication.get, raw_payload).
OneEditionPerProcess ==
  \A x \in answers : x.edition = server[x.kind] /\ x.current
==============================================================================
