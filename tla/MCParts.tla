------------------------------- MODULE MCParts -------------------------------
(***************************************************************************)
(* Parts on small instances.  While one part is active each other rests in *)
(* one of its initial states.                                              *)
(***************************************************************************)
EXTENDS Parts

------------------------------------------------------------------------------
(* shop, receipts *)

CONSTANTS a, b, cc, d, vote, rating

MCFound  == {<<a>>, <<b, a>>, <<cc, b>>, <<b, d>>, <<>>}
MCLegacy == {<<a, b>>, <<cc>>}

MCEarlier == {<<vote>>, <<vote, rating, vote>>, <<rating, Malformed>>}

------------------------------------------------------------------------------
(* forecast *)

A  == <<[char |-> "a"]>>
AB == <<[char |-> "a"], [char |-> "b"]>>
B  == <<[char |-> "b"]>>
NoCode == "missing"
Codes  == {"sun", "rain", NoCode}
Characters == [char : {"a", "b", "s", "t", "u", "z"}]

Location(key, city, region) == [key |-> key, city |-> city, region |-> region]
ForecastRow(key, code, sound) == [key |-> key, code |-> code, sound |-> sound]
Entry(code, text) == [code |-> code, text |-> text]

One   == <<Location(a, A, <<>>)>>
Two   == <<Location(a, AB, A), Location(b, A, AB)>>
Twice == <<Location(a, A, B), Location(a, B, A)>>
Fine(key) == ForecastRow(key, "sun", TRUE)
Both  == <<Entry("sun", AB), Entry("rain", A)>>

Content(locations, long, compact, conditions, laundry, uv) ==
  [locations |-> locations, long |-> long, compact |-> compact,
   conditions |-> conditions, laundry |-> laundry, uv |-> uv]

\* Catalogs that differ in the names and forecasts, and in the dictionary.
Catalogs ==
  {Content(l, <<r, r>>, compact, Both, <<Entry(1, AB), Entry(2, A)>>, <<Entry(7, B)>>) :
     l \in {One, Two, Twice},
     r \in {ForecastRow(a, code, TRUE) : code \in {"sun", "rain", NoCode}},
     compact \in {<<>>, <<Fine(b), Fine(a)>>}} \cup
  {Content(Two, <<>>, <<ForecastRow(a, code, code # "rain")>>, conditions, <<>>,
           <<Entry(7, A)>>) :
     code \in {"sun", "rain", NoCode}, conditions \in {<<>>, <<Entry("sun", A)>>}}

Weathers ==
  {<<Fine(a), r>> : r \in {Fine(a), Fine(b), ForecastRow(a, "rain", TRUE),
                           ForecastRow(b, NoCode, TRUE), ForecastRow(b, "sun", FALSE)}}

------------------------------------------------------------------------------
(* compression, transfer, news *)

Bytes    == {0, 1}
Bodies   == {<<1>>, <<2>>, <<1, 2>>, <<2, 2>>, <<2, 2, 1>>, <<1, 1, 1>>, <<4>>}
Prefixes == {<<0>>, <<1, 0>>, <<1, 7, 0>>}

Images   == {[image |-> b]}

Text(c) == <<[char |-> c]>>
Article(time, picture, title) ==
  [id |-> a, source |-> IF title = "a" THEN 0 ELSE None, pictureTime |-> time,
   picture |-> picture, title |-> <<[char |-> title], [char |-> "z"]>>]

\* Snapshots whose topics link to articles of their own and of the other one, with
\* and without a picture, and a snapshot in another language.
Snapshots ==
  {[updated |-> updated, locale |-> "ja", sources |-> <<Text("s")>>, images |-> images,
    articles |-> articles,
    topics |-> <<[name |-> None, links |-> links], [name |-> Text("t"), links |-> <<>>]>>] :
      updated \in {1, 2}, images \in {<<>>, <<[image |-> b]>>},
      articles \in {<<>>, <<Article(0, None, "a")>>, <<Article(1, 0, "b")>>,
                    <<Article(2, 0, "a")>>},
      links \in {<<>>, <<<<1, a>>>>, <<<<2, a>>, <<1, a>>>>, <<<<2, a>>>>}} \cup
  {[updated |-> 2, locale |-> "en", sources |-> <<>>, images |-> <<>>, articles |-> <<>>,
    topics |-> <<[name |-> Text("u"), links |-> <<>>]>>]}

------------------------------------------------------------------------------

Rest(part, resting) == active # part => resting

RestingInit ==
  /\ active \in {"shop", "areas", "receipts", "weather", "forecast", "compression",
                 "transfer", "news"}
  /\ Init             /\ Rest("shop", catalog = Unnumbered(<<>>))
  /\ Areas!Init       /\ Rest("areas", towns = {})
  /\ Receipts!Init    /\ Rest("receipts", rows = <<>>)
  /\ Captures!Init    /\ Forecast!Init
  /\ Compression!Init /\ Rest("compression", format = "lz10" /\ payload = <<>>)
  /\ Transfer!Init    /\ Rest("transfer", state.word_08 = 2 /\ server.left = <<1>>
                                            /\ csdata = <<0>>)
  /\ News!Init

\* Pages read the catalog alone, so they are explored without builds; two builds meet
\* one import.
RestingNext ==
  /\ SuiteNext
  /\ builds' > 0 => named' = {}
  /\ builds' > 1 => imports' < 2

RestingSpec == RestingInit /\ [][RestingNext]_suite
===============================================================================
