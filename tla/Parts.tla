-------------------------------- MODULE Parts --------------------------------
(***************************************************************************)
(* The parts that share no state: the shop's catalog, the area registry,   *)
(* the interaction receipts, the weather capture, the forecast files, the  *)
(* compression, the Nintendo Channel transfer and the News bundle.  A      *)
(* behaviour is one of a single part, the others resting.                  *)
(***************************************************************************)
EXTENDS ShopCatalog

------------------------------------------------------------------------------
(* areas, receipts *)

CONSTANTS Town, Builder, NoBuilder, MaxCode, MaxRuns,
          Form, Malformed, Earlier, Handler, MaxSubmits

VARIABLES
  active,
  registry, towns, areaLock, areaPc, requested, areaPrevious, runs, saved, overlapped,
  rows, version, handling, submits, committed, told

areas    == <<registry, towns, areaLock, areaPc, requested, areaPrevious, runs, saved,
              overlapped>>
receipts == <<rows, version, handling, submits, committed, told>>

Areas == INSTANCE AreaRegistry WITH
  lock <- areaLock, pc <- areaPc, previous <- areaPrevious

Receipts == INSTANCE InteractionStore

\* Earlier files are of forms, or of what cannot be read.
ASSUME FormAssumption == Earlier \subseteq Seq(Form \cup {Malformed})

------------------------------------------------------------------------------
(* weather, forecast *)

CONSTANTS WindowLength, CaptureTimeout, MaxCaptureClock, MaxLead,
          Catalog, Weather, Key, FullValidity, ShortValidity, MaxClock, Missing,
          Place, Code, Character

VARIABLES directory, capture, weatherClock, clock, files, inputs, verdict

weather  == <<directory, capture, weatherClock>>
forecast == <<clock, files, inputs, verdict>>

Captures == INSTANCE WeatherCapture WITH
  clock <- weatherClock, Timeout <- CaptureTimeout, MaxClock <- MaxCaptureClock

\* None is no record.
ASSUME CaptureAssumption ==
  MaxLead \in Nat /\ None \notin [Captures!Resource -> SUBSET Nat]

Forecast == INSTANCE ForecastBundle

\* Rows and texts: an entry of the dictionary of conditions has a forecast's code, and
\* no character ends a text.
ForecastRows  == Seq([key : Place, code : Code, sound : BOOLEAN])
TextEntries(code) == Seq([code : code, text : Seq(Character)])

ASSUME CatalogAssumption ==
  /\ Catalog \subseteq
       [locations : Seq([key : Place, city : Seq(Character), region : Seq(Character)]),
        long : ForecastRows, compact : ForecastRows,
        conditions : TextEntries(Code), laundry : TextEntries(Nat),
        uv : TextEntries(Nat)]
  /\ Forecast!End \notin Character /\ None \notin Seq(Character)
  /\ Weather \subseteq ForecastRows /\ FullValidity \in Nat /\ ShortValidity \in Nat

------------------------------------------------------------------------------
(* compression, transfer, news *)

CONSTANTS Byte, MaxLength, Reach, Markers, LongCodes, GroupSize,
          Capacity, Body, Prefix, Language, Languages,
          NewsDocument, Slots, MaxSnapshots, Image, ArticleId

VARIABLES
  format, payload, positions, cursor, output, group, decoded, decoderAt, phase,
  state, poll, server, csdata, handed,
  snapshots, documents, checked

compression == <<format, payload, positions, cursor, output, group, decoded, decoderAt,
                 phase>>
transfer    == <<state, poll, server, csdata, handed>>
news        == <<snapshots, documents, checked>>

Compression == INSTANCE NintendoLz WITH source <- decoderAt, Window <- Reach

\* The formats have 4096 distances, 16 markers and 256 codes of longer lengths.
ASSUME CompressionAssumption ==
  /\ MaxLength \in Nat /\ Reach \in Nat \ {0}
  /\ Markers \in Nat \ {0, 1} /\ LongCodes \in Nat \ {0}

Transfer == INSTANCE NintendoTransfer

\* Bodies are sequences of sizes.
ASSUME TransferAssumption == Capacity \in Nat /\ Body \subseteq Seq(Nat)

News == INSTANCE NewsBundle WITH
  builds <- snapshots, Document <- NewsDocument, NoIndex <- None, MaxBuilds <- MaxSnapshots

\* A link is the timestamp and the identity of an article.
NewsArticles ==
  [id : ArticleId, source : Nat \cup {None}, pictureTime : Nat, picture : Nat \cup {None},
   title : Seq(Character)]
NewsTopics == [name : Seq(Character) \cup {None}, links : Seq(Nat \X ArticleId)]

ASSUME NewsAssumption ==
  /\ Slots \in Nat
  /\ \A d \in NewsDocument :
       /\ d.updated \in Nat /\ d.sources \in Seq(Seq(Character)) /\ d.images \in Seq(Image)
       /\ d.articles \in Seq(NewsArticles) /\ d.topics \in Seq(NewsTopics)

------------------------------------------------------------------------------

SuiteInit ==
  /\ active \in {"shop", "areas", "receipts", "weather", "forecast", "compression",
                 "transfer", "news"}
  /\ Init /\ Areas!Init /\ Receipts!Init /\ Captures!Init /\ Forecast!Init
  /\ Compression!Init /\ Transfer!Init /\ News!Init

SuiteNext ==
  /\ UNCHANGED active
  /\ \/ active = "shop" /\ Next
        /\ UNCHANGED <<areas, receipts, weather, forecast, compression, transfer, news>>
     \/ active = "areas" /\ Areas!Next
        /\ UNCHANGED <<vars, receipts, weather, forecast, compression, transfer, news>>
     \/ active = "receipts" /\ Receipts!Next
        /\ UNCHANGED <<vars, areas, weather, forecast, compression, transfer, news>>
     \/ active = "weather" /\ Captures!Next
        /\ UNCHANGED <<vars, areas, receipts, forecast, compression, transfer, news>>
     \/ active = "forecast" /\ Forecast!Next
        /\ UNCHANGED <<vars, areas, receipts, weather, compression, transfer, news>>
     \/ active = "compression" /\ Compression!Next
        /\ UNCHANGED <<vars, areas, receipts, weather, forecast, transfer, news>>
     \/ active = "transfer" /\ Transfer!Next
        /\ UNCHANGED <<vars, areas, receipts, weather, forecast, compression, news>>
     \/ active = "news" /\ News!Next
        /\ UNCHANGED <<vars, areas, receipts, weather, forecast, compression, transfer>>

suite == <<active, vars, areas, receipts, weather, forecast, compression, transfer, news>>

SuiteSpec == SuiteInit /\ [][SuiteNext]_suite

\* Each is the property of that name in the module of the part: a saved area code
\* resolves to its town unless runs overlapped (AreaRegistry).
LossNeedsOverlap == active = "areas" => Areas!LossNeedsOverlap

\* An acknowledged form keeps its receipt (InteractionStore).
FirstReceiptAnswers == active = "receipts" => Receipts!FirstReceiptAnswers

\* An accepted weather record is of one moment (WeatherCapture).
RecordsAreOneMoment == active = "weather" => Captures!RecordsAreOneMoment

\* The channel reads from a forecast file what it was built from (ForecastBundle).
FileReadsBack == active = "forecast" => Forecast!FileReadsBack

\* A pair that the check accepts can be served (ForecastBundle).
AcceptedPairIsUsable == active = "forecast" => Forecast!AcceptedPairIsUsable

\* What is encoded decodes to what it was (NintendoLz).
EncodedReadsBack == active = "compression" => Compression!EncodedReadsBack

\* The list decoder is handed one whole body (NintendoTransfer).
HandoffIsWhole == active = "transfer" => Transfer!HandoffIsWhole

\* An accepted News bundle resolves every reference (NewsBundle).
AcceptedBundleResolves == active = "news" => News!AcceptedBundleResolves
===============================================================================
