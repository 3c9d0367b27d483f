---------------------------- MODULE WeatherCapture ----------------------------
(***************************************************************************)
(* The capture of one office forecast and one station's observations       *)
(* (jwc24/jma_capture.py, with the parsers of jwc24/jma_weather.py): four  *)
(* requests in a row to a provider that goes on publishing, evidence files *)
(* in a new directory, and a record that is accepted whole or not at all.  *)
(*                                                                         *)
(* A body is the set of times that it names; the station table's is {0}    *)
(* when it knows the station.                                              *)
(***************************************************************************)
EXTENDS Naturals, Sequences, FiniteSets

CONSTANTS
  WindowLength,   \* the span of one point file (three hours)
  Timeout,        \* TIMEOUT_SECONDS
  None,           \* no file
  MaxClock, MaxLead  \* bounds: time, and how far the provider's clock is ahead

Resources == <<"forecast", "latest", "stations", "point">>
Resource  == {Resources[i] : i \in DOMAIN Resources}

VARIABLES
  directory,  \* the files of the output directory, or NoDirectory
  capture,    \* what the process is doing
  clock

vars == <<directory, capture, clock>>

NoDirectory  == [made |-> FALSE]
NewDirectory == [made |-> TRUE, body |-> [r \in {} |-> {}], metadata |-> [r \in {} |-> {}],
                 pending |-> FALSE, records |-> None, manifest |-> None]
Idle == [pc |-> "idle"]

Window(t) == t \div WindowLength

Init ==
  /\ directory = NoDirectory
  /\ capture = Idle
  /\ clock = 1

------------------------------------------------------------------------------
(* The provider, an external service, answers each request on its own: its  *)
(* clock may be ahead, a point file and the latest time are two files of    *)
(* which either may be the first to have a new observation, and the station *)
(* may be missing from the table.                                           *)

Published == 0 .. clock + MaxLead
TheLatest == CHOOSE t \in directory.body["latest"] : TRUE   \* parse_latest_time

Answers(r) ==
  CASE r \in {"forecast", "latest"} -> {{t} : t \in Published}
    [] r = "stations" -> {{}, {0}}
    [] r = "point" -> SUBSET {t \in Published : Window(t) = Window(TheLatest)}  \* point_url

------------------------------------------------------------------------------
(* capture_bundle *)

Name == Resources[capture.next]

\* CapturedResource.receipt, and the parser of the resource.
InTime(m) == m.complete /\ m.ended - m.started <= Timeout

\* Mutant: observations are not held against the national latest time.
Parses_AnyObservation(r, times, ended) ==
  /\ times # {}
  /\ \A t \in times : t <= ended

Parses(r, times, ended) ==
  /\ times # {}
  /\ \A t \in times : t <= ended
  /\ r = "point" => \A t \in times : t <= TheLatest

\* mkdir, which refuses a directory that exists.
Begin ==
  /\ capture.pc = "idle" /\ ~directory.made
  /\ directory' = NewDirectory
  /\ capture' = [pc |-> "request", next |-> 1]
  /\ UNCHANGED clock

Request ==
  /\ capture.pc = "request"
  /\ capture' = [pc |-> "fetch", next |-> capture.next, started |-> clock]
  /\ UNCHANGED <<directory, clock>>

\* fetch_resource: the whole body, or what came before a failure.
Fetch ==
  /\ capture.pc = "fetch"
  /\ \E whole \in BOOLEAN, answer \in Answers(Name) :
       capture' = [pc |-> "body", next |-> capture.next,
                   body |-> IF whole THEN answer ELSE {},
                   metadata |-> [started |-> capture.started, ended |-> clock,
                                 complete |-> whole]]
  /\ UNCHANGED <<directory, clock>>

\* The two evidence files of a response, whatever its worth.
StoreBody ==
  /\ capture.pc = "body"
  /\ directory' = [directory EXCEPT !.body =
       [r \in DOMAIN directory.body \cup {Name} |->
          IF r = Name THEN capture.body ELSE directory.body[r]]]
  /\ capture' = [capture EXCEPT !.pc = "metadata"]
  /\ UNCHANGED clock

StoreMetadata ==
  LET m        == capture.metadata
      accepted == InTime(m) /\ Parses(Name, capture.body, m.ended) IN
  /\ capture.pc = "metadata"
  /\ directory' = [directory EXCEPT !.metadata =
       [r \in DOMAIN directory.metadata \cup {Name} |->
          IF r = Name THEN m ELSE directory.metadata[r]]]
  /\ capture' =
       IF ~accepted THEN [pc |-> "manifest", complete |-> FALSE]
       ELSE IF capture.next = Len(Resources) THEN [pc |-> "pending"]
       ELSE [pc |-> "request", next |-> capture.next + 1]
  /\ UNCHANGED clock

\* _publish_records: a pending file, renamed when it is whole.
WritePending ==
  /\ capture.pc = "pending"
  /\ directory' = [directory EXCEPT !.pending = TRUE]
  /\ capture' = [pc |-> "rename"]
  /\ UNCHANGED clock

Rename ==
  /\ capture.pc = "rename"
  /\ directory' = [directory EXCEPT !.pending = FALSE,
                     !.records = [r \in Resource |-> directory.body[r]]]
  /\ capture' = [pc |-> "manifest", complete |-> TRUE]
  /\ UNCHANGED clock

\* The finally clause.
WriteManifest ==
  /\ capture.pc = "manifest"
  /\ directory' = [directory EXCEPT !.manifest = capture.complete]
  /\ capture' = [pc |-> "done"]
  /\ UNCHANGED clock

\* A write or the rename fails: the pending file goes, evidence stays.
Fail ==
  /\ capture.pc \in {"body", "metadata", "pending", "rename"}
  /\ directory' = [directory EXCEPT !.pending = FALSE]
  /\ capture' = [pc |-> "manifest", complete |-> FALSE]
  /\ UNCHANGED clock

Die ==
  /\ capture.pc \notin {"idle", "done"}
  /\ capture' = [pc |-> "done"]
  /\ UNCHANGED <<directory, clock>>

\* Only a request and the end of its response look at the clock: it stands still
\* at other times.
Tick ==
  /\ capture.pc \in {"request", "fetch"} /\ clock < MaxClock /\ clock' = clock + 1
  /\ UNCHANGED <<directory, capture>>

Next ==
  \/ Tick \/ Begin \/ Request \/ Fetch \/ StoreBody \/ StoreMetadata
  \/ WritePending \/ Rename \/ WriteManifest \/ Fail \/ Die

Spec == Init /\ [][Next]_vars

------------------------------------------------------------------------------
(* Properties *)

\* An accepted record is of one moment, it exists exactly when the manifest calls
\* the capture complete, and it rests on the evidence that lies beside it: four
\* responses that came in time, none naming a time after its own retrieval, and
\* observations of the one window of the latest time that are not newer than it,
\* although the provider publishes the two separately and goes on while they are
\* fetched.  "Failed bundles retain captured originals and a failure manifest;
\* they have no source-record output" (capture_bundle).
RecordsAreOneMoment ==
  /\ directory.made /\ directory.manifest # None =>
       /\ directory.manifest <=> (directory.records # None)
       /\ ~directory.pending
  /\ directory.made /\ directory.records # None =>
       LET records == directory.records
           moment  == CHOOSE t \in records["latest"] : TRUE IN
       /\ records = directory.body /\ DOMAIN directory.metadata = Resource
       /\ \A r \in Resource : LET m == directory.metadata[r] IN
            /\ m.complete /\ m.ended - m.started <= Timeout
            /\ records[r] # {} /\ \A t \in records[r] : t <= m.ended
       /\ \A t \in records["point"] : t <= moment /\ Window(t) = Window(moment)
===============================================================================
