---------------------------- MODULE ForecastBundle ----------------------------
(***************************************************************************)
(* The two native files of the Forecast Channel (jwc24/forecast.py and     *)
(* forecast_bundle.py): tools build forecast.bin and short.bin at their    *)
(* own times, sign them, and check the pair before it is published.        *)
(*                                                                         *)
(* A file is a sequence of cells.  A header, a location, a forecast or a   *)
(* dictionary entry takes one cell, a text one for each character and one  *)
(* for its end; an offset counts the cells that come before.  A measure is *)
(* "sound" when its wind direction and precipitations are native values.   *)
(***************************************************************************)
EXTENDS Naturals, Sequences, SequencesExt, FiniteSetsExt

CONSTANTS
  Catalog,   \* inputs of the builder of forecast.bin
  Weather,   \* inputs of the builder of short.bin: sequences of rows
  Key,       \* RSA key pairs
  FullValidity, ShortValidity,  \* validity_minutes of the two builders
  MaxClock,  \* bound on the time
  Missing,   \* condition code 0xFFFF
  None       \* no file, no key, no text

VARIABLES
  clock,
  files,    \* files[f]: the cells of forecast.bin or short.bin, and their signer
  inputs,   \* observer: what each file was built from, and when
  verdict   \* the last check of the pair

vars  == <<clock, files, inputs, verdict>>
Names == {"forecast", "short"}

NoFile     == [cells |-> <<>>, signer |-> None]
NoVerdict  == [accepted |-> FALSE, key |-> None, current |-> FALSE, minute |-> 0]

Init ==
  /\ clock = 0
  /\ files = [f \in Names |-> NoFile]
  /\ inputs = [f \in Names |-> None]
  /\ verdict = NoVerdict

------------------------------------------------------------------------------
(* build_location_forecast_payload *)

End     == [end |-> TRUE]
Chars(t) == Append(t, End)

Of(s, field)        == {s[i][field] : i \in DOMAIN s}
Keys(s)             == Of(s, "key")
UniqueKeys(s)       == Cardinality(Keys(s)) = Len(s)

\* add_text: a name is stored once, at the place of its first use.
Pool(locations) ==
  FoldLeft(LAMBDA pool, l :
             FoldLeft(LAMBDA p, name : IF name = <<>> \/ Contains(p, name) THEN p
                                       ELSE Append(p, name),
                      pool, <<l.city, l.region>>),
           <<>>, locations)

Stored(texts)       == FlattenSeq([i \in DOMAIN texts |-> Chars(texts[i])])
PlaceOf(texts, i)   == Len(Stored(SubSeq(texts, 1, i - 1)))
NameAt(pool, start, name) ==
  IF name = <<>> THEN 0
  ELSE start + PlaceOf(pool, CHOOSE i \in DOMAIN pool : pool[i] = name)

LocationRows(locations) ==
  LET pool == Pool(locations) start == 1 + Len(locations) IN
  [i \in DOMAIN locations |->
     [key |-> locations[i].key, city |-> NameAt(pool, start, locations[i].city),
      region |-> NameAt(pool, start, locations[i].region)]]

\* Mutant: the texts are placed as if the table took no room.
TextSection_NoTable(entries, start) ==
  LET texts == [i \in DOMAIN entries |-> entries[i].text] IN
  [i \in DOMAIN entries |->
     [code |-> entries[i].code, text |-> start + PlaceOf(texts, i)]] \o Stored(texts)

\* text_section: a table, and behind it a text for each of its entries.
TextSection(entries, start) ==
  LET texts == [i \in DOMAIN entries |-> entries[i].text] IN
  [i \in DOMAIN entries |->
     [code |-> entries[i].code, text |-> start + Len(entries) + PlaceOf(texts, i)]]
  \o Stored(texts)

Table(entries, start) ==
  [count |-> Len(entries), offset |-> IF entries = <<>> THEN 0 ELSE start]

FullFile(c, opened) ==
  LET rows        == LocationRows(c.locations)
      text        == Stored(Pool(c.locations))
      longAt      == 1 + Len(rows) + Len(text)
      shortAt     == longAt + Len(c.long)
      laundryAt   == shortAt + Len(c.compact)
      laundry     == TextSection(c.laundry, laundryAt)
      conditionAt == laundryAt + Len(laundry)
      condition   == TextSection(c.conditions, conditionAt)
      uvAt        == conditionAt + Len(condition)
      header      == [opened |-> opened, closed |-> opened + FullValidity,
                      long |-> Table(c.long, longAt), compact |-> Table(c.compact, shortAt),
                      conditions |-> Table(c.conditions, conditionAt),
                      uv |-> Table(c.uv, uvAt), laundry |-> Table(c.laundry, laundryAt),
                      locations |-> Table(rows, 1)]
  IN <<header>> \o rows \o text \o c.long \o c.compact
     \o laundry \o condition \o TextSection(c.uv, uvAt)

Sound(rows) == \A i \in DOMAIN rows : rows[i].sound

\* The refusals of the builder.  It does not hold codes against the dictionary.
Buildable(c) ==
  /\ c.locations # <<>> /\ UniqueKeys(c.locations) /\ <<>> \notin Of(c.locations, "city")
  /\ Keys(c.long) \cup Keys(c.compact) \subseteq Keys(c.locations)
  /\ UniqueKeys(c.compact)
  /\ Sound(c.long) /\ Sound(c.compact)
  /\ <<>> \notin Of(c.conditions, "text") \cup Of(c.laundry, "text") \cup Of(c.uv, "text")

\* build_short_payload
ShortFile(rows, opened) ==
  <<[opened |-> opened, closed |-> opened + ShortValidity,
     current |-> [count |-> Len(rows), offset |-> 1]]>> \o rows

------------------------------------------------------------------------------
(* validate_forecast and validate_short *)

Header(file)     == file[1]
Entries(file, t) == SubSeq(file, t.offset + 1, t.offset + t.count)

\* _read_utf16be
TextAt(file, offset) ==
  LET ends == {e \in offset + 1 .. Len(file) : file[e] = End} IN
  IF offset < 1 \/ ends = {} THEN None ELSE SubSeq(file, offset + 1, Min(ends) - 1)
OptionalTextAt(file, offset) == IF offset = 0 THEN <<>> ELSE TextAt(file, offset)

Read(file, t) ==
  [i \in 1 .. t.count |-> LET e == Entries(file, t)[i] IN
     [code |-> e.code, text |-> TextAt(file, e.text)]]

ReadLocations(file) ==
  LET rows == Entries(file, Header(file).locations) IN
  [i \in DOMAIN rows |->
     [key |-> rows[i].key, city |-> TextAt(file, rows[i].city),
      region |-> OptionalTextAt(file, rows[i].region)]]

Inside(file, t) == t.count = 0 \/ (1 <= t.offset /\ t.offset + t.count <= Len(file))

\* The codes of the dictionary of condition texts.
Dictionary(file) == Of(Entries(file, Header(file).conditions), "code")

ValidFull(file) ==
  LET h         == Header(file)
      long      == Entries(file, h.long)
      compact   == Entries(file, h.compact)
      locations == ReadLocations(file)
  IN
  /\ h.opened <= h.closed
  /\ \A t \in {h.long, h.compact, h.conditions, h.uv, h.laundry, h.locations} : Inside(file, t)
  /\ Of(long, "code") \cup Of(compact, "code") \subseteq Dictionary(file) \cup {Missing}
  /\ UniqueKeys(compact) /\ UniqueKeys(locations)
  /\ Sound(long) /\ Sound(compact)
  /\ None \notin Of(locations, "city") \cup Of(locations, "region")
  /\ Keys(long) \cup Keys(compact) \subseteq Keys(locations)
  /\ \A t \in {h.conditions, h.uv, h.laundry} : None \notin Of(Read(file, t), "text")

Current(file) == Entries(file, Header(file).current)
ValidShort(file) ==
  LET h == Header(file) IN
  /\ h.opened <= h.closed
  /\ h.current.offset = 1 /\ 1 + h.current.count = Len(file)
  /\ Sound(Current(file))

------------------------------------------------------------------------------
(* validate_forecast_bundle *)

Covers(file, minute) == Header(file).opened <= minute /\ minute < Header(file).closed

\* Mutant: a row is held against the catalog only where its location is new.
RowsJoin_FirstOnly(full, short) ==
  LET rows == Current(short) IN
  \A i \in DOMAIN rows : (\A j \in 1 .. i - 1 : rows[j].key # rows[i].key) =>
    /\ rows[i].key \in Keys(ReadLocations(full))
    /\ rows[i].code \in Dictionary(full) \cup {Missing}

\* A repeated row must be identical; each finds its location and its condition.
RowsJoin(full, short) ==
  LET rows == Current(short) IN
  /\ \A i, j \in DOMAIN rows : rows[i].key = rows[j].key => rows[i] = rows[j]
  /\ Keys(rows) \subseteq Keys(ReadLocations(full))
  /\ Of(rows, "code") \subseteq Dictionary(full) \cup {Missing}

\* key and current are the options --public-key and --require-current.
Accepts(full, short, key, current, minute) ==
  /\ full.signer # None /\ short.signer # None
  /\ key # None => full.signer = key /\ short.signer = key
  /\ ValidFull(full.cells) /\ ValidShort(short.cells)
  /\ LET f == Header(full.cells) s == Header(short.cells) IN
     f.opened < s.closed /\ s.opened < f.closed
  /\ current => Covers(full.cells, minute) /\ Covers(short.cells, minute)
  /\ RowsJoin(full.cells, short.cells)

------------------------------------------------------------------------------
(* The tools, run in any order the operator likes.  None overwrites a file. *)

Built(f, input, cells) ==
  /\ files' = [files EXCEPT ![f].cells = cells]
  /\ inputs' = [inputs EXCEPT ![f] = [content |-> input, opened |-> clock]]
  /\ UNCHANGED <<clock, verdict>>

BuildFull ==
  /\ files["forecast"] = NoFile
  /\ \E c \in Catalog : Buildable(c) /\ Built("forecast", c, FullFile(c, clock))

BuildShort ==
  /\ files["short"] = NoFile
  /\ \E rows \in Weather : Sound(rows) /\ Built("short", rows, ShortFile(rows, clock))

Sign(f) ==
  /\ files[f] # NoFile /\ files[f].signer = None
  /\ \E k \in Key : files' = [files EXCEPT ![f].signer = k]
  /\ UNCHANGED <<clock, inputs, verdict>>

Check ==
  /\ NoFile \notin {files[f] : f \in Names}
  /\ \E key \in Key \cup {None}, current \in BOOLEAN :
       verdict' = [accepted |-> Accepts(files["forecast"], files["short"], key, current, clock),
                   key |-> key, current |-> current, minute |-> clock]
  /\ UNCHANGED <<clock, files, inputs>>

Tick ==
  /\ clock < MaxClock /\ clock' = clock + 1
  /\ UNCHANGED <<files, inputs, verdict>>

Next == BuildFull \/ BuildShort \/ (\E f \in Names : Sign(f)) \/ Check \/ Tick

Spec == Init /\ [][Next]_vars

------------------------------------------------------------------------------
(* Properties *)

\* What the builder lays out by offsets, shared names and six tables is what
\* the reader finds there, text for text; and a file that was built is valid if
\* and only if every code of its forecasts has a condition text, which the
\* builder leaves to the validator (forecast.py).
FileReadsBack ==
  files["forecast"] # NoFile =>
    LET c     == inputs["forecast"].content
        cells == files["forecast"].cells
        h     == Header(cells)
        known == Of(c.conditions, "code") \cup {Missing} IN
    /\ c = [locations |-> ReadLocations(cells), long |-> Entries(cells, h.long),
            compact |-> Entries(cells, h.compact), conditions |-> Read(cells, h.conditions),
            laundry |-> Read(cells, h.laundry), uv |-> Read(cells, h.uv)]
    /\ ValidFull(cells) <=> Of(c.long, "code") \cup Of(c.compact, "code") \subseteq known

\* A pair that was accepted shows weather wherever it has some: the builders'
\* inputs, which no tool compared, name one weather for each location, a location
\* of the catalog, and a condition that has a text; a pair accepted as current
\* was built when both files are still open, and one accepted for a key was
\* signed with it twice ("Conflicting current keys, missing locations/condition
\* dictionary entries ... fail local policy", forecast_bundle.py).
AcceptedPairIsUsable ==
  verdict.accepted =>
    LET full == inputs["forecast"] short == inputs["short"] m == verdict.minute IN
    /\ \A i \in DOMAIN short.content : LET row == short.content[i] IN
         /\ \E l \in Range(full.content.locations) : l.key = row.key /\ l.city # <<>>
         /\ {r \in Range(short.content) : r.key = row.key} = {row}
         /\ row.code = Missing \/ \E t \in Range(full.content.conditions) :
              t.code = row.code /\ t.text # <<>>
    /\ verdict.current => /\ m \in full.opened .. full.opened + FullValidity - 1
                          /\ m \in short.opened .. short.opened + ShortValidity - 1
    /\ verdict.key # None => \A f \in Names : files[f].signer = verdict.key
===============================================================================
