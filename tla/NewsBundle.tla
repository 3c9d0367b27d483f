------------------------------ MODULE NewsBundle ------------------------------
(***************************************************************************)
(* News snapshots and the bundle of slots that the News Channel reads      *)
(* (jwc24/news_records.py, news.py, news_bundle.py, and                    *)
(* tools/build_news_records.py): every build is one snapshot, encoded on   *)
(* its own; its topics and articles refer to articles and images of other  *)
(* snapshots by their timestamps, which only a check of all slots resolves.*)
(*                                                                         *)
(* A buffer is a sequence of cells: the header, an entry of a table, a     *)
(* character, the end of a text, a link or an image takes one, and an      *)
(* offset counts the cells before.  Locations and headlines, two more      *)
(* tables of texts, and the bodies beside the titles are left out.         *)
(***************************************************************************)
EXTENDS Naturals, Sequences, SequencesExt, FiniteSets, FiniteSetsExt

CONSTANTS
  Document,   \* documents that an editor supplies
  Slots,      \* SLOT_COUNT (24)
  NoIndex,    \* NONE_INDEX, and a name that is absent
  MaxBuilds   \* bound: snapshots that are built

VARIABLES
  builds,     \* the build directories: their buffers
  documents,  \* observer: what each was built from
  checked     \* the last bundle that was inspected: builds in its slots, accepted

vars == <<builds, documents, checked>>

Init ==
  /\ builds = <<>> /\ documents = <<>>
  /\ checked = [slots |-> <<>>, accepted |-> FALSE]

------------------------------------------------------------------------------
(* encode_news_records *)

End         == [end |-> TRUE]
Chars(text) == IF text \in {NoIndex, <<>>} THEN <<>> ELSE Append(text, End)

\* What is appended behind the tables, in the order of the code.
Blobs(d) ==
  [i \in DOMAIN d.sources |-> Chars(d.sources[i])]
  \o [i \in DOMAIN d.images |-> <<d.images[i]>>]
  \o [i \in DOMAIN d.articles |-> Chars(d.articles[i].title)]
  \o FlattenSeq([i \in DOMAIN d.topics |-> <<Chars(d.topics[i].name), d.topics[i].links>>])

DataAt(d) == 1 + Len(d.topics) + Len(d.articles) + Len(d.sources) + Len(d.images)
BlobAt(d, n) ==
  IF Blobs(d)[n] = <<>> THEN 0
  ELSE DataAt(d) + Len(FlattenSeq(SubSeq(Blobs(d), 1, n - 1)))
Sized(d, n, size) == [size |-> size, at |-> BlobAt(d, n)]

Encoded(d) ==
  LET sources  == Len(d.sources)
      images   == Len(d.images)
      articles == Len(d.articles)
      topics   == Len(d.topics)
      Table(count, at) == [count |-> count, at |-> at]
  IN <<[updated |-> d.updated, locale |-> d.locale,
        topics |-> Table(topics, 1), articles |-> Table(articles, 1 + topics),
        sources |-> Table(sources, 1 + topics + articles),
        images |-> Table(images, 1 + topics + articles + sources)]>>
     \o [i \in 1 .. topics |->
           LET n == sources + images + articles + 2 * i IN
           [name |-> BlobAt(d, n - 1), links |-> Sized(d, n, Len(d.topics[i].links))]]
     \o [i \in 1 .. articles |->
           [d.articles[i] EXCEPT
              !.title = Sized(d, sources + images + i, Len(d.articles[i].title))]]
     \o [i \in 1 .. sources |-> Sized(d, i, Len(d.sources[i]))]
     \o [i \in 1 .. images |-> Sized(d, sources + i, 1)]
     \o FlattenSeq(Blobs(d))

\* The refusals of the encoder itself: the first topic is the latest one.
Encodable(d) ==
  /\ d.topics # <<>>
  /\ \A i \in DOMAIN d.topics : d.topics[i].name = NoIndex => i = 1
  /\ \A i \in DOMAIN d.articles :
       d.articles[i].pictureTime = 0 => d.articles[i].picture = NoIndex

------------------------------------------------------------------------------
(* inspect_news *)

Header(cells)     == cells[1]
Entries(cells, t) == SubSeq(cells, t.at + 1, t.at + t.count)
Data(cells, t)    == SubSeq(cells, t.at + 1, t.at + t.size)

Inside(cells, t) ==
  LET h == Header(cells) IN
  /\ h.images.at + h.images.count <= t.at    \* data_range: behind the tables
  /\ t.at + t.size <= Len(cells)
SoundText(cells, t) ==
  IF t.size = 0 THEN t.at = 0
  ELSE Inside(cells, [t EXCEPT !.size = t.size + 1]) /\ cells[t.at + t.size + 1] = End

Topics(cells)   == Entries(cells, Header(cells).topics)
Articles(cells) == Entries(cells, Header(cells).articles)
LinksOf(cells)  == FlattenSeq([i \in DOMAIN Topics(cells) |-> Data(cells, Topics(cells)[i].links)])
Ids(cells)      == {Articles(cells)[i].id : i \in DOMAIN Articles(cells)}

Inspected(cells) ==
  LET h == Header(cells) articles == Articles(cells) topics == Topics(cells) IN
  /\ \A i \in 1 .. h.sources.count : SoundText(cells, Entries(cells, h.sources)[i])
  /\ \A i \in 1 .. h.images.count : Inside(cells, Entries(cells, h.images)[i])
  /\ Cardinality(Ids(cells)) = Len(articles)
  /\ \A i \in DOMAIN articles : LET article == articles[i] IN
       /\ SoundText(cells, article.title)
       /\ article.source # NoIndex => article.source < h.sources.count
       /\ article.pictureTime = h.updated /\ article.picture # NoIndex =>
            article.picture < h.images.count
  /\ \A i \in DOMAIN topics : topics[i].links.size > 0 => Inside(cells, topics[i].links)
  /\ \A link \in Range(LinksOf(cells)) : link[1] = h.updated => link[2] \in Ids(cells)

------------------------------------------------------------------------------
(* inspect_news_bundle *)

\* Mutant: the last of two snapshots with one timestamp stands for both.
Undisputed_LastWins(buffers) == buffers # <<>>

\* Repeats of one snapshot are allowed.
Undisputed(buffers) ==
  \A b, c \in Range(buffers) : Header(b).updated = Header(c).updated => b = c

\* The dictionary of the snapshots: the last slot of a timestamp.
Snapshots(buffers) ==
  {buffers[i] : i \in {j \in DOMAIN buffers : \A k \in j + 1 .. Len(buffers) :
                         Header(buffers[k]).updated # Header(buffers[j]).updated}}

Resolved(b, snapshots) ==
  /\ \A link \in Range(LinksOf(b)) :
       \E c \in snapshots : Header(c).updated = link[1] /\ link[2] \in Ids(c)
  /\ \A a \in Range(Articles(b)) : a.pictureTime # 0 /\ a.picture # NoIndex =>
       \E c \in snapshots :
         Header(c).updated = a.pictureTime /\ a.picture < Header(c).images.count

BundleInspected(buffers) ==
  /\ \A b \in Range(buffers) : Inspected(b)
  /\ Undisputed(buffers)
  /\ Cardinality({Header(b).locale : b \in Range(buffers)}) = 1
  /\ \A b \in Snapshots(buffers) : Resolved(b, Snapshots(buffers))

------------------------------------------------------------------------------

\* write_record_build: a new directory, if the inspector accepts what was encoded.
Build(d) ==
  /\ Len(builds) < MaxBuilds
  /\ Encodable(d) /\ Inspected(Encoded(d))
  /\ builds' = Append(builds, Encoded(d))
  /\ documents' = Append(documents, d)
  /\ UNCHANGED checked

\* The slots that a publication's configuration names.
InspectBundle ==
  /\ builds # <<>>
  /\ \E slots \in [1 .. Slots -> DOMAIN builds] :
       checked' = [slots |-> slots,
                   accepted |-> BundleInspected([i \in 1 .. Slots |-> builds[slots[i]]])]
  /\ UNCHANGED <<builds, documents>>

Next == (\E d \in Document : Build(d)) \/ InspectBundle

Spec == Init /\ [][Next]_vars

------------------------------------------------------------------------------
(* Properties *)

TitleIn(cells, id) ==
  LET article == CHOOSE x \in Range(Articles(cells)) : x.id = id IN Data(cells, article.title)
ImageIn(cells, index) ==
  Data(cells, Entries(cells, Header(cells).images)[index + 1])

\* In an accepted bundle every reference that an editor wrote finds its target,
\* in whichever slot of that timestamp the console looks: the article has the
\* title, and the picture the bytes, that the target's own editor gave, although
\* every snapshot was encoded alone and names others by a time and a number
\* (inspect_news_bundle: "Missing references fail", conflicting ones "are
\* ambiguous and rejected").
AcceptedBundleResolves ==
  checked.accepted =>
    LET Used == Range(checked.slots)
        At(time) == {b \in Used : documents[b].updated = time}
        Written(b, id) == {a \in Range(documents[b].articles) : a.id = id} IN
    \A b \in Used :
      /\ \A topic \in Range(documents[b].topics) : \A link \in Range(topic.links) :
           /\ At(link[1]) # {}
           /\ \A c \in At(link[1]) :
                /\ Written(c, link[2]) # {}
                /\ {a.title : a \in Written(c, link[2])} = {TitleIn(builds[c], link[2])}
      /\ \A a \in Range(documents[b].articles) :
           a.pictureTime # 0 /\ a.picture # NoIndex =>
             /\ At(a.pictureTime) # {}
             /\ \A c \in At(a.pictureTime) :
                  /\ a.picture < Len(documents[c].images)
                  /\ ImageIn(builds[c], a.picture) = <<documents[c].images[a.picture + 1]>>
===============================================================================
