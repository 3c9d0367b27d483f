------------------------------ MODULE ShopCatalog ------------------------------
(***************************************************************************)
(* The Rakuten shop of Wii no Ma: imports that refresh the catalog file    *)
(* under the directory lock and give each product a stable identity        *)
(* (jwc24/rakuten.py, jwc24/shop_catalog.py), the tool that builds the     *)
(* artwork from the catalog without a lock (tools/build_rakuten_assets.py) *)
(* and the channel's pages (jwc24/wii_no_ma.py), which read the catalog    *)
(* anew for each request and number its rows.                              *)
(***************************************************************************)
EXTENDS Naturals, Sequences, FiniteSets

CONSTANTS
  Product,      \* item codes
  Pictured,     \* the products that come with an image
  Importer, NoImporter,
  None,         \* no document, no product
  Found,        \* results of a search: sequences of different products
  Legacy,       \* catalogs of the time before identities: sequences of products
  MaxMovieId,   \* MAX_MOVIE_ID
  MaxShown,     \* rows that a page or an artwork build covers (64)
  ArtBuild,     \* processes that build the artwork
  MaxImports, MaxBuilds  \* bounds

ASSUME ImporterAssumption == NoImporter \notin Importer
ASSUME ProductAssumption  == Pictured \subseteq Product
ASSUME BoundsAssumption   ==
  MaxMovieId \in Nat /\ MaxShown \in Nat /\ MaxImports \in Nat /\ MaxBuilds \in Nat
ASSUME SearchAssumption ==
  \A s \in Found \cup Legacy : /\ s \in Seq(Product)
                               /\ \A i, j \in DOMAIN s : s[i] = s[j] => i = j

\* Rows of rakuten.json and its documents.
Row      == [item_code : Product, movie_id : Nat \cup {None}]
Document == [products : Seq(Row), registry : UNION {[S -> Nat] : S \in SUBSET Product},
             high : Nat]

\* The files of row n, in the order of writing: its checkout card and its image.
File == (1 .. MaxShown) \X {1, 2}

ASSUME NoneAssumption ==
  /\ None \notin Product \cup Nat \cup Document \cup [File -> Product \cup {None}]
  /\ None \notin File

VARIABLES
  catalog,    \* the document in rakuten.json
  lock,       \* the importer that holds the directory lock
  pc,         \* pc[p]: what importer p does next
  found,      \* found[p]: the products it has fetched
  previous,   \* previous[p]: the document it has read, or None
  imports, builds,
  plan,       \* plan[b]: the product for each file that build b has left, or None
  writing,    \* writing[b]: the file that it has opened, or None
  artwork,    \* artwork[f]: the product that file f shows, or None
  round,      \* the builds since the last moment without one: the document that all
              \* of them read, unless one tore a file, and whether one has finished
  named       \* <<n, product>>: pages have called the product by movieid n

importers == <<lock, pc, found, previous, imports>>
builder   == <<plan, writing, artwork, builds, round>>
vars      == <<catalog, importers, builder, named>>

\* The document of a catalog without "movie_id": a row counts as having its ordinal.
Unnumbered(codes) ==
  [products |-> [i \in DOMAIN codes |-> [item_code |-> codes[i], movie_id |-> None]],
   registry |-> [c \in {} |-> 0], high |-> 0]

Init ==
  /\ catalog \in {Unnumbered(codes) : codes \in Legacy \cup {<<>>}}
  /\ lock = NoImporter /\ pc = [p \in Importer |-> "idle"]
  /\ found = [p \in Importer |-> <<>>] /\ previous = [p \in Importer |-> None]
  /\ imports = 0 /\ builds = 0
  /\ plan = [b \in ArtBuild |-> None] /\ writing = [b \in ArtBuild |-> None]
  /\ artwork = [f \in File |-> None]
  /\ round = [source |-> None, done |-> FALSE] /\ named = {}

------------------------------------------------------------------------------
(* assign_identities *)

CodesOf(rows) == {rows[i].item_code : i \in DOMAIN rows}

\* The registry and the rows of the previous document, rows taking precedence.
Known(doc) ==
  LET Rows(c) == {i \in DOMAIN doc.products : doc.products[i].item_code = c}
      IdOf(i) == IF doc.products[i].movie_id = None THEN i ELSE doc.products[i].movie_id
  IN  [c \in DOMAIN doc.registry \cup CodesOf(doc.products) |->
         IF Rows(c) # {} THEN IdOf(CHOOSE i \in Rows(c) : TRUE) ELSE doc.registry[c]]

HighWater(doc) ==
  LET used == {Known(doc)[c] : c \in DOMAIN Known(doc)} \cup {doc.high, Len(doc.products)}
  IN  CHOOSE n \in used : \A m \in used : m <= n

NewRows(doc, codes) == {i \in DOMAIN codes : codes[i] \notin DOMAIN Known(doc)}

\* New products are numbered from the high-water mark on, in the order found.
Registry(doc, codes) ==
  LET IndexOf(c) == CHOOSE i \in DOMAIN codes : codes[i] = c
  IN  [c \in DOMAIN Known(doc) \cup {codes[i] : i \in DOMAIN codes} |->
         IF c \in DOMAIN Known(doc) THEN Known(doc)[c]
         ELSE HighWater(doc) + Cardinality({i \in NewRows(doc, codes) : i <= IndexOf(c)})]

Exhausted(doc, codes) == HighWater(doc) + Cardinality(NewRows(doc, codes)) > MaxMovieId

Refreshed(doc, codes) ==
  [products |-> [i \in DOMAIN codes |->
                   [item_code |-> codes[i], movie_id |-> Registry(doc, codes)[codes[i]]]],
   registry |-> Registry(doc, codes),
   high     |-> HighWater(doc) + Cardinality(NewRows(doc, codes))]

------------------------------------------------------------------------------
(* write_catalog *)

Go(p, phase) == pc' = [pc EXCEPT ![p] = phase]

\* The import ends, with or without the lock, which the system releases.
End(p) ==
  /\ Go(p, "idle")
  /\ lock' = IF lock = p THEN NoImporter ELSE lock
  /\ found' = [found EXCEPT ![p] = <<>>]
  /\ previous' = [previous EXCEPT ![p] = None]

Search(p) ==
  /\ pc[p] = "idle" /\ imports < MaxImports /\ imports' = imports + 1
  /\ \E codes \in Found : found' = [found EXCEPT ![p] = codes]
  /\ Go(p, "lock")
  /\ UNCHANGED <<catalog, lock, previous, builder, named>>

\* Mutant: the previous document is read before the lock is taken.
Lock_AfterRead(p) ==
  /\ pc[p] \in {"lock", "read"}
  /\ IF pc[p] = "lock"
       THEN previous' = [previous EXCEPT ![p] = catalog] /\ Go(p, "read") /\ UNCHANGED lock
       ELSE lock = NoImporter /\ lock' = p /\ Go(p, "replace") /\ UNCHANGED previous
  /\ UNCHANGED <<catalog, found, imports, builder, named>>

Lock(p) ==
  /\ pc[p] = "lock" /\ lock = NoImporter
  /\ lock' = p
  /\ Go(p, "read")
  /\ UNCHANGED <<catalog, found, previous, imports, builder, named>>

ReadPrevious(p) ==
  /\ pc[p] = "read"
  /\ IF Exhausted(catalog, found[p])
       THEN End(p)
       ELSE /\ previous' = [previous EXCEPT ![p] = catalog]
            /\ Go(p, "replace") /\ UNCHANGED <<lock, found>>
  /\ UNCHANGED <<catalog, imports, builder, named>>

\* The complete new document replaces the file in one step.
Replace(p) ==
  /\ pc[p] = "replace"
  /\ catalog' = Refreshed(previous[p], found[p])
  /\ Go(p, "report")
  /\ UNCHANGED <<lock, found, previous, imports, builder, named>>

Report(p) ==
  /\ pc[p] = "report"
  /\ End(p)
  /\ UNCHANGED <<catalog, imports, builder, named>>

\* A wait of thirty seconds, a failed write or replacement, a stop: the file
\* stays as it is and the system releases the lock.
Fail(p) ==
  /\ pc[p] # "idle"
  /\ End(p)
  /\ UNCHANGED <<catalog, imports, builder, named>>

------------------------------------------------------------------------------
(* build_rakuten_assets *)

\* Mutant: cards are numbered by the products that have an image.
Cards_Pictured(doc) ==
  LET rows == SelectSeq(doc.products, LAMBDA r : r.item_code \in Pictured)
  IN  [f \in File |-> IF f[1] <= Len(rows) THEN rows[f[1]].item_code ELSE None]

\* A build numbers the rows that it has read and skips those without an image.
Cards(doc) ==
  [f \in File |->
     IF f[1] <= Len(doc.products) /\ doc.products[f[1]].item_code \in Pictured
       THEN doc.products[f[1]].item_code ELSE None]

Resting == \A b \in ArtBuild : plan[b] = None

\* No lock keeps builds apart.
StartBuild(b) ==
  /\ plan[b] = None /\ builds < MaxBuilds /\ builds' = builds + 1
  /\ plan' = [plan EXCEPT ![b] = Cards(catalog)]
  /\ round' = IF Resting THEN [source |-> catalog, done |-> FALSE]
              ELSE IF round.source = catalog THEN round
              ELSE [round EXCEPT !.source = None]
  /\ UNCHANGED <<catalog, importers, writing, artwork, named>>

\* The next file of the next row is opened, which empties it.
OpenFile(b) ==
  /\ plan[b] # None /\ writing[b] = None
  /\ \E f \in File :
       /\ plan[b][f] # None
       /\ \A g \in File : plan[b][g] # None =>
            f[1] < g[1] \/ (f[1] = g[1] /\ f[2] <= g[2])
       /\ writing' = [writing EXCEPT ![b] = f]
       /\ artwork' = [artwork EXCEPT ![f] = None]
  /\ UNCHANGED <<catalog, importers, builds, plan, round, named>>

\* Over what another build has put there since, the end of that may remain.
WriteFile(b) ==
  /\ writing[b] # None
  /\ LET f == writing[b] IN
       /\ \E card \in {plan[b][f], None} :
            /\ artwork[f] \in {None, plan[b][f]} => card = plan[b][f]
            /\ artwork' = [artwork EXCEPT ![f] = card]
       /\ plan' = [plan EXCEPT ![b][f] = None]
  /\ writing' = [writing EXCEPT ![b] = None]
  /\ UNCHANGED <<catalog, importers, builds, round, named>>

FinishBuild(b) ==
  /\ plan[b] # None /\ \A f \in File : plan[b][f] = None
  /\ plan' = [plan EXCEPT ![b] = None]
  /\ round' = [round EXCEPT !.done = TRUE]
  /\ UNCHANGED <<catalog, importers, builds, writing, artwork, named>>

\* An image that cannot be fetched or written, or a stop, ends the build; a file
\* that it has opened is torn.
AbandonBuild(b) ==
  /\ plan[b] # None
  /\ plan' = [plan EXCEPT ![b] = None] /\ writing' = [writing EXCEPT ![b] = None]
  /\ round' = IF writing[b] = None THEN round ELSE [round EXCEPT !.source = None]
  /\ UNCHANGED <<catalog, importers, builds, artwork, named>>

------------------------------------------------------------------------------
(* the channel's pages *)

\* _indexed_products: movieid is the row's position in the present catalog.
PageNames == {<<n, catalog.products[n].item_code>> : n \in DOMAIN catalog.products}

\* A listing names the first rows.
List ==
  /\ catalog.products # <<>>
  /\ named' = named \cup {x \in PageNames : x[1] <= MaxShown}
  /\ UNCHANGED <<catalog, importers, builder>>

\* The page of one product, asked for by the movieid of an earlier listing.
Open ==
  /\ \E x \in named : \E y \in PageNames : x[1] = y[1] /\ named' = named \cup {y}
  /\ UNCHANGED <<catalog, importers, builder>>

Next ==
  \/ \E p \in Importer :
       Search(p) \/ Lock(p) \/ ReadPrevious(p) \/ Replace(p) \/ Report(p) \/ Fail(p)
  \/ \E b \in ArtBuild :
       StartBuild(b) \/ OpenFile(b) \/ WriteFile(b) \/ FinishBuild(b) \/ AbandonBuild(b)
  \/ List \/ Open

Spec == Init /\ [][Next]_vars

------------------------------------------------------------------------------
(* Properties. *)

\* Once a product has an identity it keeps it, listed or not, and no other product
\* ever has it, whatever imports overlap and wherever one stops: refreshes that
\* overlap retain each other's identities, and a product that comes back meets
\* nobody at its number ("never reuse their numbers").
IdentityIsForever ==
  [][LET known == Known(catalog)
         after == Known(catalog)' IN
       /\ \A c \in DOMAIN known : c \in DOMAIN after /\ after[c] = known[c]
       /\ \A c, d \in DOMAIN after : after[c] = after[d] => c = d]_vars

\* Builds may overlap.  When the last of them has ended, at least one has finished,
\* all of them had read the catalog that is served and none stopped within a file,
\* both files of each row that has an image show the product that the row's page
\* names: builds from one catalog do each other no harm.
CardsFitPages ==
  Resting /\ round.done /\ round.source = catalog =>
    \A x \in PageNames : \A k \in {1, 2} :
      x[1] <= MaxShown /\ x[2] \in Pictured => artwork[<<x[1], k>>] = x[2]

\* What catalog_publication.md says of the identifiers in the channel: "a later
\* returning product cannot collide with another entry's in-channel identifier".
InChannelIdNamesOneProduct == \A x, y \in named : x[1] = y[1] => x[2] = y[2]
==============================================================================
