----------------------------- MODULE PartsProofs -----------------------------
(***************************************************************************)
(* Theorems about the parts that share no state: the identities and the    *)
(* artwork of the shop (ShopCatalog), the area codes (AreaRegistry), the   *)
(* weather capture (WeatherCapture), the receipts of Wii no Ma             *)
(* (InteractionStore), the lists of the Nintendo Channel                   *)
(* (NintendoTransfer), the files of the Forecast Channel (ForecastBundle), *)
(* the compression of payloads (NintendoLz) and the bundles of the News    *)
(* Channel (NewsBundle), for any values of their parameters.               *)
(***************************************************************************)
EXTENDS Parts, FiniteSetsExt, FiniteSetTheorems, SequenceTheorems,
        WellFoundedInduction, TLAPS

------------------------------------------------------------------------------

\* The parts start together, and a step of the suite is one of the active part.
LEMMA PartSteps ==
  /\ SuiteInit => /\ Areas!Init /\ Receipts!Init /\ Captures!Init /\ Transfer!Init
                  /\ Forecast!Init
  /\ [SuiteNext]_suite =>
       /\ active' = active
       /\ active = "areas"    => [Areas!Next]_(Areas!vars)
       /\ active = "receipts" => [Receipts!Next]_(Receipts!vars)
       /\ active = "weather"  => [Captures!Next]_(Captures!vars)
       /\ active = "transfer" => [Transfer!Next]_(Transfer!vars)
       /\ active = "forecast" => [Forecast!Next]_(Forecast!vars)
  BY DEF SuiteInit, SuiteNext, suite, areas, receipts, weather, transfer, forecast,
     Areas!vars, Areas!builders, Areas!history, Receipts!vars, Captures!vars,
     Transfer!vars, Forecast!vars

------------------------------------------------------------------------------
(* numbers and finite sets *)

\* Every set of natural numbers has a least one.
LEMMA LeastNatural ==
  ASSUME NEW S \in SUBSET Nat, S # {}
  PROVE  \E m \in S : \A n \in S : m <= n
  <1>1. PICK m \in S : \A n \in S : ~ (<<n, m>> \in OpToRel(<, Nat))
    BY NatLessThanWellFounded, WFMin
  <1>2. \A n \in S : ~ (n < m)
    BY <1>1 DEF OpToRel
  <1> QED BY <1>2

\* A finite set of natural numbers has a greatest one: a smallest set without one
\* would have one after an element is taken away.
LEMMA GreatestNatural ==
  ASSUME NEW S \in SUBSET Nat, IsFiniteSet(S), S # {}
  PROVE  \E m \in S : \A n \in S : n <= m
  <1> DEFINE Has(T) == \E m \in T : \A n \in T : n <= m
             Bad    == {T \in SUBSET S : T # {} /\ ~ Has(T)}
             Sizes  == {Cardinality(T) : T \in Bad}
  <1>1. SUFFICES ASSUME Bad # {} PROVE FALSE
    OBVIOUS
  <1>2. \A T \in SUBSET S : IsFiniteSet(T) /\ Cardinality(T) \in Nat
    BY FS_Subset, FS_CardinalityType
  <1>3. Sizes \in SUBSET Nat /\ Sizes # {}
    BY <1>1, <1>2
  <1>4. PICK k \in Sizes : \A n \in Sizes : k <= n
    <2> HIDE DEF Sizes
    <2> QED BY <1>3, LeastNatural
  <1>5. PICK T \in Bad : k = Cardinality(T)
    BY <1>4
  <1>6. PICK x \in T : TRUE
    BY <1>5
  <1> DEFINE U == T \ {x}
  <1>7. U \in SUBSET S /\ Cardinality(U) = Cardinality(T) - 1
    BY <1>2, <1>5, <1>6, FS_RemoveElement
  <1>8. U \notin Bad
    <2>1. SUFFICES ASSUME U \in Bad PROVE FALSE
      OBVIOUS
    <2>2. Cardinality(U) \in Sizes
      BY <2>1
    <2>3. k <= Cardinality(U)
      BY <2>2, <1>4
    <2>4. Cardinality(T) \in Nat
      BY <1>2, <1>5
    <2> QED BY <2>3, <2>4, <1>5, <1>7
  <1>9. CASE U = {}
    <2>1. T = {x} /\ x \in Nat
      BY <1>5, <1>6, <1>9
    <2>2. Has(T)
      BY <2>1
    <2> QED BY <2>2, <1>5
  <1>10. CASE U # {}
    <2>1. PICK m \in U : \A n \in U : n <= m
      BY <1>7, <1>8, <1>10
    <2>2. m \in Nat /\ x \in Nat /\ m \in T
      BY <2>1, <1>5, <1>6
    <2>3. CASE x <= m
      <3>1. \A n \in T : n <= m
        BY <2>1, <2>3
      <3>2. Has(T)
        BY <3>1, <2>2
      <3> QED BY <3>2, <1>5
    <2>4. CASE m < x
      <3>1. \A n \in T : n <= x
        <4> TAKE n \in T
        <4>1. n \in Nat
          BY <1>5
        <4> QED BY <2>1, <2>2, <2>4, <4>1
      <3>2. Has(T)
        BY <3>1, <1>6
      <3> QED BY <3>2, <1>5
    <2> QED BY <2>2, <2>3, <2>4
  <1> QED BY <1>9, <1>10

\* A function has finitely many values if its domain is finite.
LEMMA FiniteImage ==
  ASSUME NEW D, IsFiniteSet(D), NEW R, NEW f \in [D -> R]
  PROVE  IsFiniteSet({f[x] : x \in D})
  <1> DEFINE T == {f[x] : x \in D}
  <1>1. f \in Surjection(D, T)
    BY DEF Surjection
  <1> QED BY <1>1, FS_Surjection

\* Functions with the same values are the same.
LEMMA SameValues ==
  ASSUME NEW D, NEW R, NEW f \in [D -> R], NEW g \in [D -> R], \A x \in D : f[x] = g[x]
  PROVE  f = g
  OBVIOUS

------------------------------------------------------------------------------
(* identities of the shop *)

Item(codes) == {codes[i] : i \in DOMAIN codes}

\* What an import has found: different products.
FoundOK(codes) ==
  codes \in Seq(Product) /\ \A i, j \in DOMAIN codes : codes[i] = codes[j] => i = j

\* A document of the time before identities, or one that assign_identities has
\* written: its rows differ and agree with the registry, where no two products
\* have one number.
Distinct(listed) == \A i, j \in DOMAIN listed : listed[i].item_code = listed[j].item_code => i = j

Numbered(doc) ==
  /\ \A i \in DOMAIN doc.products : LET row == doc.products[i] IN
       row.item_code \in DOMAIN doc.registry /\ row.movie_id = doc.registry[row.item_code]
  /\ \A c, d \in DOMAIN doc.registry : doc.registry[c] = doc.registry[d] => c = d

Sound(doc) ==
  /\ doc \in Document /\ IsFiniteSet(DOMAIN doc.registry)
  /\ Distinct(doc.products)
  /\ \/ /\ DOMAIN doc.registry = {}
        /\ \A i \in DOMAIN doc.products : doc.products[i].movie_id = None
     \/ Numbered(doc)

\* The parts of a document.
LEMMA DocumentFacts ==
  ASSUME NEW doc \in Document
  PROVE  /\ doc.products \in Seq(Row) /\ doc.high \in Nat
         /\ Len(doc.products) \in Nat /\ DOMAIN doc.products = 1 .. Len(doc.products)
         /\ \A i \in DOMAIN doc.products : /\ doc.products[i].item_code \in Product
                                           /\ doc.products[i].movie_id \in Nat \cup {None}
         /\ DOMAIN doc.registry \subseteq Product
         /\ doc.registry \in [DOMAIN doc.registry -> Nat]
  <1>1. doc.products \in Seq(Row) /\ doc.high \in Nat
    BY DEF Document
  <1>2. PICK S \in SUBSET Product : doc.registry \in [S -> Nat]
    BY DEF Document
  <1>3. \A i \in DOMAIN doc.products : doc.products[i] \in Row
    BY <1>1
  <1> QED BY <1>1, <1>2, <1>3 DEF Row

\* The identities that a sound document gives: finitely many, no two alike.
LEMMA KnownFacts ==
  ASSUME NEW doc, Sound(doc)
  PROVE  /\ DOMAIN Known(doc) \subseteq Product /\ IsFiniteSet(DOMAIN Known(doc))
         /\ Known(doc) \in [DOMAIN Known(doc) -> Nat]
         /\ \A c, d \in DOMAIN Known(doc) : Known(doc)[c] = Known(doc)[d] => c = d
         /\ Numbered(doc) => Known(doc) = doc.registry
  <1> DEFINE listed    == doc.products
             Rows(c) == {i \in DOMAIN listed : listed[i].item_code = c}
             IdOf(i) == IF listed[i].movie_id = None THEN i ELSE listed[i].movie_id
             Names   == CodesOf(listed)
             D       == DOMAIN doc.registry \cup Names
             K       == [c \in D |-> IF Rows(c) # {} THEN IdOf(CHOOSE i \in Rows(c) : TRUE)
                                     ELSE doc.registry[c]]
  <1>1. Known(doc) = K
    BY DEF Known
  <1>2. doc \in Document /\ IsFiniteSet(DOMAIN doc.registry) /\ Distinct(listed)
    BY DEF Sound
  <1>3. /\ Len(listed) \in Nat /\ DOMAIN listed = 1 .. Len(listed)
        /\ \A i \in DOMAIN listed : /\ listed[i].item_code \in Product
                                  /\ listed[i].movie_id \in Nat \cup {None}
        /\ DOMAIN doc.registry \subseteq Product
        /\ doc.registry \in [DOMAIN doc.registry -> Nat]
    BY <1>2, DocumentFacts
  <1>4. Names \subseteq Product
    BY <1>3 DEF CodesOf
  <1>5. IsFiniteSet(Names)
    <2> DEFINE f == [i \in 1 .. Len(listed) |-> listed[i].item_code]
    <2>1. f \in [1 .. Len(listed) -> Product]
      BY <1>3
    <2>2. IsFiniteSet(1 .. Len(listed))
      BY <1>3, FS_Interval
    <2>3. IsFiniteSet({f[i] : i \in 1 .. Len(listed)})
      <3> HIDE DEF f
      <3> QED BY <2>1, <2>2, FiniteImage
    <2>4. {f[i] : i \in 1 .. Len(listed)} = Names
      BY <1>3 DEF CodesOf
    <2> QED BY <2>3, <2>4
  <1>6. IsFiniteSet(D) /\ D \subseteq Product
    BY <1>2, <1>3, <1>4, <1>5, FS_Union
  <1>7. \A i \in DOMAIN listed : Rows(listed[i].item_code) = {i} /\ K[listed[i].item_code] = IdOf(i)
    <2> TAKE i \in DOMAIN listed
    <2>1. Rows(listed[i].item_code) = {i}
      BY <1>2 DEF Distinct
    <2>2. (CHOOSE j \in Rows(listed[i].item_code) : TRUE) = i
      BY <2>1
    <2>3. listed[i].item_code \in D
      BY DEF CodesOf
    <2> QED BY <2>1, <2>2, <2>3
  <1>8. \A c \in D : Rows(c) # {} <=> c \in Names
    BY DEF CodesOf
  <1>9. CASE Numbered(doc)
    <2>1. D = DOMAIN doc.registry
      BY <1>9 DEF Numbered, CodesOf
    <2>2. \A c \in D : K[c] = doc.registry[c]
      <3> TAKE c \in D
      <3>1. CASE c \in Names
        <4>1. PICK i \in DOMAIN listed : listed[i].item_code = c
          BY <3>1 DEF CodesOf
        <4>2. listed[i].movie_id = doc.registry[c] /\ doc.registry[c] \in Nat
          BY <4>1, <1>3, <1>9, <2>1 DEF Numbered
        <4>3. IdOf(i) = doc.registry[c]
          BY <4>2, NoneAssumption
        <4> QED BY <4>1, <4>3, <1>7
      <3>2. CASE c \notin Names
        BY <3>2, <1>8
      <3> QED BY <3>1, <3>2
    <2>3. K = doc.registry
      <3>1. doc.registry \in [D -> Nat]
        BY <2>1, <1>3
      <3>2. \A c \in D : doc.registry[c] \in Nat
        BY <3>1
      <3>3. K \in [D -> Nat]
        BY <2>2, <3>2
      <3> DEFINE g == doc.registry
      <3>4. g \in [D -> Nat] /\ \A c \in D : K[c] = g[c]
        BY <2>2, <3>1
      <3> HIDE DEF K, D, g
      <3>5. K = g
        BY <3>3, <3>4, SameValues
      <3> QED BY <3>5 DEF g
    <2>4. Known(doc) = doc.registry
      BY <2>3, <1>1
    <2>5. DOMAIN doc.registry \subseteq Product /\ IsFiniteSet(DOMAIN doc.registry)
      BY <1>2, <1>3
    <2> QED BY <2>4, <2>5, <1>3, <1>9 DEF Numbered
  <1>10. CASE ~ Numbered(doc)
    <2>1. D = Names /\ \A i \in DOMAIN listed : listed[i].movie_id = None
      BY <1>10 DEF Sound
    <2>2. \A c \in D : \E i \in DOMAIN listed : listed[i].item_code = c /\ K[c] = i
      <3> TAKE c \in D
      <3>1. PICK i \in DOMAIN listed : listed[i].item_code = c
        BY <2>1 DEF CodesOf
      <3>2. IdOf(i) = i
        BY <2>1
      <3> QED BY <3>1, <3>2, <1>7
    <2>3. DOMAIN K = D
      OBVIOUS
    <2>4. \A c \in D : K[c] \in Nat
      <3> HIDE DEF K
      <3> QED BY <2>2, <1>3
    <2>5. K \in [D -> Nat]
      BY <2>4
    <2>6. \A c, d \in D : K[c] = K[d] => c = d
      <3> HIDE DEF K
      <3> QED BY <2>2
    <2> HIDE DEF K
    <2> QED BY <2>3, <2>5, <2>6, <1>1, <1>6, <1>10
  <1> QED BY <1>9, <1>10

\* The high-water mark is not below any identity.
LEMMA HighWaterFacts ==
  ASSUME NEW doc, Sound(doc)
  PROVE  /\ HighWater(doc) \in Nat
         /\ \A c \in DOMAIN Known(doc) : Known(doc)[c] <= HighWater(doc)
  <1> DEFINE K    == Known(doc)
             ids  == {K[c] : c \in DOMAIN K}
             used == ids \cup {doc.high, Len(doc.products)}
  <1>1. IsFiniteSet(DOMAIN K) /\ K \in [DOMAIN K -> Nat]
    BY KnownFacts
  <1>2. IsFiniteSet(ids) /\ ids \subseteq Nat
    <2> HIDE DEF K
    <2> QED BY <1>1, FiniteImage
  <1>3. doc.high \in Nat /\ Len(doc.products) \in Nat
    BY DocumentFacts DEF Sound
  <1>4. IsFiniteSet({doc.high, Len(doc.products)})
    <2>1. IsFiniteSet({doc.high} \cup {Len(doc.products)})
      BY FS_Singleton, FS_Union
    <2>2. {doc.high} \cup {Len(doc.products)} = {doc.high, Len(doc.products)}
      OBVIOUS
    <2> QED BY <2>1, <2>2
  <1>5. IsFiniteSet(used) /\ used \in SUBSET Nat /\ used # {}
    BY <1>2, <1>3, <1>4, FS_Union
  <1>6. \E n \in used : \A m \in used : m <= n
    <2> HIDE DEF used
    <2> QED BY <1>5, GreatestNatural
  <1>7. HighWater(doc) = CHOOSE n \in used : \A m \in used : m <= n
    BY DEF HighWater
  <1>8. HighWater(doc) \in used /\ \A m \in used : m <= HighWater(doc)
    <2> HIDE DEF used
    <2> QED BY <1>6, <1>7
  <1> QED BY <1>5, <1>8

\* What an import makes of the identities: those that it finds stay, and a new
\* product gets a number that no other has.
LEMMA RegistryFacts ==
  ASSUME NEW doc, Sound(doc), NEW codes, FoundOK(codes)
  PROVE  LET R == Registry(doc, codes) K == Known(doc) IN
         /\ R \in [DOMAIN K \cup Item(codes) -> Nat]
         /\ IsFiniteSet(DOMAIN R) /\ DOMAIN R \subseteq Product
         /\ \A c \in DOMAIN K : R[c] = K[c]
         /\ \A c, d \in DOMAIN R : R[c] = R[d] => c = d
         /\ Cardinality(NewRows(doc, codes)) \in Nat
  <1> DEFINE K   == Known(doc)
             H   == HighWater(doc)
             New == NewRows(doc, codes)
             I(c)     == CHOOSE i \in DOMAIN codes : codes[i] = c
             Upto(n)  == {i \in New : i <= n}
             Fresh(c) == H + Cardinality(Upto(I(c)))
             D   == DOMAIN K \cup Item(codes)
             R   == [c \in D |-> IF c \in DOMAIN K THEN K[c] ELSE Fresh(c)]
  <1>1. Registry(doc, codes) = R
    BY DEF Registry, Item
  <1>2. /\ DOMAIN K \subseteq Product /\ IsFiniteSet(DOMAIN K)
        /\ \A c \in DOMAIN K : K[c] \in Nat /\ K[c] <= H
        /\ \A c, d \in DOMAIN K : K[c] = K[d] => c = d
    BY KnownFacts, HighWaterFacts
  <1>3. H \in Nat
    BY HighWaterFacts
  <1>4. /\ codes \in Seq(Product) /\ Len(codes) \in Nat /\ DOMAIN codes = 1 .. Len(codes)
        /\ \A i, j \in DOMAIN codes : codes[i] = codes[j] => i = j
    BY DEF FoundOK
  <1>5. New \subseteq 1 .. Len(codes) /\ IsFiniteSet(New) /\ Cardinality(New) \in Nat
    <2>1. New \subseteq 1 .. Len(codes)
      BY <1>4 DEF NewRows
    <2>2. IsFiniteSet(1 .. Len(codes))
      BY <1>4, FS_Interval
    <2> HIDE DEF New
    <2>3. IsFiniteSet(New)
      BY <2>1, <2>2, FS_Subset
    <2> QED BY <2>1, <2>3, FS_CardinalityType
  <1>6. Item(codes) \subseteq Product /\ IsFiniteSet(Item(codes))
    <2>1. Item(codes) = {codes[i] : i \in 1 .. Len(codes)}
      BY <1>4 DEF Item
    <2>2. IsFiniteSet(1 .. Len(codes))
      BY <1>4, FS_Interval
    <2>3. codes \in [1 .. Len(codes) -> Product]
      BY <1>4
    <2>4. IsFiniteSet({codes[i] : i \in 1 .. Len(codes)})
      BY <2>2, <2>3, FiniteImage
    <2> QED BY <2>1, <2>3, <2>4
  <1>7. IsFiniteSet(D) /\ D \subseteq Product
    BY <1>2, <1>6, FS_Union
  <1>8. \A n : IsFiniteSet(Upto(n)) /\ Cardinality(Upto(n)) \in Nat
    <2> TAKE n
    <2>1. Upto(n) \subseteq New
      OBVIOUS
    <2> HIDE DEF Upto, New
    <2> QED BY <2>1, <1>5, FS_Subset, FS_CardinalityType
  <1>9. \A c \in D \ DOMAIN K : I(c) \in New /\ codes[I(c)] = c
    BY DEF Item, NewRows
  <1>10. \A m, n \in New : m < n => Cardinality(Upto(m)) < Cardinality(Upto(n))
    <2> SUFFICES ASSUME NEW m \in New, NEW n \in New, m < n
                 PROVE  Cardinality(Upto(m)) < Cardinality(Upto(n))
      OBVIOUS
    <2>1. m \in Nat /\ n \in Nat /\ \A i \in New : i \in Nat
      BY <1>5
    <2>2. Upto(m) \subseteq Upto(n)
      <3> SUFFICES ASSUME NEW i \in New, i <= m PROVE i <= n
        OBVIOUS
      <3> HIDE DEF New
      <3> QED BY <2>1
    <2>3. n \in Upto(n) /\ n \notin Upto(m)
      BY <2>1
    <2> HIDE DEF Upto
    <2>4. Cardinality(Upto(m)) <= Cardinality(Upto(n))
          /\ Cardinality(Upto(m)) # Cardinality(Upto(n))
      BY <2>2, <2>3, <1>8, FS_Subset
    <2> QED BY <2>4, <1>8
  <1>11. \A c \in D \ DOMAIN K : Fresh(c) \in Nat /\ H < Fresh(c)
    <2> TAKE c \in D \ DOMAIN K
    <2>1. I(c) \in Nat
      BY <1>5, <1>9
    <2>2. Upto(I(c)) # {}
      BY <2>1, <1>9
    <2>3. Cardinality(Upto(I(c))) \in Nat /\ Cardinality(Upto(I(c))) # 0
      <3> HIDE DEF Upto
      <3> QED BY <2>2, <1>8, FS_EmptySet
    <2> QED BY <2>3, <1>3
  <1>12. \A c, d \in D \ DOMAIN K : Fresh(c) = Fresh(d) => c = d
    <2> SUFFICES ASSUME NEW c \in D \ DOMAIN K, NEW d \in D \ DOMAIN K, Fresh(c) = Fresh(d)
                 PROVE  c = d
      OBVIOUS
    <2> HIDE DEF Upto, I
    <2>1. I(c) \in New /\ I(d) \in New /\ I(c) \in Nat /\ I(d) \in Nat
      BY <1>5, <1>9
    <2>2. Cardinality(Upto(I(c))) = Cardinality(Upto(I(d)))
      BY <1>3, <1>8
    <2>3. ~ (I(c) < I(d)) /\ ~ (I(d) < I(c))
      BY <2>1, <2>2, <1>8, <1>10
    <2>4. I(c) = I(d)
      BY <2>1, <2>3
    <2> QED BY <2>4, <1>9
  <1> HIDE DEF Fresh, K, H, D
  <1>13. R \in [D -> Nat] /\ \A c \in D : R[c] = IF c \in DOMAIN K THEN K[c] ELSE Fresh(c)
    BY <1>2, <1>11
  <1>14. DOMAIN K \subseteq D
    BY DEF D
  <1>15. DOMAIN R = D
    OBVIOUS
  <1> HIDE DEF R
  <1>16. \A c, d \in D : R[c] = R[d] => c = d
    <2> SUFFICES ASSUME NEW c \in D, NEW d \in D, R[c] = R[d] PROVE c = d
      OBVIOUS
    <2>1. CASE c \in DOMAIN K /\ d \in DOMAIN K
      BY <2>1, <1>2, <1>13
    <2>2. CASE c \in DOMAIN K /\ d \notin DOMAIN K
      BY <2>2, <1>2, <1>3, <1>11, <1>13
    <2>3. CASE c \notin DOMAIN K /\ d \in DOMAIN K
      BY <2>3, <1>2, <1>3, <1>11, <1>13
    <2>4. CASE c \notin DOMAIN K /\ d \notin DOMAIN K
      BY <2>4, <1>12, <1>13
    <2> QED BY <2>1, <2>2, <2>3, <2>4
  <1> QED BY <1>1, <1>5, <1>7, <1>13, <1>14, <1>15, <1>16 DEF D, K

\* What an import writes is sound, and gives the identities of the registry.
LEMMA RefreshedFacts ==
  ASSUME NEW doc, Sound(doc), NEW codes, FoundOK(codes)
  PROVE  /\ Sound(Refreshed(doc, codes))
         /\ Known(Refreshed(doc, codes)) = Registry(doc, codes)
  <1> DEFINE R    == Registry(doc, codes)
             listed == [i \in DOMAIN codes |-> [item_code |-> codes[i], movie_id |-> R[codes[i]]]]
             high == HighWater(doc) + Cardinality(NewRows(doc, codes))
             new  == Refreshed(doc, codes)
  <1>1. new = [products |-> listed, registry |-> R, high |-> high]
    BY DEF Refreshed
  <1>2. /\ R \in [DOMAIN R -> Nat] /\ IsFiniteSet(DOMAIN R) /\ DOMAIN R \subseteq Product
        /\ Item(codes) \subseteq DOMAIN R
        /\ \A c, d \in DOMAIN R : R[c] = R[d] => c = d
        /\ high \in Nat
    <2> HIDE DEF R
    <2>1. R \in [DOMAIN Known(doc) \cup Item(codes) -> Nat]
          /\ Cardinality(NewRows(doc, codes)) \in Nat
          /\ IsFiniteSet(DOMAIN R) /\ DOMAIN R \subseteq Product
          /\ \A c, d \in DOMAIN R : R[c] = R[d] => c = d
      BY RegistryFacts DEF R
    <2>2. HighWater(doc) \in Nat
      BY HighWaterFacts
    <2> QED BY <2>1, <2>2
  <1>3. /\ codes \in Seq(Product) /\ Len(codes) \in Nat /\ DOMAIN codes = 1 .. Len(codes)
        /\ \A i, j \in DOMAIN codes : codes[i] = codes[j] => i = j
    BY DEF FoundOK
  <1>4. \A i \in DOMAIN codes : codes[i] \in DOMAIN R /\ codes[i] \in Product
                                /\ R[codes[i]] \in Nat
    <2> HIDE DEF R
    <2> QED BY <1>2, <1>3 DEF Item
  <1>5. listed \in Seq(Row)
    <2>1. \A i \in 1 .. Len(codes) :
            [item_code |-> codes[i], movie_id |-> R[codes[i]]] \in Row
      BY <1>3, <1>4 DEF Row
    <2>2. listed \in [1 .. Len(codes) -> Row]
      BY <2>1, <1>3
    <2> HIDE DEF listed
    <2> QED BY <2>2, <1>3
  <1>6. /\ DOMAIN listed = DOMAIN codes
        /\ \A i \in DOMAIN codes : listed[i].item_code = codes[i] /\ listed[i].movie_id = R[codes[i]]
    OBVIOUS
  <1> HIDE DEF listed, R, high
  <1>7. new.products = listed /\ new.registry = R /\ new.high = high
    BY <1>1
  <1>8. new \in Document
    <2>1. R \in UNION {[S -> Nat] : S \in SUBSET Product}
      BY <1>2
    <2> QED BY <1>1, <1>2, <1>5, <2>1 DEF Document
  <1> HIDE DEF new
  <1>9. Distinct(new.products)
    BY <1>3, <1>6, <1>7 DEF Distinct
  <1>10. Numbered(new)
    BY <1>2, <1>4, <1>6, <1>7 DEF Numbered
  <1>11. Sound(new)
    BY <1>2, <1>7, <1>8, <1>9, <1>10 DEF Sound
  <1>12. Known(new) = new.registry
    BY <1>10, <1>11, KnownFacts
  <1> QED BY <1>7, <1>11, <1>12 DEF new, R

------------------------------------------------------------------------------
(* the inductive invariant of the shop *)

TypeOK ==
  /\ catalog \in Document
  /\ lock \in Importer \cup {NoImporter}
  /\ pc \in [Importer -> {"idle", "lock", "read", "replace", "report"}]
  /\ found \in [Importer -> Found \cup {<<>>}]
  /\ previous \in [Importer -> Document \cup {None}]
  /\ imports \in Nat /\ builds \in Nat
  /\ plan \in [ArtBuild -> {None} \cup [File -> Product \cup {None}]]
  /\ writing \in [ArtBuild -> File \cup {None}]
  /\ artwork \in [File -> Product \cup {None}]
  /\ round \in [source : Document \cup {None}, done : BOOLEAN]
  /\ named \subseteq Nat \X Product

\* Who has read the catalog holds the lock, and nobody writes it in between.
LockOK ==
  \A p \in Importer :
    /\ pc[p] \in {"read", "replace", "report"} => lock = p
    /\ pc[p] = "replace" => previous[p] = catalog

\* File f is to show the product of its row in the document.
RowHas(doc, f, c) == f[1] \in DOMAIN doc.products /\ doc.products[f[1]].item_code = c

Fits(doc, f) == \A c \in Pictured : RowHas(doc, f, c) => artwork[f] = c

\* A build that has opened file f will write it.
Opened(f) == \E b \in ArtBuild : writing[b] = f

\* Only a running build has a file open, one that it has left.
WritingOK ==
  \A b \in ArtBuild : writing[b] # None =>
    /\ plan[b] # None
    /\ plan[b][writing[b]] # None

\* While the builds of a round have read one document, each writes what its rows say,
\* a file that one has behind it fits unless another has opened it again, and nobody
\* writes anything else into a file that is open.
RoundOK ==
  round.source # None =>
    /\ \A b \in ArtBuild : plan[b] # None =>
         \A f \in File :
           IF plan[b][f] = None THEN Fits(round.source, f) \/ Opened(f)
           ELSE RowHas(round.source, f, plan[b][f])
    /\ round.done => \A f \in File : Fits(round.source, f) \/ Opened(f)
    /\ \A b \in ArtBuild : writing[b] # None =>
         artwork[writing[b]] \in {None, plan[b][writing[b]]}

BuildOK == WritingOK /\ RoundOK

IInv == TypeOK /\ LockOK /\ Sound(catalog) /\ BuildOK

\* Every result of a search and every earlier catalog.
LEMMA SearchFacts ==
  ASSUME NEW codes \in Found \cup Legacy \cup {<<>>}
  PROVE  FoundOK(codes)
  <1>1. CASE codes = <<>>
    <2>1. codes \in Seq(Product) /\ DOMAIN codes = {}
      BY <1>1
    <2> QED BY <2>1 DEF FoundOK
  <1>2. CASE codes \in Found \cup Legacy
    BY <1>2, SearchAssumption DEF FoundOK
  <1> QED BY <1>1, <1>2

\* What an importer has found.
LEMMA FoundFacts ==
  ASSUME TypeOK, NEW p \in Importer
  PROVE  FoundOK(found[p])
  <1>1. found[p] \in Found \/ found[p] = <<>>
    BY DEF TypeOK
  <1> QED BY <1>1, SearchFacts

\* Documents of the time before identities are sound.
LEMMA UnnumberedSound ==
  ASSUME NEW codes, FoundOK(codes)
  PROVE  Sound(Unnumbered(codes))
  <1> DEFINE doc  == Unnumbered(codes)
             listed == [i \in DOMAIN codes |-> [item_code |-> codes[i], movie_id |-> None]]
             none == [c \in {} |-> 0]
  <1>1. doc = [products |-> listed, registry |-> none, high |-> 0]
    BY DEF Unnumbered
  <1>2. /\ codes \in Seq(Product) /\ Len(codes) \in Nat /\ DOMAIN codes = 1 .. Len(codes)
        /\ \A i, j \in DOMAIN codes : codes[i] = codes[j] => i = j
    BY DEF FoundOK
  <1>3. listed \in [1 .. Len(codes) -> Row]
    BY <1>2 DEF Row
  <1>4. /\ DOMAIN listed = DOMAIN codes
        /\ \A i \in DOMAIN codes : listed[i].item_code = codes[i] /\ listed[i].movie_id = None
    OBVIOUS
  <1>5. DOMAIN none = {} /\ none \in [{} -> Nat]
    OBVIOUS
  <1>6. none \in UNION {[S -> Nat] : S \in SUBSET Product}
    <2> HIDE DEF none
    <2> QED BY <1>5
  <1> HIDE DEF listed, none
  <1>7. listed \in Seq(Row)
    BY <1>2, <1>3
  <1>8. doc \in Document
    BY <1>1, <1>6, <1>7 DEF Document
  <1>9. doc.products = listed /\ doc.registry = none
    BY <1>1
  <1>10. IsFiniteSet(DOMAIN doc.registry)
    BY <1>5, <1>9, FS_EmptySet
  <1> HIDE DEF doc
  <1>11. Distinct(doc.products)
    BY <1>2, <1>4, <1>9 DEF Distinct
  <1>12. DOMAIN doc.registry = {} /\ \A i \in DOMAIN doc.products : doc.products[i].movie_id = None
    BY <1>4, <1>5, <1>9
  <1> QED BY <1>8, <1>10, <1>11, <1>12 DEF Sound, doc

\* It holds of a new or an earlier catalog.
LEMMA InitEstablishes == Init => IInv
  <1> SUFFICES ASSUME Init PROVE IInv
    OBVIOUS
  <1>1. PICK codes \in Legacy \cup {<<>>} : catalog = Unnumbered(codes)
    BY DEF Init
  <1>2. FoundOK(codes)
    BY SearchFacts
  <1>3. Sound(catalog)
    BY <1>1, <1>2, UnnumberedSound
  <1>4. TypeOK
    BY <1>3 DEF Init, TypeOK, Sound
  <1> QED BY <1>3, <1>4 DEF Init, IInv, LockOK, BuildOK, WritingOK, RoundOK

\* An import that ends leaves nothing behind.
LEMMA EndFacts ==
  ASSUME TypeOK, LockOK, NEW p \in Importer, End(p), UNCHANGED catalog
  PROVE  /\ LockOK'
         /\ lock' \in Importer \cup {NoImporter}
         /\ pc' \in [Importer -> {"idle", "lock", "read", "replace", "report"}]
         /\ found' \in [Importer -> Found \cup {<<>>}]
         /\ previous' \in [Importer -> Document \cup {None}]
  <1>1. /\ pc' = [pc EXCEPT ![p] = "idle"]
        /\ lock' = IF lock = p THEN NoImporter ELSE lock
        /\ found' = [found EXCEPT ![p] = <<>>]
        /\ previous' = [previous EXCEPT ![p] = None]
    BY DEF End, Go
  <1>2. \A q \in Importer \ {p} : pc'[q] = pc[q] /\ previous'[q] = previous[q]
    BY <1>1 DEF TypeOK
  <1>3. pc'[p] = "idle"
    BY <1>1 DEF TypeOK
  <1>4. LockOK'
    <2> SUFFICES ASSUME NEW q \in Importer
                 PROVE  /\ pc'[q] \in {"read", "replace", "report"} => lock' = q
                        /\ pc'[q] = "replace" => previous'[q] = catalog'
      BY DEF LockOK
    <2> QED BY <1>1, <1>2, <1>3 DEF LockOK
  <1> QED BY <1>1, <1>4 DEF TypeOK

\* The catalog after a replacement.
LEMMA ReplaceFacts ==
  ASSUME IInv, NEW p \in Importer, Replace(p)
  PROVE  /\ FoundOK(found[p]) /\ catalog' = Refreshed(catalog, found[p])
         /\ Sound(catalog)' /\ Known(catalog)' = Registry(catalog, found[p])
  <1>1. catalog' = Refreshed(catalog, found[p])
    BY DEF IInv, LockOK, Replace
  <1>2. FoundOK(found[p]) /\ Sound(catalog)
    BY FoundFacts DEF IInv
  <1>3. Sound(Refreshed(catalog, found[p]))
        /\ Known(Refreshed(catalog, found[p])) = Registry(catalog, found[p])
    BY <1>2, RefreshedFacts
  <1> QED BY <1>1, <1>2, <1>3

\* Sound documents stay sound: only a replacement writes one.
LEMMA SoundStep ==
  ASSUME IInv, [Next]_vars
  PROVE  Sound(catalog)'
  <1>1. CASE \E p \in Importer : Replace(p)
    BY <1>1, ReplaceFacts
  <1>2. CASE UNCHANGED catalog
    BY <1>2 DEF IInv
  <1> QED
    BY <1>1, <1>2
       DEF Next, vars, Search, Lock, ReadPrevious, Report, Fail, StartBuild,
        OpenFile, WriteFile, FinishBuild, AbandonBuild, List, Open

\* The rows of the catalog as the pages number them.
LEMMA PageFacts ==
  ASSUME TypeOK
  PROVE  PageNames \subseteq Nat \X Product
  <1>1. DOMAIN catalog.products = 1 .. Len(catalog.products) /\ Len(catalog.products) \in Nat
        /\ \A n \in DOMAIN catalog.products : catalog.products[n].item_code \in Product
    BY DocumentFacts DEF TypeOK
  <1> QED BY <1>1 DEF PageNames

\* A build plans the file of each row that has an image.
LEMMA CardsFacts ==
  ASSUME NEW doc \in Document
  PROVE  /\ Cards(doc) \in [File -> Product \cup {None}]
         /\ \A f \in File : IF Cards(doc)[f] = None
                              THEN \A c \in Pictured : ~ RowHas(doc, f, c)
                              ELSE RowHas(doc, f, Cards(doc)[f])
  <1>1. /\ DOMAIN doc.products = 1 .. Len(doc.products) /\ Len(doc.products) \in Nat
        /\ \A n \in DOMAIN doc.products : doc.products[n].item_code \in Product
    BY DocumentFacts
  <1>2. \A f \in File : f[1] \in 1 .. MaxShown
    BY DEF File
  <1>3. \A f \in File : f[1] <= Len(doc.products) <=> f[1] \in DOMAIN doc.products
    BY <1>1, <1>2, BoundsAssumption
  <1>4. \A f \in File :
          Cards(doc)[f] = IF f[1] \in DOMAIN doc.products
                               /\ doc.products[f[1]].item_code \in Pictured
                            THEN doc.products[f[1]].item_code ELSE None
    BY <1>3 DEF Cards
  <1>5. Cards(doc) \in [File -> Product \cup {None}]
    BY <1>1, <1>3 DEF Cards
  <1>6. None \notin Pictured
    BY NoneAssumption, ProductAssumption
  <1> QED BY <1>4, <1>5, <1>6 DEF RowHas

\* Every step keeps the types.
LEMMA TypeStep ==
  ASSUME IInv, [Next]_vars
  PROVE  TypeOK'
  <1> USE DEF Go, importers, builder
  <1>1. TypeOK /\ LockOK
    BY DEF IInv
  <1>2. catalog' \in Document
    BY SoundStep DEF Sound
  <1>3. ASSUME NEW p \in Importer, Search(p) PROVE TypeOK'
    BY <1>1, <1>2, <1>3 DEF Search, TypeOK
  <1>4. ASSUME NEW p \in Importer, Lock(p) PROVE TypeOK'
    BY <1>1, <1>2, <1>4 DEF Lock, TypeOK
  <1>5. ASSUME NEW p \in Importer, ReadPrevious(p) PROVE TypeOK'
    <2>1. CASE Exhausted(catalog, found[p])
      BY <1>1, <1>2, <1>5, <2>1, EndFacts DEF ReadPrevious, TypeOK
    <2>2. CASE ~ Exhausted(catalog, found[p])
      BY <1>1, <1>2, <1>5, <2>2 DEF ReadPrevious, TypeOK
    <2> QED BY <2>1, <2>2
  <1>6. ASSUME NEW p \in Importer, Replace(p) PROVE TypeOK'
    BY <1>1, <1>2, <1>6 DEF Replace, TypeOK
  <1>7. ASSUME NEW p \in Importer, Report(p) PROVE TypeOK'
    BY <1>1, <1>2, <1>7, EndFacts DEF Report, TypeOK
  <1>8. ASSUME NEW p \in Importer, Fail(p) PROVE TypeOK'
    BY <1>1, <1>2, <1>8, EndFacts DEF Fail, TypeOK
  <1>9. ASSUME NEW b \in ArtBuild, StartBuild(b) PROVE TypeOK'
    <2>1. Cards(catalog) \in [File -> Product \cup {None}]
      BY <1>1, CardsFacts DEF TypeOK
    <2>2. plan' = [plan EXCEPT ![b] = Cards(catalog)] /\ UNCHANGED <<writing, artwork>>
      BY <1>9 DEF StartBuild
    <2>3. plan' \in [ArtBuild -> {None} \cup [File -> Product \cup {None}]]
      BY <1>1, <2>1, <2>2 DEF TypeOK
    <2>4. round' \in [source : Document \cup {None}, done : BOOLEAN]
      BY <1>1, <1>9 DEF StartBuild, TypeOK
    <2> QED BY <1>1, <1>2, <1>9, <2>3, <2>4 DEF StartBuild, TypeOK
  <1>10. ASSUME NEW b \in ArtBuild, OpenFile(b) PROVE TypeOK'
    BY <1>1, <1>2, <1>10 DEF OpenFile, TypeOK
  <1>11. ASSUME NEW b \in ArtBuild, WriteFile(b) PROVE TypeOK'
    <2>1. plan[b] \in [File -> Product \cup {None}] /\ writing[b] \in File
      BY <1>1, <1>11 DEF WriteFile, TypeOK, IInv, BuildOK, WritingOK
    <2>2. plan' = [plan EXCEPT ![b] = [plan[b] EXCEPT ![writing[b]] = None]]
      BY <1>1, <1>11 DEF WriteFile, TypeOK
    <2>3. plan' \in [ArtBuild -> {None} \cup [File -> Product \cup {None}]]
      BY <1>1, <2>1, <2>2 DEF TypeOK
    <2>4. artwork' \in [File -> Product \cup {None}]
      BY <1>1, <1>11, <2>1 DEF WriteFile, TypeOK
    <2> QED BY <1>1, <1>2, <1>11, <2>3, <2>4 DEF WriteFile, TypeOK
  <1>12. ASSUME NEW b \in ArtBuild, FinishBuild(b) \/ AbandonBuild(b) PROVE TypeOK'
    BY <1>1, <1>2, <1>12 DEF FinishBuild, AbandonBuild, TypeOK
  <1>13. CASE List
    BY <1>1, <1>2, <1>13, PageFacts DEF List, TypeOK
  <1>14. CASE Open
    BY <1>1, <1>2, <1>14, PageFacts DEF Open, TypeOK
  <1>15. CASE UNCHANGED vars
    BY <1>1, <1>2, <1>15 DEF vars, TypeOK
  <1> QED BY <1>3, <1>4, <1>5, <1>6, <1>7, <1>8, <1>9, <1>10, <1>11, <1>12, <1>13, <1>14,
        <1>15 DEF Next

\* Nobody but the holder of the lock changes what it has read.
LEMMA LockStep ==
  ASSUME IInv, [Next]_vars
  PROVE  LockOK'
  <1> USE DEF Go, importers, builder
  <1>1. TypeOK /\ LockOK /\ lock # NoImporter => lock \in Importer
    BY DEF IInv, TypeOK
  <1>2. ASSUME NEW p \in Importer, Search(p) PROVE LockOK'
    BY <1>2 DEF Search, IInv, TypeOK, LockOK
  <1>3. ASSUME NEW p \in Importer, Lock(p) PROVE LockOK'
    BY <1>3, ImporterAssumption DEF Lock, IInv, TypeOK, LockOK
  <1>4. ASSUME NEW p \in Importer, ReadPrevious(p) PROVE LockOK'
    <2>1. CASE Exhausted(catalog, found[p])
      BY <1>4, <2>1, EndFacts DEF ReadPrevious, IInv
    <2>2. CASE ~ Exhausted(catalog, found[p])
      BY <1>4, <2>2 DEF ReadPrevious, IInv, TypeOK, LockOK
    <2> QED BY <2>1, <2>2
  <1>5. ASSUME NEW p \in Importer, Replace(p) PROVE LockOK'
    BY <1>5 DEF Replace, IInv, TypeOK, LockOK
  <1>6. ASSUME NEW p \in Importer, Report(p) PROVE LockOK'
    BY <1>6, EndFacts DEF Report, IInv
  <1>7. ASSUME NEW p \in Importer, Fail(p) PROVE LockOK'
    BY <1>7, EndFacts DEF Fail, IInv
  <1>8. CASE UNCHANGED <<catalog, importers>>
    BY <1>8 DEF IInv, LockOK
  <1> QED
    BY <1>2, <1>3, <1>4, <1>5, <1>6, <1>7, <1>8
       DEF Next, StartBuild, OpenFile, WriteFile, FinishBuild, AbandonBuild, List, Open,
           vars

\* Opening, writing and leaving a file concerns one build.
LEMMA WritingStep ==
  ASSUME TypeOK, WritingOK, [Next]_vars
  PROVE  WritingOK'
  <1> USE DEF builder, WritingOK
  <1>1. ASSUME NEW b \in ArtBuild, StartBuild(b) PROVE WritingOK'
    <2>1. Cards(catalog) \in [File -> Product \cup {None}]
      BY CardsFacts DEF TypeOK
    <2>2. None \notin [File -> Product \cup {None}]
      BY NoneAssumption
    <2> QED BY <1>1, <2>1, <2>2 DEF StartBuild, TypeOK
  <1>2. ASSUME NEW b \in ArtBuild, OpenFile(b) PROVE WritingOK'
    BY <1>2 DEF OpenFile, TypeOK
  <1>3. ASSUME NEW b \in ArtBuild, WriteFile(b) PROVE WritingOK'
    BY <1>3 DEF WriteFile, TypeOK
  <1>4. ASSUME NEW b \in ArtBuild, FinishBuild(b) PROVE WritingOK'
    BY <1>4 DEF FinishBuild, TypeOK
  <1>5. ASSUME NEW b \in ArtBuild, AbandonBuild(b) PROVE WritingOK'
    BY <1>5 DEF AbandonBuild, TypeOK
  <1>6. CASE UNCHANGED builder
    BY <1>6
  <1> QED
    BY <1>1, <1>2, <1>3, <1>4, <1>5, <1>6
       DEF Next, vars, Search, Lock, ReadPrevious, Replace, Report, Fail, List, Open

\* Builds of one document do each other no harm, whatever files they have open.
LEMMA RoundStep ==
  ASSUME IInv, [Next]_vars
  PROVE  RoundOK'
  <1> USE DEF builder
  <1>1. TypeOK /\ WritingOK /\ RoundOK /\ WritingOK'
    BY WritingStep DEF IInv, BuildOK
  <1>2. /\ None \notin [File -> Product \cup {None}] /\ None \notin Pictured
        /\ None \notin File
    BY NoneAssumption, ProductAssumption
  <1>3. SUFFICES ASSUME round'.source # None PROVE RoundOK'
    BY DEF RoundOK
  <1>4. ASSUME NEW b \in ArtBuild, StartBuild(b) PROVE RoundOK'
    <2>0. PICK cards : cards = Cards(catalog)
      OBVIOUS
    <2>1. /\ cards \in [File -> Product \cup {None}]
          /\ \A f \in File : IF cards[f] = None
                               THEN \A c \in Pictured : ~ RowHas(catalog, f, c)
                               ELSE RowHas(catalog, f, cards[f])
      BY <1>1, <2>0, CardsFacts DEF TypeOK
    <2>2. /\ plan[b] = None /\ plan' = [plan EXCEPT ![b] = cards]
          /\ UNCHANGED <<writing, artwork>>
          /\ round'.source = catalog /\ (~ Resting => round' = round)
          /\ Resting => ~ round'.done
      BY <1>1, <1>3, <1>4, <2>0 DEF StartBuild, TypeOK
    <2>3. /\ plan'[b] = cards /\ writing[b] = None
          /\ \A d \in ArtBuild \ {b} : plan'[d] = plan[d]
      BY <1>1, <2>2 DEF TypeOK, WritingOK
    <2>4. \A f \in File : IF cards[f] = None THEN Fits(round.source, f)'
                          ELSE RowHas(round.source, f, cards[f])'
      BY <2>1, <2>2 DEF Fits, RowHas
    <2>5. CASE Resting
      <3>1. \A d \in ArtBuild : writing[d] = None /\ (d # b => plan'[d] = None)
        BY <1>1, <2>3, <2>5 DEF Resting, WritingOK
      <3> QED BY <2>2, <2>3, <2>4, <2>5, <3>1 DEF RoundOK
    <2>6. CASE ~ Resting
      <3>1. /\ \A f \in File : Fits(round.source, f)' <=> Fits(round.source, f)
            /\ \A f \in File : Opened(f)' <=> Opened(f)
            /\ \A f \in File, c \in Product : RowHas(round.source, f, c)' <=>
                 RowHas(round.source, f, c)
        BY <2>2, <2>6 DEF Fits, Opened, RowHas
      <3>2. ASSUME NEW d \in ArtBuild, plan'[d] # None, NEW f \in File
            PROVE  IF plan'[d][f] = None THEN Fits(round.source, f)' \/ Opened(f)'
                   ELSE RowHas(round.source, f, plan[d][f])'
        <4>1. CASE d = b
          BY <2>3, <2>4, <4>1
        <4>2. CASE d # b
          BY <1>1, <1>3, <2>2, <2>3, <2>6, <3>1, <3>2, <4>2 DEF RoundOK, RowHas
        <4> QED BY <4>1, <4>2
      <3>3. \A d \in ArtBuild : writing'[d] # None =>
              artwork'[writing'[d]] \in {None, plan'[d][writing'[d]]}
        BY <1>1, <1>3, <2>2, <2>3, <2>6 DEF RoundOK
      <3>4. round'.done => \A f \in File : Fits(round.source, f)' \/ Opened(f)'
        BY <1>1, <1>3, <2>2, <2>6, <3>1 DEF RoundOK
      <3> QED BY <3>2, <3>3, <3>4 DEF RoundOK
    <2> QED BY <2>5, <2>6
  <1>5. ASSUME NEW b \in ArtBuild, OpenFile(b) PROVE RoundOK'
    <2>1. PICK f \in File : /\ plan[b][f] # None
                            /\ writing' = [writing EXCEPT ![b] = f]
                            /\ artwork' = [artwork EXCEPT ![f] = None]
      BY <1>5 DEF OpenFile
    <2>2. writing[b] = None /\ UNCHANGED <<plan, round>>
      BY <1>5 DEF OpenFile
    <2>3. /\ writing'[b] = f /\ artwork'[f] = None
          /\ \A d \in ArtBuild \ {b} : writing'[d] = writing[d]
          /\ \A g \in File \ {f} : artwork'[g] = artwork[g]
      BY <1>1, <2>1 DEF TypeOK
    <2>4. \A g \in File : Fits(round.source, g) \/ Opened(g)
                            => Fits(round.source, g)' \/ Opened(g)'
      <3> TAKE g \in File
      <3>1. CASE g = f
        BY <2>3, <3>1 DEF Opened
      <3>2. CASE g # f
        BY <1>2, <2>2, <2>3, <3>2 DEF Opened, Fits, RowHas
      <3> QED BY <3>1, <3>2
    <2>5. ASSUME NEW d \in ArtBuild, writing'[d] # None
          PROVE  artwork'[writing'[d]] \in {None, plan'[d][writing'[d]]}
      <3>1. CASE writing'[d] = f
        BY <2>3, <3>1
      <3>2. CASE writing'[d] # f
        <4>1. writing'[d] = writing[d] /\ writing[d] \in File
          BY <1>1, <2>3, <2>5, <3>2 DEF TypeOK
        <4> QED BY <1>1, <1>3, <2>2, <2>3, <2>5, <3>2, <4>1 DEF RoundOK
      <3> QED BY <3>1, <3>2
    <2>6. \A d \in ArtBuild : plan[d] # None =>
            \A g \in File : plan[d][g] # None => RowHas(round.source, g, plan[d][g])'
      BY <1>1, <1>3, <2>2 DEF RoundOK, RowHas
    <2> QED BY <1>1, <1>3, <2>2, <2>4, <2>5, <2>6 DEF RoundOK, RowHas
  <1>6. ASSUME NEW b \in ArtBuild, WriteFile(b) PROVE RoundOK'
    <2>0. PICK f, c : f = writing[b] /\ c = plan[b][f]
      OBVIOUS
    <2>1. /\ f \in File /\ plan[b] # None /\ plan[b] \in [File -> Product \cup {None}]
          /\ c # None /\ round' = round
      BY <1>1, <1>6, <2>0 DEF WriteFile, TypeOK, WritingOK
    <2>2. artwork[f] \in {None, c} /\ RowHas(round.source, f, c)
      BY <1>1, <1>3, <1>6, <2>0, <2>1 DEF WriteFile, RoundOK
    <2>3. /\ artwork' = [artwork EXCEPT ![f] = c] /\ writing' = [writing EXCEPT ![b] = None]
          /\ plan' = [plan EXCEPT ![b] = [plan[b] EXCEPT ![f] = None]]
      BY <1>1, <1>6, <2>0, <2>2 DEF WriteFile, TypeOK
    <2>4. /\ artwork'[f] = c /\ \A g \in File \ {f} : artwork'[g] = artwork[g]
          /\ writing'[b] = None /\ \A d \in ArtBuild \ {b} : writing'[d] = writing[d]
          /\ plan'[b][f] = None /\ \A g \in File \ {f} : plan'[b][g] = plan[b][g]
          /\ \A d \in ArtBuild \ {b} : plan'[d] = plan[d]
      BY <1>1, <2>1, <2>3 DEF TypeOK
    <2>5. Fits(round.source, f)'
      BY <2>1, <2>2, <2>4 DEF Fits, RowHas
    <2>6. \A g \in File : Fits(round.source, g) \/ Opened(g)
                            => Fits(round.source, g)' \/ Opened(g)'
      <3> TAKE g \in File
      <3>1. CASE g = f
        BY <2>5, <3>1
      <3>2. CASE g # f
        <4>1. Fits(round.source, g) => Fits(round.source, g)'
          BY <2>1, <2>4, <3>2 DEF Fits, RowHas
        <4>2. Opened(g) => Opened(g)'
          BY <2>0, <2>4, <3>2 DEF Opened
        <4> QED BY <4>1, <4>2
      <3> QED BY <3>1, <3>2
    <2>7. ASSUME NEW d \in ArtBuild, plan'[d] # None, NEW g \in File
          PROVE  IF plan'[d][g] = None THEN Fits(round.source, g)' \/ Opened(g)'
                 ELSE RowHas(round.source, g, plan[d][g])'
      <3>1. CASE d = b /\ g = f
        BY <2>4, <2>5, <3>1
      <3>2. CASE ~ (d = b /\ g = f)
        <4>1. plan'[d][g] = plan[d][g] /\ plan[d] # None
          BY <2>1, <2>4, <2>7, <3>2
        <4> QED BY <1>1, <1>3, <2>1, <2>6, <4>1 DEF RoundOK, RowHas
      <3> QED BY <3>1, <3>2
    <2>8. ASSUME NEW d \in ArtBuild, writing'[d] # None
          PROVE  artwork'[writing'[d]] \in {None, plan'[d][writing'[d]]}
      <3>1. d # b /\ writing'[d] = writing[d] /\ plan'[d] = plan[d] /\ writing[d] \in File
        BY <1>1, <2>4, <2>8 DEF TypeOK
      <3>2. CASE writing[d] = f
        <4>1. plan[d] # None /\ plan[d][f] # None
          BY <1>1, <2>8, <3>1, <3>2 DEF WritingOK
        <4>2. RowHas(round.source, f, plan[d][f])
          BY <1>1, <1>3, <2>1, <4>1 DEF RoundOK
        <4> QED BY <2>2, <2>4, <3>1, <3>2, <4>2 DEF RowHas
      <3>3. CASE writing[d] # f
        BY <1>1, <1>3, <2>1, <2>4, <2>8, <3>1, <3>3 DEF RoundOK
      <3> QED BY <3>2, <3>3
    <2>9. round'.done => \A g \in File : Fits(round.source, g)' \/ Opened(g)'
      BY <1>1, <1>3, <2>1, <2>6 DEF RoundOK
    <2> QED BY <2>4, <2>7, <2>8, <2>9 DEF RoundOK, RowHas
  <1>7. ASSUME NEW b \in ArtBuild, FinishBuild(b) PROVE RoundOK'
    <2>1. /\ plan[b] # None /\ \A f \in File : plan[b][f] = None
          /\ plan' = [plan EXCEPT ![b] = None] /\ UNCHANGED <<writing, artwork>>
          /\ round'.source = round.source
      BY <1>1, <1>7 DEF FinishBuild, TypeOK
    <2>2. /\ \A f \in File : Fits(round.source, f)' <=> Fits(round.source, f)
          /\ \A f \in File : Opened(f)' <=> Opened(f)
      BY <2>1 DEF Fits, Opened, RowHas
    <2>3. \A f \in File : Fits(round.source, f)' \/ Opened(f)'
      BY <1>1, <1>3, <2>1, <2>2 DEF RoundOK
    <2>4. \A d \in ArtBuild : plan'[d] # None => plan'[d] = plan[d]
      BY <1>1, <2>1 DEF TypeOK
    <2>5. \A d \in ArtBuild : writing'[d] # None => plan'[d] = plan[d]
      BY <1>1, <2>1 DEF TypeOK, WritingOK
    <2> QED BY <1>1, <1>3, <2>1, <2>2, <2>3, <2>4, <2>5 DEF RoundOK, RowHas
  <1>8. ASSUME NEW b \in ArtBuild, AbandonBuild(b) PROVE RoundOK'
    <2>1. /\ writing[b] = None /\ plan' = [plan EXCEPT ![b] = None]
          /\ UNCHANGED <<artwork, round>> /\ writing' = writing
      BY <1>1, <1>3, <1>8 DEF AbandonBuild, TypeOK
    <2>2. /\ \A f \in File : Fits(round.source, f)' <=> Fits(round.source, f)
          /\ \A f \in File : Opened(f)' <=> Opened(f)
      BY <2>1 DEF Fits, Opened, RowHas
    <2>3. \A d \in ArtBuild : plan'[d] # None => plan'[d] = plan[d]
      BY <1>1, <2>1 DEF TypeOK
    <2>4. \A d \in ArtBuild : writing'[d] # None => plan'[d] = plan[d]
      BY <1>1, <2>1 DEF TypeOK
    <2> QED BY <1>1, <1>3, <2>1, <2>2, <2>3, <2>4 DEF RoundOK, RowHas
  <1>9. CASE UNCHANGED builder
    <2>1. /\ \A f \in File : Fits(round.source, f)' <=> Fits(round.source, f)
          /\ \A f \in File : Opened(f)' <=> Opened(f)
      BY <1>9 DEF Fits, Opened, RowHas
    <2> QED BY <1>1, <1>3, <1>9, <2>1 DEF RoundOK, RowHas
  <1> QED
    BY <1>4, <1>5, <1>6, <1>7, <1>8, <1>9
       DEF Next, vars, Search, Lock, ReadPrevious, Replace, Report, Fail, List, Open

\* Every step keeps the invariant.
LEMMA Inductive == IInv /\ [Next]_vars => IInv'
  BY SoundStep, TypeStep, LockStep, WritingStep, RoundStep DEF IInv, BuildOK

\* It holds in every state.
LEMMA Invariance == Spec => []IInv
  <1>1. Init => IInv
    BY InitEstablishes
  <1> QED BY <1>1, Inductive, PTL DEF Spec

\* Catalogs, importers and builds are well formed for any products, searches and
\* bounds.
THEOREM TypeCorrect == Spec => []TypeOK
  <1>1. IInv => TypeOK
    BY DEF IInv
  <1> QED BY <1>1, Invariance, PTL

\* Identities are for ever, whatever imports overlap and wherever one stops: the
\* lock covers the reading of the previous document and its replacement, so that
\* each starts from the identities that the last one wrote.
THEOREM IdentitiesStay == Spec => IdentityIsForever
  <1> DEFINE Keeps ==
        LET known == Known(catalog)
            after == Known(catalog)' IN
        /\ \A c \in DOMAIN known : c \in DOMAIN after /\ after[c] = known[c]
        /\ \A c, d \in DOMAIN after : after[c] = after[d] => c = d
  <1>1. ASSUME IInv, [Next]_vars PROVE Keeps
    <2>1. Sound(catalog) /\ Sound(catalog)'
      BY <1>1, SoundStep DEF IInv
    <2>2. CASE UNCHANGED catalog
      <3>1. Known(catalog)' = Known(catalog)
        BY <2>2 DEF Known, CodesOf
      <3> QED BY <2>1, <3>1, KnownFacts
    <2>3. CASE \E p \in Importer : Replace(p)
      <3>1. PICK p \in Importer : Replace(p)
        BY <2>3
      <3>2. FoundOK(found[p]) /\ Known(catalog)' = Registry(catalog, found[p])
        BY <1>1, <3>1, ReplaceFacts
      <3> DEFINE R == Registry(catalog, found[p])
                 K == Known(catalog)
      <3>3. /\ R \in [DOMAIN K \cup Item(found[p]) -> Nat]
            /\ \A c \in DOMAIN K : R[c] = K[c]
            /\ \A c, d \in DOMAIN R : R[c] = R[d] => c = d
        BY <2>1, <3>2, RegistryFacts
      <3> HIDE DEF R, K
      <3>4. /\ \A c \in DOMAIN K : c \in DOMAIN R /\ R[c] = K[c]
            /\ \A c, d \in DOMAIN R : R[c] = R[d] => c = d
        BY <3>3
      <3> QED BY <3>2, <3>4 DEF R, K
    <2> QED BY <1>1, <2>2, <2>3 DEF Next, vars, Search, Lock, ReadPrevious, Report, Fail,
          StartBuild, OpenFile, WriteFile, FinishBuild, AbandonBuild, List, Open, importers,
          builder
  <1>2. IInv /\ [Next]_vars => [Keeps]_vars
    BY <1>1
  <1>3. Spec => [][Keeps]_vars
    BY <1>2, Invariance, PTL DEF Spec
  <1> QED BY <1>3 DEF IdentityIsForever

\* When builds that overlapped have ended, the files that they wrote fit the pages, for
\* any number of builds of one catalog, in any order of their openings and writes.
THEOREM ArtworkFits == Spec => []CardsFitPages
  <1>1. IInv => CardsFitPages
    <2> SUFFICES ASSUME IInv, Resting, round.done, round.source = catalog,
                        NEW x \in PageNames, NEW k \in {1, 2},
                        x[1] <= MaxShown, x[2] \in Pictured
                 PROVE  artwork[<<x[1], k>>] = x[2]
      BY DEF CardsFitPages
    <2>1. catalog \in Document /\ round.source # None
      BY NoneAssumption DEF IInv, TypeOK
    <2>2. PICK n \in DOMAIN catalog.products : x = <<n, catalog.products[n].item_code>>
      BY DEF PageNames
    <2>3. <<n, k>> \in File
      <3>1. n \in 1 .. Len(catalog.products) /\ Len(catalog.products) \in Nat
        BY <2>1, <2>2, DocumentFacts
      <3> QED BY <2>2, <3>1, BoundsAssumption DEF File
    <2>4. ~ Opened(<<n, k>>)
      BY <2>3, NoneAssumption DEF IInv, BuildOK, WritingOK, Resting, Opened
    <2>5. Fits(catalog, <<n, k>>)
      BY <2>1, <2>3, <2>4 DEF IInv, BuildOK, RoundOK
    <2> QED BY <2>2, <2>5 DEF Fits, RowHas
  <1> QED BY <1>1, Invariance, PTL

------------------------------------------------------------------------------
(* the area codes *)

\* A run keeps every code of the registry that it has read.
LEMMA CodesStay ==
  ASSUME NEW reg, NEW wanted, NEW t \in DOMAIN reg
  PROVE  t \in DOMAIN Areas!Assign(reg, wanted) /\ Areas!Assign(reg, wanted)[t] = reg[t]
  BY DEF Areas!Assign

\* A saved code resolves to its town for any towns, builders and numbers of codes,
\* as long as no two runs of the tool have overlapped: only a run that writes over
\* another registry than it has read can drop a code.
THEOREM LossNeedsTwoRuns == SuiteSpec => []LossNeedsOverlap
  <1> USE DEF Areas!LossNeedsOverlap, Areas!history, Areas!builders
  <1>1. Areas!Init => Areas!LossNeedsOverlap
    BY DEF Areas!Init
  <1>2. Areas!LossNeedsOverlap /\ [Areas!Next]_Areas!vars => Areas!LossNeedsOverlap'
    <2> SUFFICES ASSUME Areas!LossNeedsOverlap, [Areas!Next]_Areas!vars, ~ overlapped'
                 PROVE  \A x \in saved' : x[2] \in DOMAIN registry' /\ registry'[x[2]] = x[1]
      OBVIOUS
    <2>1. CASE \E b \in Builder : Areas!Write(b)
      <3>1. PICK b \in Builder : Areas!Write(b)
        BY <2>1
      <3>2. /\ ~ overlapped /\ saved' = saved
            /\ registry' = Areas!Assign(registry, requested[b])
        BY <3>1 DEF Areas!Write
      <3> QED BY <3>2, CodesStay
    <2>2. CASE Areas!Save
      <3>1. ~ overlapped /\ UNCHANGED registry
        BY <2>2 DEF Areas!Save
      <3>2. PICK t \in DOMAIN registry : saved' = saved \cup {<<registry[t], t>>}
        BY <2>2 DEF Areas!Save
      <3> QED BY <3>1, <3>2
    <2>3. CASE UNCHANGED <<registry, saved, overlapped>>
      BY <2>3
    <2> QED BY <2>1, <2>2, <2>3 DEF Areas!Next, Areas!vars, Areas!ReadTowns,
          Areas!ReadRegistry, Areas!Lock, Areas!Fail, Areas!RefreshTowns
  <1>3. SuiteInit => LossNeedsOverlap
    BY <1>1, PartSteps DEF LossNeedsOverlap
  <1>4. LossNeedsOverlap /\ [SuiteNext]_suite => LossNeedsOverlap'
    BY <1>2, PartSteps DEF LossNeedsOverlap
  <1> QED BY <1>3, <1>4, PTL DEF SuiteSpec

------------------------------------------------------------------------------
(* the weather capture *)

Stored(n) == {Captures!Resources[i] : i \in 1 .. n}

\* A response that was accepted, beside its body.
Evidence(r) ==
  LET m == directory.metadata[r] times == directory.body[r] IN
  /\ m.complete /\ m.ended - m.started <= CaptureTimeout
  /\ times # {} /\ times \subseteq Nat /\ \A t \in times : t <= m.ended
  /\ r = "point" => \A t \in times :
       t <= Captures!TheLatest /\ Captures!Window(t) = Captures!Window(Captures!TheLatest)

AllEvidence ==
  /\ directory.body \in [Captures!Resource -> SUBSET Nat]
  /\ DOMAIN directory.metadata = Captures!Resource
  /\ \A r \in Captures!Resource : Evidence(r)

Fields == {"made", "body", "metadata", "pending", "records", "manifest"}

Asking == {"request", "fetch", "body", "metadata"}

\* Nothing is published while there is still something to ask for.
AskingOK ==
  capture.pc \in Asking =>
    /\ capture.next \in 1 .. 4
    /\ directory.manifest = None /\ directory.records = None /\ ~ directory.pending
    /\ DOMAIN directory.metadata = Stored(capture.next - 1)
    /\ directory.body \in [Stored(IF capture.pc = "metadata" THEN capture.next
                                                              ELSE capture.next - 1)
                             -> SUBSET Nat]
    /\ \A r \in Stored(capture.next - 1) : Evidence(r)

\* A point file is of the window that it was asked for.
AnswerOK ==
  /\ capture.pc \in {"body", "metadata"} =>
       /\ DOMAIN capture = {"pc", "next", "body", "metadata"}
       /\ capture.body \subseteq Nat
       /\ Captures!Name = "point" => \A t \in capture.body :
            Captures!Window(t) = Captures!Window(Captures!TheLatest)
  /\ capture.pc = "metadata" => directory.body[Captures!Name] = capture.body

\* The record appears with the whole of its evidence, and the manifest says so.
RecordOK ==
  /\ capture.pc \in {"pending", "rename"} =>
       AllEvidence /\ directory.manifest = None /\ directory.records = None
  /\ capture.pc = "manifest" =>
       /\ directory.manifest = None /\ ~ directory.pending
       /\ capture.complete \in BOOLEAN /\ (capture.complete <=> directory.records # None)
  /\ directory.made /\ directory.records # None =>
       directory.records = directory.body /\ AllEvidence
  /\ directory.made /\ directory.manifest # None =>
       (directory.manifest <=> directory.records # None) /\ ~ directory.pending

CaptureTypeOK ==
  /\ weatherClock \in Nat
  /\ directory.made \in BOOLEAN
  /\ directory.made => DOMAIN directory = Fields
  /\ capture.pc \in {"idle", "done"} \cup Asking \cup {"pending", "rename", "manifest"}
  /\ capture.pc \notin {"idle", "done"} => directory.made

CaptureInv == CaptureTypeOK /\ AskingOK /\ AnswerOK /\ RecordOK

\* The four requests in their order.
LEMMA ResourceFacts ==
  /\ Captures!Resources[1] = "forecast" /\ Captures!Resources[2] = "latest"
  /\ Captures!Resources[3] = "stations" /\ Captures!Resources[4] = "point"
  /\ Len(Captures!Resources) = 4
  /\ Captures!Resource = {"forecast", "latest", "stations", "point"}
  /\ Stored(0) = {} /\ Stored(1) = {"forecast"} /\ Stored(2) = {"forecast", "latest"}
  /\ Stored(3) = {"forecast", "latest", "stations"}
  /\ Stored(4) = Captures!Resource
  BY DEF Captures!Resources, Captures!Resource, Stored

\* Evidence stays what it is while its two files and the latest time stay.
LEMMA EvidenceStays ==
  ASSUME NEW r, Evidence(r), directory'.metadata[r] = directory.metadata[r],
         directory'.body[r] = directory.body[r],
         r = "point" => directory'.body["latest"] = directory.body["latest"]
  PROVE  Evidence(r)'
  BY DEF Evidence, Captures!TheLatest, Captures!Window

\* Nothing changes while a step leaves the files alone and asks for no other.
LEMMA SameDirectory ==
  ASSUME UNCHANGED directory
  PROVE  /\ AllEvidence => AllEvidence'
         /\ \A r : Evidence(r) => Evidence(r)'
  BY DEF AllEvidence, Evidence, Captures!TheLatest, Captures!Window

\* A capture begins in a directory of its own.
LEMMA CaptureBegins ==
  ASSUME CaptureInv, Captures!Begin
  PROVE  CaptureInv'
  <1>1. /\ directory' = Captures!NewDirectory /\ capture' = [pc |-> "request", next |-> 1]
        /\ weatherClock' = weatherClock
    BY DEF Captures!Begin
  <1>2. /\ directory'.made /\ directory'.made \in BOOLEAN /\ DOMAIN directory' = Fields
        /\ directory'.manifest = None /\ directory'.records = None
        /\ ~ directory'.pending
        /\ DOMAIN directory'.metadata = {} /\ directory'.body \in [{} -> SUBSET Nat]
    BY <1>1 DEF Captures!NewDirectory, Fields
  <1>3. capture'.pc = "request" /\ capture'.next = 1
    BY <1>1
  <1>4. CaptureTypeOK'
    BY <1>1, <1>2, <1>3 DEF CaptureInv, CaptureTypeOK, Asking
  <1>5. AskingOK'
    BY <1>2, <1>3, ResourceFacts DEF AskingOK, Asking
  <1> QED BY <1>2, <1>3, <1>4, <1>5 DEF CaptureInv, AnswerOK, RecordOK

\* A request is sent.
LEMMA CaptureRequests ==
  ASSUME CaptureInv, Captures!Request
  PROVE  CaptureInv'
  <1>1. /\ capture.pc = "request" /\ UNCHANGED <<directory, weatherClock>>
        /\ capture'.pc = "fetch" /\ capture'.next = capture.next
    BY DEF Captures!Request
  <1>2. CaptureTypeOK'
    BY <1>1 DEF CaptureInv, CaptureTypeOK, Asking
  <1>3. AskingOK'
    BY <1>1, SameDirectory DEF CaptureInv, AskingOK, Asking
  <1>4. RecordOK'
    BY <1>1, SameDirectory DEF CaptureInv, RecordOK, CaptureTypeOK
  <1> QED BY <1>1, <1>2, <1>3, <1>4 DEF CaptureInv, AnswerOK

\* An answer comes, in time or late.
LEMMA CaptureFetches ==
  ASSUME CaptureInv, Captures!Fetch
  PROVE  CaptureInv'
  <1>1. PICK whole \in BOOLEAN, answer \in Captures!Answers(Captures!Name) :
          capture' = [pc |-> "body", next |-> capture.next,
                      body |-> IF whole THEN answer ELSE {},
                      metadata |-> [started |-> capture.started, ended |-> weatherClock,
                                    complete |-> whole]]
    BY DEF Captures!Fetch
  <1>2. /\ capture.pc = "fetch" /\ UNCHANGED <<directory, weatherClock>>
        /\ capture'.pc = "body" /\ capture'.next = capture.next
        /\ capture'.body = (IF whole THEN answer ELSE {})
        /\ DOMAIN capture' = {"pc", "next", "body", "metadata"}
    BY <1>1 DEF Captures!Fetch
  <1>3. Captures!Name \in Captures!Resource
    BY <1>2, ResourceFacts DEF Captures!Name, CaptureInv, AskingOK, Asking
  <1>4. Captures!Published \subseteq Nat
    BY CaptureAssumption DEF Captures!Published, CaptureInv, CaptureTypeOK
  <1>5. /\ answer \subseteq Nat
        /\ Captures!Name = "point" => \A t \in answer :
             Captures!Window(t) = Captures!Window(Captures!TheLatest)
    <2>1. CASE Captures!Name \in {"forecast", "latest"}
      BY <1>4, <2>1 DEF Captures!Answers
    <2>2. CASE Captures!Name = "stations"
      BY <2>2 DEF Captures!Answers
    <2>3. CASE Captures!Name = "point"
      BY <1>4, <2>3 DEF Captures!Answers
    <2> QED BY <1>3, <2>1, <2>2, <2>3, ResourceFacts
  <1>6. CaptureTypeOK'
    BY <1>2 DEF CaptureInv, CaptureTypeOK, Asking
  <1>7. AskingOK'
    BY <1>2, SameDirectory DEF CaptureInv, AskingOK, Asking
  <1>8. AnswerOK'
    <2>1. Captures!Name' = Captures!Name /\ Captures!TheLatest' = Captures!TheLatest
      BY <1>2 DEF Captures!Name, Captures!TheLatest
    <2>2. capture'.body \subseteq Nat
          /\ (Captures!Name = "point" => \A t \in capture'.body :
                Captures!Window(t) = Captures!Window(Captures!TheLatest))
      BY <1>2, <1>5
    <2> QED BY <1>2, <2>1, <2>2 DEF AnswerOK, Captures!Window
  <1>9. RecordOK'
    BY <1>2, SameDirectory DEF CaptureInv, RecordOK, CaptureTypeOK
  <1> QED BY <1>6, <1>7, <1>8, <1>9 DEF CaptureInv

\* The resource that is asked for is not among those that were accepted, and comes
\* next to them.
LEMMA NextResource ==
  ASSUME CaptureInv, capture.pc \in Asking
  PROVE  /\ capture.next \in 1 .. 4
         /\ Captures!Name \notin Stored(capture.next - 1)
         /\ Stored(capture.next) = Stored(capture.next - 1) \cup {Captures!Name}
         /\ "point" \notin Stored(capture.next - 1)
         /\ Captures!Name = "point" <=> capture.next = 4
         /\ capture.next = 4 => "latest" \in Stored(capture.next - 1)
  <1>1. capture.next \in 1 .. 4
    BY DEF CaptureInv, AskingOK
  <1> QED BY <1>1, ResourceFacts DEF Captures!Name

\* The body is stored, without its metadata yet.
LEMMA CaptureStoresBody ==
  ASSUME CaptureInv, Captures!StoreBody
  PROVE  CaptureInv'
  <1> DEFINE body == [r \in DOMAIN directory.body \cup {Captures!Name} |->
                        IF r = Captures!Name THEN capture.body ELSE directory.body[r]]
  <1>1. /\ capture.pc = "body" /\ weatherClock' = weatherClock
        /\ directory' = [directory EXCEPT !.body = body]
        /\ capture' = [capture EXCEPT !.pc = "metadata"]
    BY DEF Captures!StoreBody
  <1>2. directory.made /\ DOMAIN directory = Fields
    BY <1>1 DEF CaptureInv, CaptureTypeOK
  <1>3. /\ DOMAIN directory' = Fields /\ directory'.body = body
        /\ directory'.made = directory.made /\ directory'.metadata = directory.metadata
        /\ directory'.pending = directory.pending /\ directory'.records = directory.records
        /\ directory'.manifest = directory.manifest
    <2> HIDE DEF body
    <2> QED BY <1>1, <1>2 DEF Fields
  <1>4. /\ DOMAIN capture' = {"pc", "next", "body", "metadata"}
        /\ capture'.pc = "metadata" /\ capture'.next = capture.next
        /\ capture'.body = capture.body
    BY <1>1 DEF CaptureInv, AnswerOK
  <1>5. /\ body = [r \in DOMAIN body |-> body[r]]
        /\ DOMAIN body = DOMAIN directory.body \cup {Captures!Name}
        /\ body[Captures!Name] = capture.body
        /\ \A r \in DOMAIN directory.body : r # Captures!Name => body[r] = directory.body[r]
    OBVIOUS
  <1> HIDE DEF body
  <1>6. /\ directory.body \in [Stored(capture.next - 1) -> SUBSET Nat]
        /\ directory.manifest = None /\ directory.records = None /\ ~ directory.pending
        /\ DOMAIN directory.metadata = Stored(capture.next - 1)
        /\ \A r \in Stored(capture.next - 1) : Evidence(r)
    BY <1>1 DEF CaptureInv, AskingOK, Asking
  <1>7. CaptureTypeOK'
    BY <1>1, <1>2, <1>3, <1>4 DEF CaptureInv, CaptureTypeOK, Asking
  <1>8. \A r \in Stored(capture.next - 1) : Evidence(r)'
    <2> TAKE r \in Stored(capture.next - 1)
    <2>1. r # Captures!Name /\ r # "point"
      BY <1>1, NextResource DEF Asking
    <2>2. directory'.body[r] = directory.body[r]
      BY <1>3, <1>5, <1>6, <2>1
    <2> QED BY <1>3, <1>6, <2>1, <2>2, EvidenceStays
  <1>9. AskingOK'
    <2>1. capture.body \subseteq Nat
      BY <1>1 DEF CaptureInv, AnswerOK
    <2>2. body \in [Stored(capture.next) -> SUBSET Nat]
      <3>1. DOMAIN body = Stored(capture.next)
        BY <1>1, <1>5, <1>6, NextResource DEF Asking
      <3>2. \A r \in DOMAIN body : body[r] \in SUBSET Nat
        BY <1>5, <1>6, <2>1
      <3> QED BY <1>5, <3>1, <3>2
    <2>3. capture.next \in 1 .. 4
      BY <1>1, NextResource DEF Asking
    <2> QED BY <1>3, <1>4, <1>6, <1>8, <2>2, <2>3 DEF AskingOK, Asking
  <1>10. AnswerOK'
    <2>1. Captures!Name' = Captures!Name
      BY <1>4 DEF Captures!Name
    <2>2. Captures!Name = "point" => Captures!TheLatest' = Captures!TheLatest
      <3>1. Captures!Name = "point" => directory'.body["latest"] = directory.body["latest"]
        BY <1>1, <1>3, <1>5, <1>6, NextResource DEF Asking
      <3> QED BY <3>1 DEF Captures!TheLatest
    <2>3. /\ capture.body \subseteq Nat
          /\ Captures!Name = "point" => \A t \in capture.body :
               Captures!Window(t) = Captures!Window(Captures!TheLatest)
      BY <1>1 DEF CaptureInv, AnswerOK
    <2>4. directory'.body[Captures!Name] = capture.body
      BY <1>3, <1>5
    <2> QED BY <1>4, <2>1, <2>2, <2>3, <2>4 DEF AnswerOK, Captures!Window
  <1>11. RecordOK'
    BY <1>3, <1>4, <1>6 DEF RecordOK
  <1> QED BY <1>7, <1>9, <1>10, <1>11 DEF CaptureInv

\* The metadata follow, and with the last the evidence is complete.
LEMMA CaptureStoresMetadata ==
  ASSUME CaptureInv, Captures!StoreMetadata
  PROVE  CaptureInv'
  <1> DEFINE m == capture.metadata
             metadata == [r \in DOMAIN directory.metadata \cup {Captures!Name} |->
                            IF r = Captures!Name THEN m ELSE directory.metadata[r]]
             accepted == Captures!InTime(m)
                           /\ Captures!Parses(Captures!Name, capture.body, m.ended)
  <1>1. /\ capture.pc = "metadata" /\ weatherClock' = weatherClock
        /\ directory' = [directory EXCEPT !.metadata = metadata]
        /\ capture' = IF ~ accepted THEN [pc |-> "manifest", complete |-> FALSE]
                      ELSE IF capture.next = Len(Captures!Resources) THEN [pc |-> "pending"]
                      ELSE [pc |-> "request", next |-> capture.next + 1]
    BY DEF Captures!StoreMetadata
  <1>2. directory.made /\ DOMAIN directory = Fields
    BY <1>1 DEF CaptureInv, CaptureTypeOK
  <1>3. /\ DOMAIN directory' = Fields /\ directory'.metadata = metadata
        /\ directory'.made = directory.made /\ directory'.body = directory.body
        /\ directory'.pending = directory.pending /\ directory'.records = directory.records
        /\ directory'.manifest = directory.manifest
    <2> HIDE DEF metadata
    <2> QED BY <1>1, <1>2 DEF Fields
  <1>4. /\ DOMAIN metadata = DOMAIN directory.metadata \cup {Captures!Name}
        /\ metadata[Captures!Name] = m
        /\ \A r \in DOMAIN directory.metadata :
             r # Captures!Name => metadata[r] = directory.metadata[r]
    OBVIOUS
  <1> HIDE DEF metadata
  <1>5. /\ directory.body \in [Stored(capture.next) -> SUBSET Nat]
        /\ directory.manifest = None /\ directory.records = None /\ ~ directory.pending
        /\ DOMAIN directory.metadata = Stored(capture.next - 1)
        /\ \A r \in Stored(capture.next - 1) : Evidence(r)
    BY <1>1 DEF CaptureInv, AskingOK, Asking
  <1>6. DOMAIN metadata = Stored(capture.next)
    BY <1>1, <1>4, <1>5, NextResource DEF Asking
  <1>7. \A r \in Stored(capture.next - 1) : Evidence(r)'
    <2> TAKE r \in Stored(capture.next - 1)
    <2>1. r # Captures!Name
      BY <1>1, NextResource DEF Asking
    <2>2. directory'.metadata[r] = directory.metadata[r]
      BY <1>3, <1>4, <1>5, <2>1
    <2> QED BY <1>3, <1>5, <2>2, EvidenceStays
  <1>8. CASE ~ accepted
    <2>1. capture'.pc = "manifest" /\ capture'.complete = FALSE
      BY <1>1, <1>8
    <2> QED BY <1>1, <1>2, <1>3, <1>5, <2>1
          DEF CaptureInv, CaptureTypeOK, AskingOK, AnswerOK, RecordOK, Asking
  <1>9. CASE accepted
    <2>1. \A r \in {Captures!Name} : Evidence(r)'
      <3> TAKE r \in {Captures!Name}
      <3>1. directory'.metadata[r] = m /\ directory'.body[r] = capture.body
        BY <1>1, <1>3, <1>4 DEF CaptureInv, AnswerOK
      <3>2. Captures!TheLatest' = Captures!TheLatest
        BY <1>3 DEF Captures!TheLatest
      <3>3. /\ m.complete /\ m.ended - m.started <= CaptureTimeout
            /\ capture.body # {} /\ \A t \in capture.body : t <= m.ended
            /\ r = "point" => \A t \in capture.body : t <= Captures!TheLatest
        BY <1>9 DEF Captures!InTime, Captures!Parses
      <3>4. /\ capture.body \subseteq Nat
            /\ r = "point" => \A t \in capture.body :
                 Captures!Window(t) = Captures!Window(Captures!TheLatest)
        BY <1>1 DEF CaptureInv, AnswerOK
      <3> HIDE DEF m
      <3> QED BY <3>1, <3>2, <3>3, <3>4 DEF Evidence, Captures!Window
    <2>2. \A r \in Stored(capture.next) : Evidence(r)'
      BY <1>1, <1>7, <2>1, NextResource DEF Asking
    <2>3. CASE capture.next = 4
      <3>1. capture'.pc = "pending"
        BY <1>1, <1>9, <2>3, ResourceFacts
      <3>2. Stored(capture.next) = Captures!Resource
        BY <2>3, ResourceFacts
      <3>3. AllEvidence'
        BY <1>3, <1>5, <1>6, <2>2, <3>2
           DEF AllEvidence, Captures!Resource, Captures!Resources
      <3> QED BY <1>1, <1>2, <1>3, <1>5, <3>1, <3>3
            DEF CaptureInv, CaptureTypeOK, AskingOK, AnswerOK, RecordOK, Asking
    <2>4. CASE capture.next # 4
      <3>1. capture'.pc = "request" /\ capture'.next = capture.next + 1
        BY <1>1, <1>9, <2>4, ResourceFacts
      <3>2. capture'.next \in 1 .. 4 /\ capture'.next - 1 = capture.next
        BY <1>1, <2>4, <3>1, NextResource DEF Asking
      <3>3. CaptureTypeOK'
        BY <1>1, <1>2, <1>3, <3>1 DEF CaptureInv, CaptureTypeOK, Asking
      <3>4. AskingOK'
        BY <1>3, <1>5, <1>6, <2>2, <3>1, <3>2 DEF AskingOK, Asking
      <3> QED BY <1>3, <1>5, <3>1, <3>3, <3>4 DEF CaptureInv, AnswerOK, RecordOK
    <2> QED BY <2>3, <2>4
  <1> QED BY <1>8, <1>9

\* The records are written under a pending name.
LEMMA CaptureWritesPending ==
  ASSUME CaptureInv, Captures!WritePending
  PROVE  CaptureInv'
  <1>1. /\ capture.pc = "pending" /\ weatherClock' = weatherClock
        /\ directory' = [directory EXCEPT !.pending = TRUE]
        /\ capture'.pc = "rename"
    BY DEF Captures!WritePending
  <1>2. directory.made /\ DOMAIN directory = Fields
    BY <1>1 DEF CaptureInv, CaptureTypeOK
  <1>3. /\ DOMAIN directory' = Fields /\ directory'.body = directory.body
        /\ directory'.made = directory.made /\ directory'.metadata = directory.metadata
        /\ directory'.records = directory.records /\ directory'.manifest = directory.manifest
    BY <1>1, <1>2 DEF Fields
  <1>4. AllEvidence /\ directory.manifest = None /\ directory.records = None
    BY <1>1 DEF CaptureInv, RecordOK
  <1>5. AllEvidence'
    BY <1>3, <1>4 DEF AllEvidence, Evidence, Captures!TheLatest, Captures!Window
  <1> QED BY <1>1, <1>2, <1>3, <1>4, <1>5
        DEF CaptureInv, CaptureTypeOK, AskingOK, AnswerOK, RecordOK, Asking

\* The pending file becomes the records.
LEMMA CaptureRenames ==
  ASSUME CaptureInv, Captures!Rename
  PROVE  CaptureInv'
  <1> DEFINE records == [r \in Captures!Resource |-> directory.body[r]]
  <1>1. /\ capture.pc = "rename" /\ weatherClock' = weatherClock
        /\ directory' = [directory EXCEPT !.pending = FALSE, !.records = records]
        /\ capture'.pc = "manifest" /\ capture'.complete = TRUE
    BY DEF Captures!Rename
  <1>2. directory.made /\ DOMAIN directory = Fields
    BY <1>1 DEF CaptureInv, CaptureTypeOK
  <1>3. /\ DOMAIN directory' = Fields /\ directory'.body = directory.body
        /\ directory'.made = directory.made /\ directory'.metadata = directory.metadata
        /\ ~ directory'.pending
        /\ directory'.records = records /\ directory'.manifest = directory.manifest
    <2> HIDE DEF records
    <2> QED BY <1>1, <1>2 DEF Fields
  <1>4. AllEvidence /\ directory.manifest = None
    BY <1>1 DEF CaptureInv, RecordOK
  <1>5. AllEvidence'
    BY <1>3, <1>4 DEF AllEvidence, Evidence, Captures!TheLatest, Captures!Window
  <1>6. records # None
    <2>1. records \in [Captures!Resource -> SUBSET Nat]
      BY <1>4 DEF AllEvidence
    <2> HIDE DEF records
    <2> QED BY <2>1, CaptureAssumption
  <1>7. records = directory'.body
    BY <1>3, <1>4 DEF AllEvidence
  <1> QED BY <1>1, <1>2, <1>3, <1>4, <1>5, <1>6, <1>7
        DEF CaptureInv, CaptureTypeOK, AskingOK, AnswerOK, RecordOK, Asking

\* The manifest comes last.
LEMMA CaptureWritesManifest ==
  ASSUME CaptureInv, Captures!WriteManifest
  PROVE  CaptureInv'
  <1>1. /\ capture.pc = "manifest" /\ weatherClock' = weatherClock
        /\ directory' = [directory EXCEPT !.manifest = capture.complete]
        /\ capture'.pc = "done"
    BY DEF Captures!WriteManifest
  <1>2. directory.made /\ DOMAIN directory = Fields
    BY <1>1 DEF CaptureInv, CaptureTypeOK
  <1>3. /\ DOMAIN directory' = Fields /\ directory'.body = directory.body
        /\ directory'.made = directory.made /\ directory'.metadata = directory.metadata
        /\ directory'.pending = directory.pending /\ directory'.records = directory.records
        /\ directory'.manifest = capture.complete
    BY <1>1, <1>2 DEF Fields
  <1>4. /\ ~ directory.pending /\ capture.complete \in BOOLEAN
        /\ capture.complete <=> directory.records # None
    BY <1>1 DEF CaptureInv, RecordOK
  <1>5. AllEvidence => AllEvidence'
    BY <1>3 DEF AllEvidence, Evidence, Captures!TheLatest, Captures!Window
  <1> QED BY <1>1, <1>2, <1>3, <1>4, <1>5
        DEF CaptureInv, CaptureTypeOK, AskingOK, AnswerOK, RecordOK, Asking

\* A failure ends the capture where it is.
LEMMA CaptureFails ==
  ASSUME CaptureInv, Captures!Fail
  PROVE  CaptureInv'
  <1>1. /\ capture.pc \in {"body", "metadata", "pending", "rename"}
        /\ weatherClock' = weatherClock
        /\ directory' = [directory EXCEPT !.pending = FALSE]
        /\ capture'.pc = "manifest" /\ capture'.complete = FALSE
    BY DEF Captures!Fail
  <1>2. directory.made /\ DOMAIN directory = Fields
    BY <1>1 DEF CaptureInv, CaptureTypeOK
  <1>3. /\ DOMAIN directory' = Fields /\ directory'.made = directory.made
        /\ ~ directory'.pending
        /\ directory'.records = directory.records /\ directory'.manifest = directory.manifest
    BY <1>1, <1>2 DEF Fields
  <1>4. directory.manifest = None /\ directory.records = None
    BY <1>1 DEF CaptureInv, AskingOK, RecordOK, Asking
  <1> QED BY <1>1, <1>2, <1>3, <1>4
        DEF CaptureInv, CaptureTypeOK, AskingOK, AnswerOK, RecordOK, Asking

\* So does a crash.
LEMMA CaptureDies ==
  ASSUME CaptureInv, Captures!Die
  PROVE  CaptureInv'
  <1>1. capture'.pc = "done" /\ UNCHANGED <<directory, weatherClock>>
    BY DEF Captures!Die
  <1> QED BY <1>1, SameDirectory
        DEF CaptureInv, CaptureTypeOK, AskingOK, AnswerOK, RecordOK, Asking

\* Time passes.
LEMMA CaptureWaits ==
  ASSUME CaptureInv, Captures!Tick \/ UNCHANGED Captures!vars
  PROVE  CaptureInv'
  <1>1. UNCHANGED <<directory, capture>>
    BY DEF Captures!Tick, Captures!vars
  <1>2. CaptureTypeOK'
    BY <1>1 DEF CaptureInv, CaptureTypeOK, Captures!Tick, Captures!vars
  <1>3. AskingOK'
    BY <1>1, SameDirectory DEF CaptureInv, AskingOK
  <1>4. AnswerOK'
    BY <1>1 DEF CaptureInv, AnswerOK, Captures!Name, Captures!TheLatest, Captures!Window
  <1>5. RecordOK'
    BY <1>1, SameDirectory DEF CaptureInv, RecordOK
  <1> QED BY <1>2, <1>3, <1>4, <1>5 DEF CaptureInv

\* An accepted weather record is of one moment and rests on evidence that came in
\* time, whatever the provider publishes while it is fetched and wherever the
\* capture fails or stops, for any window, timeout and clock.
THEOREM WeatherIsOfOneMoment ==
  SuiteSpec => []RecordsAreOneMoment
  <1>1. Captures!Init => CaptureInv
    BY DEF Captures!Init, Captures!NoDirectory, Captures!Idle, CaptureInv, CaptureTypeOK,
       AskingOK, AnswerOK, RecordOK, Asking
  <1>2. CaptureInv /\ [Captures!Next]_Captures!vars => CaptureInv'
    BY CaptureBegins, CaptureRequests, CaptureFetches, CaptureStoresBody,
       CaptureStoresMetadata, CaptureWritesPending, CaptureRenames, CaptureWritesManifest,
       CaptureFails, CaptureDies, CaptureWaits DEF Captures!Next
  <1>3. CaptureInv => Captures!RecordsAreOneMoment
    <2> SUFFICES ASSUME CaptureInv PROVE Captures!RecordsAreOneMoment
      OBVIOUS
    <2>1. directory.made /\ directory.manifest # None =>
            (directory.manifest <=> directory.records # None) /\ ~ directory.pending
      BY DEF CaptureInv, RecordOK
    <2>2. ASSUME directory.made, directory.records # None
          PROVE  /\ directory.records = directory.body
                 /\ DOMAIN directory.metadata = Captures!Resource
                 /\ \A r \in Captures!Resource :
                      /\ directory.metadata[r].complete
                      /\ directory.metadata[r].ended - directory.metadata[r].started <= CaptureTimeout
                      /\ directory.body[r] # {}
                      /\ \A t \in directory.body[r] : t <= directory.metadata[r].ended
                 /\ \A t \in directory.body["point"] :
                      /\ t <= Captures!TheLatest
                      /\ Captures!Window(t) = Captures!Window(Captures!TheLatest)
      BY <2>2, ResourceFacts DEF CaptureInv, RecordOK, AllEvidence, Evidence
    <2> QED BY <2>1, <2>2 DEF Captures!RecordsAreOneMoment, Captures!TheLatest
  <1>4. SuiteInit => (active = "weather" => CaptureInv)
    BY <1>1, PartSteps
  <1>5. (active = "weather" => CaptureInv) /\ [SuiteNext]_suite
          => (active = "weather" => CaptureInv)'
    BY <1>2, PartSteps
  <1>6. (active = "weather" => CaptureInv) => RecordsAreOneMoment
    BY <1>3 DEF RecordsAreOneMoment
  <1> QED BY <1>4, <1>5, <1>6, PTL DEF SuiteSpec

------------------------------------------------------------------------------
(* The attempts of a set of rows.                                            *)

\* Among finite sets of numbers there is one that has none of the others as a part.
LEMMA SmallestPart ==
  ASSUME NEW S \in SUBSET Nat, IsFiniteSet(S), NEW B \in SUBSET SUBSET S, B # {}
  PROVE  \E T \in B : \A U \in SUBSET T : U # T => U \notin B
  <1>1. IsWellFoundedOn(StrictSubsetOrdering(S), SUBSET S)
    BY FS_StrictSubsetOrderingWellFounded, FS_FiniteSubsetsOfFinite
  <1>2. PICK T \in B : \A U \in B : ~ (<<U, T>> \in StrictSubsetOrdering(S))
    BY <1>1, WFMin
  <1> QED BY <1>2 DEF StrictSubsetOrdering

\* The sum that FirstReceiptAnswers is about, the element it takes first, and the
\* equation of the function that it is a value of.
Attempts(r, S) == MapThenSumSet(LAMBDA i : r[i].attempts, S)

Tries(r, i) == r[i].attempts

First(s) == CHOOSE x \in s : TRUE

Adds(r, S, g) ==
  g = [s \in SUBSET S |-> IF s = {} THEN 0 ELSE Tries(r, First(s)) + g[s \ {First(s)}]]

\* The sum is the value, at the whole set, of a function that adds up.
LEMMA ChosenSum ==
  ASSUME NEW r, NEW S
  PROVE  Attempts(r, S) = (CHOOSE g : Adds(r, S, g))[S]
  BY DEF Attempts, MapThenSumSet, MapThenFoldSet, Adds, First, Tries

\* The equation at one set.
LEMMA AddsValue ==
  ASSUME NEW r, NEW S, NEW g, Adds(r, S, g), NEW s \in SUBSET S
  PROVE  g[s] = IF s = {} THEN 0 ELSE Tries(r, First(s)) + g[s \ {First(s)}]
  BY DEF Adds

\* The element taken first is an element.
LEMMA FirstIsElement ==
  ASSUME NEW s, s # {}
  PROVE  First(s) \in s
  BY DEF First

\* Two such functions agree where both are defined, and on rows of the same
\* attempts.
LEMMA SumsAgree ==
  ASSUME NEW r, NEW q, NEW S \in SUBSET Nat, IsFiniteSet(S), NEW T \in SUBSET Nat,
         NEW g, NEW h, Adds(r, S, g), Adds(q, T, h),
         NEW U \in SUBSET (S \cap T), \A i \in U : Tries(r, i) = Tries(q, i)
  PROVE  g[U] = h[U]
  <1> DEFINE Bad == {V \in SUBSET U : g[V] # h[V]}
  <1> SUFFICES ASSUME Bad # {} PROVE FALSE
    OBVIOUS
  <1>1. PICK V \in Bad : \A W \in SUBSET V : W # V => W \notin Bad
    <2>1. Bad \in SUBSET SUBSET U /\ U \in SUBSET Nat
      OBVIOUS
    <2>2. IsFiniteSet(U)
      BY FS_Subset
    <2> HIDE DEF Bad
    <2> QED BY <2>1, <2>2, SmallestPart
  <1>2. V \in SUBSET S /\ V \in SUBSET T
    BY <1>1
  <1>3. CASE V = {}
    BY <1>1, <1>2, <1>3, AddsValue
  <1>4. CASE V # {}
    <2> DEFINE W == V \ {First(V)}
    <2>1. W \in SUBSET V /\ W # V /\ First(V) \in U
      BY <1>1, <1>4, FirstIsElement
    <2>2. g[W] = h[W]
      BY <2>1, <1>1, <1>2
    <2>3. g[V] = Tries(r, First(V)) + g[W]
      BY <1>2, <1>4 DEF Adds
    <2>4. h[V] = Tries(q, First(V)) + h[W]
      BY <1>2, <1>4 DEF Adds
    <2>5. Tries(r, First(V)) = Tries(q, First(V))
      BY <2>1
    <2> QED BY <1>1, <2>2, <2>3, <2>4, <2>5
  <1> QED BY <1>3, <1>4

\* There is one for every finite set of rows: a smallest set without one could take
\* its values from those of its parts.
LEMMA SumsExist ==
  ASSUME NEW r, NEW S \in SUBSET Nat, IsFiniteSet(S)
  PROVE  \E g : Adds(r, S, g)
  <1> DEFINE Bad == {T \in SUBSET S : ~ \E g : Adds(r, T, g)}
  <1> SUFFICES ASSUME Bad # {} PROVE FALSE
    OBVIOUS
  <1>1. PICK T \in Bad : \A U \in SUBSET T : U # T => U \notin Bad
    <2>1. Bad \in SUBSET SUBSET S
      OBVIOUS
    <2> HIDE DEF Bad
    <2> QED BY <2>1, SmallestPart
  <1>2. T \in SUBSET S /\ ~ \E g : Adds(r, T, g)
    BY <1>1
  <1> DEFINE Part(U) == (CHOOSE g : Adds(r, U, g))[U]
  <1>3. ASSUME NEW U \in SUBSET T, U # T
        PROVE  Part(U) = IF U = {} THEN 0 ELSE Tries(r, First(U)) + Part(U \ {First(U)})
    <2>1. U \in SUBSET S /\ \E g : Adds(r, U, g)
      BY <1>1, <1>2, <1>3
    <2> DEFINE gU == CHOOSE g : Adds(r, U, g)
    <2>2. Adds(r, U, gU)
      BY <2>1
    <2> HIDE DEF gU
    <2>3. gU[U] = IF U = {} THEN 0 ELSE Tries(r, First(U)) + gU[U \ {First(U)}]
      BY <2>2 DEF Adds
    <2>4. CASE U = {}
      BY <2>3, <2>4 DEF gU
    <2>5. CASE U # {}
      <3> DEFINE V == U \ {First(U)}
                 gV == CHOOSE g : Adds(r, V, g)
      <3>1. V \in SUBSET U /\ V # U
        BY <2>5, FirstIsElement
      <3>2. V \in SUBSET T /\ V # T /\ V \in SUBSET S
        BY <3>1, <1>2
      <3>3. \E g : Adds(r, V, g)
        BY <3>2, <1>1
      <3>4. Adds(r, V, gV)
        BY <3>3
      <3> HIDE DEF gV
      <3>5. gU[V] = gV[V]
        <4>1. V \in SUBSET (U \cap V) /\ U \in SUBSET Nat /\ V \in SUBSET Nat
          BY <2>1, <3>2
        <4>2. IsFiniteSet(U)
          BY <2>1, FS_Subset
        <4> HIDE DEF V
        <4>3. \A i \in V : Tries(r, i) = Tries(r, i)
          OBVIOUS
        <4> QED BY <4>1, <4>2, <4>3, <3>4, <2>2, SumsAgree, SMTT(40)
      <3> QED BY <3>5, <2>3, <2>5 DEF gV, gU
    <2> QED BY <2>4, <2>5
  <1> DEFINE f == [s \in SUBSET T |->
                     IF s # T THEN Part(s)
                     ELSE IF s = {} THEN 0
                          ELSE Tries(r, First(s)) + Part(s \ {First(s)})]
             f2 == [s \in SUBSET T |->
                     IF s = {} THEN 0 ELSE Tries(r, First(s)) + f[s \ {First(s)}]]
  <1> HIDE DEF Part
  <1>4. \A s \in SUBSET T : f[s] = f2[s]
    <2> TAKE s \in SUBSET T
    <2>1. CASE s = {}
      BY <2>1, <1>3
    <2>2. CASE s # {}
      <3>1. s \ {First(s)} \in SUBSET T /\ s \ {First(s)} # T
        BY <2>2, FirstIsElement
      <3>2. f[s \ {First(s)}] = Part(s \ {First(s)})
        BY <3>1
      <3> QED BY <3>2, <2>2, <1>3
    <2> QED BY <2>1, <2>2
  <1>5. f = [s \in SUBSET T |-> f[s]] /\ f2 = [s \in SUBSET T |-> f2[s]]
    OBVIOUS
  <1>6. f = f2
    <2> HIDE DEF f, f2
    <2> QED BY <1>4, <1>5
  <1>7. Adds(r, T, f)
    <2>1. f2 = [s \in SUBSET T |->
                 IF s = {} THEN 0 ELSE Tries(r, First(s)) + f[s \ {First(s)}]]
      OBVIOUS
    <2> HIDE DEF f, f2
    <2> QED BY <1>6, <2>1 DEF Adds
  <1> QED BY <1>2, <1>7

\* Rows of the same attempts have the same sum.
LEMMA AttemptsSame ==
  ASSUME NEW r, NEW q, NEW S \in SUBSET Nat, IsFiniteSet(S),
         \A i \in S : Tries(r, i) = Tries(q, i)
  PROVE  Attempts(r, S) = Attempts(q, S)
  <1> DEFINE g == CHOOSE k : Adds(r, S, k)
             h == CHOOSE k : Adds(q, S, k)
  <1>1. Adds(r, S, g) /\ Adds(q, S, h)
    BY SumsExist
  <1>2. Attempts(r, S) = g[S] /\ Attempts(q, S) = h[S]
    BY ChosenSum
  <1> HIDE DEF g, h
  <1>3. S \in SUBSET (S \cap S)
    OBVIOUS
  <1>4. g[S] = h[S]
    BY <1>1, <1>3, SumsAgree, SMTT(40)
  <1> QED BY <1>2, <1>4

\* What the sum is of no row, and of a row and the rest.
LEMMA AttemptsValue ==
  ASSUME NEW r, NEW S \in SUBSET Nat, IsFiniteSet(S)
  PROVE  Attempts(r, S) =
           IF S = {} THEN 0 ELSE Tries(r, First(S)) + Attempts(r, S \ {First(S)})
  <1> DEFINE g == CHOOSE k : Adds(r, S, k)
             T == S \ {First(S)}
             h == CHOOSE k : Adds(r, T, k)
  <1>1. Adds(r, S, g) /\ Adds(r, T, h)
    <2>1. T \in SUBSET Nat /\ T \subseteq S
      OBVIOUS
    <2>2. IsFiniteSet(T)
      BY <2>1, FS_Subset
    <2> HIDE DEF T
    <2> QED BY <2>1, <2>2, SumsExist
  <1>2. Attempts(r, S) = g[S] /\ Attempts(r, T) = h[T]
    BY ChosenSum
  <1> HIDE DEF g, h
  <1>3. g[S] = IF S = {} THEN 0 ELSE Tries(r, First(S)) + g[T]
    BY <1>1 DEF Adds
  <1>4. g[T] = h[T]
    <2>1. T \in SUBSET Nat /\ T \in SUBSET (S \cap T)
      OBVIOUS
    <2>2. \A i \in T : Tries(r, i) = Tries(r, i)
      OBVIOUS
    <2> HIDE DEF T
    <2> QED BY <1>1, <2>1, <2>2, SumsAgree, SMTT(40)
  <1> QED BY <1>2, <1>3, <1>4

\* A sum of attempts is a number.
LEMMA AttemptsType ==
  ASSUME NEW r, NEW S \in SUBSET Nat, IsFiniteSet(S), \A i \in S : Tries(r, i) \in Nat
  PROVE  Attempts(r, S) \in Nat
  <1> DEFINE Bad == {T \in SUBSET S : Attempts(r, T) \notin Nat}
  <1> SUFFICES ASSUME Bad # {} PROVE FALSE
    OBVIOUS
  <1>1. PICK T \in Bad : \A U \in SUBSET T : U # T => U \notin Bad
    <2>1. Bad \in SUBSET SUBSET S
      OBVIOUS
    <2> HIDE DEF Bad
    <2> QED BY <2>1, SmallestPart
  <1>2. T \in SUBSET S /\ T \in SUBSET Nat /\ Attempts(r, T) \notin Nat
    BY <1>1
  <1>3. IsFiniteSet(T)
    BY <1>2, FS_Subset
  <1>4. CASE T = {}
    <2>1. Attempts(r, T) = 0
      BY <1>2, <1>3, <1>4, AttemptsValue
    <2> QED BY <1>2, <2>1
  <1>5. CASE T # {}
    <2> DEFINE U == T \ {First(T)}
    <2>1. First(T) \in S /\ U \in SUBSET T /\ U # T /\ U \in SUBSET S
      BY <1>2, <1>5, FirstIsElement
    <2>2. Attempts(r, U) \in Nat
      BY <2>1, <1>1
    <2>3. Tries(r, First(T)) \in Nat
      BY <2>1
    <2>4. Attempts(r, T) = Tries(r, First(T)) + Attempts(r, U)
      BY <1>2, <1>3, <1>5, AttemptsValue
    <2> QED BY <1>2, <2>2, <2>3, <2>4
  <1> QED BY <1>4, <1>5

\* One more row adds its attempts, whichever row the sum takes first.
LEMMA AttemptsMore ==
  ASSUME NEW r, NEW S \in SUBSET Nat, IsFiniteSet(S), NEW k \in Nat \ S,
         \A i \in S \cup {k} : Tries(r, i) \in Nat
  PROVE  Attempts(r, S \cup {k}) = Tries(r, k) + Attempts(r, S)
  <1> DEFINE X   == S \cup {k}
             Bad == {T \in SUBSET X :
                       \E x \in X \ T : Attempts(r, T \cup {x}) # Tries(r, x) + Attempts(r, T)}
  <1>0. IsFiniteSet(X) /\ X \in SUBSET Nat /\ k \in X \ S /\ S \in SUBSET X
    BY FS_AddElement
  <1> HIDE DEF X
  <1> SUFFICES ASSUME Bad # {} PROVE FALSE
    BY <1>0 DEF X
  <1>1. PICK T \in Bad : \A U \in SUBSET T : U # T => U \notin Bad
    <2>1. Bad \in SUBSET SUBSET X
      OBVIOUS
    <2> HIDE DEF Bad
    <2> QED BY <1>0, <2>1, SmallestPart
  <1>2. PICK x \in X \ T : Attempts(r, T \cup {x}) # Tries(r, x) + Attempts(r, T)
    BY <1>1
  <1> DEFINE W == T \cup {x}
             p == First(W)
  <1>3. W \in SUBSET X /\ W \in SUBSET Nat /\ W # {} /\ p \in W
    BY <1>0, <1>1, FirstIsElement
  <1>4. Attempts(r, W) = Tries(r, p) + Attempts(r, W \ {p})
    <2>1. IsFiniteSet(W)
      BY <1>0, <1>3, FS_Subset
    <2> HIDE DEF W
    <2> QED BY <1>3, <2>1, AttemptsValue
  <1>5. CASE p = x
    <2>1. W \ {p} = T
      BY <1>5
    <2> QED BY <1>2, <1>4, <1>5, <2>1
  <1>6. CASE p # x
    <2> DEFINE U == T \ {p}
    <2>1. /\ p \in T /\ U \in SUBSET T /\ U # T /\ U \in SUBSET X
          /\ p \in X \ U /\ x \in X \ U
      BY <1>1, <1>3, <1>6
    <2>2. U \notin Bad
      BY <2>1, <1>1
    <2>3. /\ Attempts(r, U \cup {x}) = Tries(r, x) + Attempts(r, U)
          /\ Attempts(r, U \cup {p}) = Tries(r, p) + Attempts(r, U)
      BY <2>1, <2>2
    <2>4. U \cup {x} = W \ {p} /\ U \cup {p} = T
      BY <2>1, <1>6
    <2>5. Tries(r, x) \in Nat /\ Tries(r, p) \in Nat /\ Attempts(r, U) \in Nat
      <3>1. Tries(r, x) \in Nat /\ Tries(r, p) \in Nat /\ \A i \in U : Tries(r, i) \in Nat
        BY <2>1 DEF X
      <3>2. IsFiniteSet(U) /\ U \in SUBSET Nat
        BY <1>0, <2>1, FS_Subset
      <3>3. Attempts(r, U) \in Nat
        <4> HIDE DEF U
        <4> QED BY <3>1, <3>2, AttemptsType
      <3> QED BY <3>1, <3>3
    <2>6. /\ Attempts(r, W) = Tries(r, p) + (Tries(r, x) + Attempts(r, U))
          /\ Attempts(r, T) = Tries(r, p) + Attempts(r, U)
      BY <2>3, <2>4, <1>4
    <2> HIDE DEF U, p
    <2> QED BY <2>5, <2>6, <1>2
  <1> QED BY <1>5, <1>6

\* One attempt more in one row is one more in all.
LEMMA AttemptsBumped ==
  ASSUME NEW r, NEW q, NEW S \in SUBSET Nat, IsFiniteSet(S), NEW k \in S,
         \A i \in S : Tries(r, i) \in Nat,
         \A i \in S \ {k} : Tries(q, i) = Tries(r, i),
         Tries(q, k) = Tries(r, k) + 1
  PROVE  Attempts(q, S) = Attempts(r, S) + 1
  <1> DEFINE T == S \ {k}
  <1>1. T \in SUBSET Nat /\ k \in Nat \ T /\ T \cup {k} = S
    OBVIOUS
  <1>2. IsFiniteSet(T)
    BY FS_Subset
  <1>3. \A i \in S : Tries(q, i) \in Nat
    <2> TAKE i \in S
    <2>1. CASE i = k
      BY <2>1
    <2>2. CASE i # k
      BY <2>2
    <2> QED BY <2>1, <2>2
  <1>4. Attempts(r, T) \in Nat /\ Attempts(q, T) = Attempts(r, T)
    <2>1. \A i \in T : Tries(r, i) \in Nat /\ Tries(q, i) = Tries(r, i)
      OBVIOUS
    <2> HIDE DEF T
    <2> QED BY <1>1, <1>2, <2>1, AttemptsType, AttemptsSame
  <1>5. /\ Attempts(r, S) = Tries(r, k) + Attempts(r, T)
        /\ Attempts(q, S) = Tries(q, k) + Attempts(q, T)
    <2> HIDE DEF T
    <2> QED BY <1>1, <1>2, <1>3, AttemptsMore
  <1>6. Tries(r, k) \in Nat
    OBVIOUS
  <1> QED BY <1>4, <1>5, <1>6

\* Rows of one attempt each are counted.
LEMMA AttemptsOfOnes ==
  ASSUME NEW r, NEW S \in SUBSET Nat, IsFiniteSet(S), \A i \in S : Tries(r, i) = 1
  PROVE  Attempts(r, S) = Cardinality(S)
  <1> DEFINE Bad == {T \in SUBSET S : Attempts(r, T) # Cardinality(T)}
  <1> SUFFICES ASSUME Bad # {} PROVE FALSE
    OBVIOUS
  <1>1. PICK T \in Bad : \A U \in SUBSET T : U # T => U \notin Bad
    <2>1. Bad \in SUBSET SUBSET S
      OBVIOUS
    <2> HIDE DEF Bad
    <2> QED BY <2>1, SmallestPart
  <1>2. T \in SUBSET S /\ T \in SUBSET Nat /\ Attempts(r, T) # Cardinality(T)
    BY <1>1
  <1>3. IsFiniteSet(T)
    BY <1>2, FS_Subset
  <1>4. CASE T = {}
    <2>1. Attempts(r, T) = 0
      BY <1>2, <1>3, <1>4, AttemptsValue
    <2> QED BY <1>2, <1>4, <2>1, FS_EmptySet
  <1>5. CASE T # {}
    <2> DEFINE U == T \ {First(T)}
    <2>1. First(T) \in T /\ First(T) \in S /\ U \in SUBSET T /\ U # T /\ U \in SUBSET S
      BY <1>2, <1>5, FirstIsElement
    <2>2. Attempts(r, U) = Cardinality(U)
      BY <2>1, <1>1
    <2>3. Cardinality(U) = Cardinality(T) - 1 /\ Cardinality(T) \in Nat
      BY <1>3, <2>1, FS_RemoveElement, FS_CardinalityType
    <2>4. Attempts(r, T) = 1 + Attempts(r, U)
      BY <1>2, <1>3, <1>5, <2>1, AttemptsValue
    <2> QED BY <1>2, <2>2, <2>3, <2>4
  <1> QED BY <1>4, <1>5

------------------------------------------------------------------------------
(* The receipts of Wii no Ma (InteractionStore). *)

Receipt == [form : Form \cup {Malformed}, marked : BOOLEAN, attempts : Nat]

OfForm(r, f)     == {i \in DOMAIN r : r[i].form = f}
Leads(r, i)      == \A j \in 1 .. i - 1 : r[j].form # r[i].form
Answers(r, f, i) == i \in DOMAIN r /\ r[i].form = f /\ Leads(r, i)
Submitted(f)     == {i \in DOMAIN committed : committed[i] = f}

\* Once the file is migrated, the marked rows are the first of their forms.
MarkedLead(r) == \A i \in DOMAIN r : r[i].marked <=> Leads(r, i)

Handling == {Receipts!Idle} \cup [pc : {"record"}, form : Form]
                            \cup [pc : {"answer"}, form : Form, id : Nat]

ReceiptTypeOK ==
  /\ rows \in Seq(Receipt) /\ version \in {0, 1}
  /\ committed \in Seq(Form \cup {Malformed})
  /\ handling \in [Handler -> Handling]

\* Whoever is about to answer, and whoever was answered, has the first row.
AnswersOK ==
  /\ \A h \in Handler :
       handling[h].pc = "answer" => Answers(rows, handling[h].form, handling[h].id)
  /\ \A x \in told : Answers(rows, x[1], x[2])

CountOK ==
  \A f \in Form : Attempts(rows, OfForm(rows, f)) = Cardinality(Submitted(f))

ReceiptInv ==
  ReceiptTypeOK /\ (version = 1 => MarkedLead(rows)) /\ AnswersOK /\ CountOK

\* The places of a file's rows.
LEMMA PlaceFacts ==
  ASSUME NEW r \in Seq(Receipt)
  PROVE  /\ Len(r) \in Nat /\ DOMAIN r = 1 .. Len(r)
         /\ \A i \in DOMAIN r : r[i] \in Receipt /\ r[i].attempts \in Nat
         /\ \A f : OfForm(r, f) \in SUBSET Nat /\ IsFiniteSet(OfForm(r, f))
  <1>1. Len(r) \in Nat /\ DOMAIN r = 1 .. Len(r) /\ \A i \in DOMAIN r : r[i] \in Receipt
    OBVIOUS
  <1>2. \A i \in DOMAIN r : r[i].attempts \in Nat
    BY <1>1 DEF Receipt
  <1>3. IsFiniteSet(1 .. Len(r))
    BY <1>1, FS_Interval
  <1>4. ASSUME NEW f PROVE OfForm(r, f) \in SUBSET Nat /\ IsFiniteSet(OfForm(r, f))
    <2>1. OfForm(r, f) \subseteq 1 .. Len(r)
      BY <1>1 DEF OfForm
    <2>2. IsFiniteSet(OfForm(r, f))
      BY <2>1, <1>3, FS_Subset
    <2> QED BY <2>1, <2>2, <1>1
  <1> QED BY <1>1, <1>2, <1>4

\* Where there is a row of a form there is a first one.
LEMMA FirstOfForm ==
  ASSUME NEW r \in Seq(Receipt), NEW f, OfForm(r, f) # {}
  PROVE  \E k \in DOMAIN r : r[k].form = f /\ Leads(r, k)
  <1>1. PICK k \in OfForm(r, f) : \A i \in OfForm(r, f) : k <= i
    BY PlaceFacts, LeastNatural
  <1>2. k \in DOMAIN r /\ r[k].form = f /\ k \in 1 .. Len(r)
    BY <1>1 DEF OfForm
  <1>3. ASSUME NEW j \in 1 .. k - 1 PROVE r[j].form # f
    <2>1. j \in DOMAIN r /\ ~ k <= j
      BY <1>2, <1>3
    <2> QED BY <1>1, <2>1 DEF OfForm
  <1> QED BY <1>2, <1>3 DEF Leads

\* What the migration leaves as it is, and what it marks.
Kept(r, m) ==
  /\ Len(m) = Len(r)
  /\ \A i \in DOMAIN r : m[i].form = r[i].form /\ m[i].attempts = r[i].attempts

\* The migration keeps every row and marks the first of each form (_migrate).
LEMMA MigratedFacts ==
  ASSUME ReceiptInv
  PROVE  /\ Receipts!Migrated \in Seq(Receipt) /\ Kept(rows, Receipts!Migrated)
         /\ \A i \in DOMAIN rows : Receipts!Migrated[i].marked <=> Leads(rows, i)
  <1> DEFINE m == Receipts!Migrated
  <1>1. rows \in Seq(Receipt) /\ version \in {0, 1} /\ (version = 1 => MarkedLead(rows))
    BY DEF ReceiptInv, ReceiptTypeOK
  <1>2. CASE version = 1
    <2>1. m = rows
      BY <1>2 DEF Receipts!Migrated
    <2> QED BY <1>1, <1>2, <2>1 DEF MarkedLead, Kept
  <1>3. CASE version = 0
    <2>1. m = [i \in DOMAIN rows |-> [rows[i] EXCEPT !.marked = Leads(rows, i)]]
      BY <1>3 DEF Receipts!Migrated, Leads
    <2>2. ASSUME NEW i \in DOMAIN rows
          PROVE  /\ m[i] \in Receipt /\ m[i].form = rows[i].form
                 /\ m[i].attempts = rows[i].attempts /\ (m[i].marked <=> Leads(rows, i))
      <3>1. m[i] = [rows[i] EXCEPT !.marked = Leads(rows, i)]
        BY <2>1
      <3>2. rows[i] \in Receipt
        BY <1>1, PlaceFacts
      <3>3. Leads(rows, i) \in BOOLEAN
        BY DEF Leads
      <3> HIDE DEF m
      <3> QED BY <3>1, <3>2, <3>3 DEF Receipt
    <2>3. DOMAIN m = 1 .. Len(rows) /\ Len(rows) \in Nat
      BY <1>1, <2>1, PlaceFacts
    <2>4. m \in [1 .. Len(rows) -> Receipt]
      <3>1. m = [i \in 1 .. Len(rows) |-> m[i]]
        BY <2>1, <2>3
      <3>2. \A i \in 1 .. Len(rows) : m[i] \in Receipt
        BY <2>1, <2>2, <2>3
      <3> HIDE DEF m
      <3> QED BY <3>1, <3>2
    <2>5. m \in Seq(Receipt) /\ Len(m) = Len(rows)
      <3> HIDE DEF m
      <3> QED BY <2>3, <2>4
    <2> QED BY <2>2, <2>5 DEF Kept
  <1> QED BY <1>1, <1>2, <1>3

\* The next file of receipts: of the form's rows the first has one attempt more, or
\* there is a new one.
Grown(r, q, f) ==
  /\ q \in Seq(Receipt) /\ Len(r) <= Len(q) /\ MarkedLead(q)
  /\ \A i \in DOMAIN r : q[i].form = r[i].form
  /\ \E k \in DOMAIN q : q[k].marked /\ q[k].form = f
  /\ \A e \in Form : Attempts(q, OfForm(q, e)) =
                       Attempts(r, OfForm(r, e)) + (IF e = f THEN 1 ELSE 0)

\* A retry finds the row that its form has.
LEMMA RetryGrows ==
  ASSUME NEW r \in Seq(Receipt), NEW m \in Seq(Receipt), Kept(r, m),
         \A i \in DOMAIN r : m[i].marked <=> Leads(r, i),
         NEW f \in Form, NEW k \in DOMAIN m, m[k].marked, m[k].form = f
  PROVE  Grown(r, [i \in DOMAIN m |->
                     IF m[i].marked /\ m[i].form = f
                       THEN [m[i] EXCEPT !.attempts = @ + 1] ELSE m[i]], f)
  <1> DEFINE q == [i \in DOMAIN m |->
                     IF m[i].marked /\ m[i].form = f
                       THEN [m[i] EXCEPT !.attempts = @ + 1] ELSE m[i]]
             n == Len(r)
  <1>1. n \in Nat /\ DOMAIN r = 1 .. n /\ DOMAIN m = 1 .. n /\ k \in 1 .. n
    BY PlaceFacts DEF Kept
  <1>2. \A i \in 1 .. n : m[i] \in Receipt /\ r[i] \in Receipt
    BY <1>1, PlaceFacts
  <1>3. ASSUME NEW i \in 1 .. n, m[i].marked, m[i].form = f PROVE i = k
    <2>1. Leads(r, i) /\ Leads(r, k) /\ r[i].form = f /\ r[k].form = f
      BY <1>1, <1>3 DEF Kept
    <2>2. ~ i < k /\ ~ k < i
      BY <1>1, <2>1 DEF Leads
    <2> QED BY <1>1, <2>2
  <1>4. /\ q[k] = [m[k] EXCEPT !.attempts = @ + 1]
        /\ \A i \in (1 .. n) \ {k} : q[i] = m[i]
    BY <1>1, <1>3
  <1>5. DOMAIN q = 1 .. n /\ q = [i \in 1 .. n |-> q[i]]
    BY <1>1
  <1> HIDE DEF q
  <1>6. /\ q[k] \in Receipt /\ q[k].form = m[k].form /\ q[k].marked = m[k].marked
        /\ q[k].attempts = m[k].attempts + 1
    <2>1. q[k] = [m[k] EXCEPT !.attempts = m[k].attempts + 1] /\ m[k] \in Receipt
      BY <1>1, <1>2, <1>4
    <2>2. m[k].attempts + 1 \in Nat
      BY <2>1 DEF Receipt
    <2> HIDE DEF n
    <2> QED BY <2>1, <2>2 DEF Receipt
  <1>7. \A i \in 1 .. n : q[i] \in Receipt /\ q[i].form = r[i].form /\ q[i].marked = m[i].marked
    <2> TAKE i \in 1 .. n
    <2>1. CASE i = k
      BY <1>1, <1>6, <2>1 DEF Kept
    <2>2. CASE i # k
      BY <1>1, <1>2, <1>4, <2>2 DEF Kept
    <2> QED BY <2>1, <2>2
  <1>8. q \in Seq(Receipt) /\ Len(q) = n
    BY <1>1, <1>5, <1>7
  <1>9. MarkedLead(q)
    <2> SUFFICES ASSUME NEW i \in 1 .. n PROVE q[i].marked <=> Leads(q, i)
      BY <1>5 DEF MarkedLead
    <2>1. Leads(q, i) <=> Leads(r, i)
      <3>1. \A j \in 1 .. i - 1 : j \in 1 .. n
        BY <1>1
      <3> QED BY <1>7, <3>1 DEF Leads
    <2> QED BY <1>1, <1>7, <2>1
  <1>10. ASSUME NEW e \in Form
         PROVE  Attempts(q, OfForm(q, e)) =
                  Attempts(r, OfForm(r, e)) + (IF e = f THEN 1 ELSE 0)
    <2>1. OfForm(q, e) = OfForm(r, e)
      BY <1>1, <1>5, <1>7 DEF OfForm
    <2> DEFINE S == OfForm(r, e)
    <2>2. S \in SUBSET Nat /\ IsFiniteSet(S) /\ S \subseteq 1 .. n
      BY <1>1, PlaceFacts DEF OfForm
    <2>3. \A i \in S : Tries(r, i) \in Nat
      BY <1>1, <1>2, <2>2 DEF Tries, Receipt
    <2>4. \A i \in S \ {k} : Tries(q, i) = Tries(r, i)
      BY <1>1, <1>4, <2>2 DEF Tries, Kept
    <2>5. Tries(q, k) = Tries(r, k) + 1
      BY <1>1, <1>6 DEF Tries, Kept
    <2>6. k \in S <=> e = f
      BY <1>1 DEF OfForm, Kept
    <2> HIDE DEF S
    <2>7. CASE e = f
      <3>1. Attempts(q, S) = Attempts(r, S) + 1
        BY <2>2, <2>3, <2>4, <2>5, <2>6, <2>7, AttemptsBumped
      <3> QED BY <2>1, <2>7, <3>1 DEF S
    <2>8. CASE e # f
      <3>1. Attempts(q, S) = Attempts(r, S) /\ Attempts(r, S) \in Nat
        BY <2>2, <2>3, <2>4, <2>6, <2>8, AttemptsSame, AttemptsType
      <3> QED BY <2>1, <2>8, <3>1 DEF S
    <2> QED BY <2>7, <2>8
  <1>11. Grown(r, q, f)
    BY <1>1, <1>5, <1>6, <1>7, <1>8, <1>9, <1>10 DEF Grown
  <1> QED BY <1>11 DEF q

\* A form without a marked row has no row at all, and its new row leads.
LEMMA NewGrows ==
  ASSUME NEW r \in Seq(Receipt), NEW m \in Seq(Receipt), Kept(r, m),
         \A i \in DOMAIN r : m[i].marked <=> Leads(r, i),
         NEW f \in Form, ~ \E k \in DOMAIN m : m[k].marked /\ m[k].form = f
  PROVE  Grown(r, Append(m, [form |-> f, marked |-> TRUE, attempts |-> 1]), f)
  <1> DEFINE new == [form |-> f, marked |-> TRUE, attempts |-> 1]
             q   == Append(m, new)
             n   == Len(r)
  <1>1. n \in Nat /\ DOMAIN r = 1 .. n /\ DOMAIN m = 1 .. n /\ Len(m) = n
    BY PlaceFacts DEF Kept
  <1>2. \A i \in 1 .. n : m[i] \in Receipt /\ r[i] \in Receipt
    BY <1>1, PlaceFacts
  <1>3. OfForm(r, f) = {}
    <2> SUFFICES ASSUME OfForm(r, f) # {} PROVE FALSE
      OBVIOUS
    <2>1. PICK k \in DOMAIN r : r[k].form = f /\ Leads(r, k)
      BY FirstOfForm
    <2> QED BY <1>1, <2>1 DEF Kept
  <1>4. new \in Receipt /\ new.form = f /\ new.marked /\ new.attempts = 1
    BY DEF Receipt
  <1> HIDE DEF new
  <1>5. /\ q \in Seq(Receipt) /\ Len(q) = n + 1 /\ DOMAIN q = 1 .. n + 1
        /\ q[n + 1] = new /\ \A i \in 1 .. n : q[i] = m[i]
    BY <1>1, <1>4
  <1> HIDE DEF q
  <1>6. /\ \A i \in 1 .. n : q[i].form = r[i].form /\ q[i].marked = m[i].marked
        /\ q[n + 1].form = f /\ q[n + 1].marked
    BY <1>1, <1>4, <1>5 DEF Kept
  <1>7. MarkedLead(q)
    <2> SUFFICES ASSUME NEW i \in 1 .. n + 1 PROVE q[i].marked <=> Leads(q, i)
      BY <1>5 DEF MarkedLead
    <2>1. CASE i \in 1 .. n
      <3>1. \A j \in 1 .. i - 1 : j \in 1 .. n
        BY <1>1, <2>1
      <3>2. Leads(q, i) <=> Leads(r, i)
        BY <1>6, <2>1, <3>1 DEF Leads
      <3> QED BY <1>1, <1>6, <2>1, <3>2
    <2>2. CASE i = n + 1
      <3>1. \A j \in 1 .. n : q[j].form # f
        BY <1>1, <1>3, <1>6 DEF OfForm
      <3>2. 1 .. i - 1 = 1 .. n
        BY <1>1, <2>2
      <3> QED BY <1>6, <2>2, <3>1, <3>2 DEF Leads
    <2> QED BY <1>1, <2>1, <2>2
  <1>8. ASSUME NEW e \in Form
        PROVE  Attempts(q, OfForm(q, e)) =
                 Attempts(r, OfForm(r, e)) + (IF e = f THEN 1 ELSE 0)
    <2> DEFINE S == OfForm(r, e)
    <2>1. S \in SUBSET Nat /\ IsFiniteSet(S) /\ S \subseteq 1 .. n
      BY <1>1, PlaceFacts DEF OfForm
    <2>2. \A i \in S : Tries(r, i) \in Nat /\ Tries(q, i) = Tries(r, i)
      BY <1>1, <1>2, <1>5, <2>1 DEF Tries, Receipt, Kept
    <2>3. Tries(q, n + 1) = 1
      BY <1>4, <1>5 DEF Tries
    <2>4. n + 1 \in Nat \ S
      BY <1>1, <2>1
    <2>5. OfForm(q, e) = IF e = f THEN S \cup {n + 1} ELSE S
      BY <1>1, <1>5, <1>6 DEF OfForm
    <2> HIDE DEF S
    <2>6. Attempts(q, S) = Attempts(r, S) /\ Attempts(r, S) \in Nat
      BY <2>1, <2>2, AttemptsSame, AttemptsType
    <2>7. CASE e = f
      <3>1. \A i \in S \cup {n + 1} : Tries(q, i) \in Nat
        BY <2>2, <2>3
      <3>2. Attempts(q, S \cup {n + 1}) = Tries(q, n + 1) + Attempts(q, S)
        BY <2>1, <2>4, <3>1, AttemptsMore
      <3> QED BY <2>3, <2>5, <2>6, <2>7, <3>2 DEF S
    <2>8. CASE e # f
      BY <2>5, <2>6, <2>8 DEF S
    <2> QED BY <2>7, <2>8
  <1>9. Grown(r, q, f)
    BY <1>1, <1>5, <1>6, <1>7, <1>8 DEF Grown
  <1> QED BY <1>9 DEF q, new

\* The transaction of a form makes the file grow by it.
LEMMA RecordedGrows ==
  ASSUME ReceiptInv, NEW f \in Form
  PROVE  Grown(rows, Receipts!Recorded(f), f)
  <1> DEFINE m == Receipts!Migrated
  <1>1. rows \in Seq(Receipt)
    BY DEF ReceiptInv, ReceiptTypeOK
  <1>2. /\ m \in Seq(Receipt) /\ Kept(rows, m)
        /\ \A i \in DOMAIN rows : m[i].marked <=> Leads(rows, i)
    BY MigratedFacts
  <1>3. Receipts!Recorded(f) =
          IF \E i \in DOMAIN m : m[i].marked /\ m[i].form = f
            THEN [i \in DOMAIN m |->
                    IF m[i].marked /\ m[i].form = f
                      THEN [m[i] EXCEPT !.attempts = @ + 1] ELSE m[i]]
            ELSE Append(m, [form |-> f, marked |-> TRUE, attempts |-> 1])
    BY DEF Receipts!Recorded
  <1> HIDE DEF m
  <1>4. CASE \E i \in DOMAIN m : m[i].marked /\ m[i].form = f
    <2>1. PICK k \in DOMAIN m : m[k].marked /\ m[k].form = f
      BY <1>4
    <2> QED BY <1>1, <1>2, <1>3, <1>4, <2>1, RetryGrows
  <1>5. CASE ~ \E i \in DOMAIN m : m[i].marked /\ m[i].form = f
    BY <1>1, <1>2, <1>3, <1>5, NewGrows
  <1> QED BY <1>4, <1>5

\* What answers for a form goes on to.
LEMMA AnswersStay ==
  ASSUME NEW r \in Seq(Receipt), NEW q, NEW f, Grown(r, q, f), NEW e, NEW i, Answers(r, e, i)
  PROVE  Answers(q, e, i)
  <1>1. Len(r) \in Nat /\ DOMAIN r = 1 .. Len(r) /\ i \in 1 .. Len(r)
    BY PlaceFacts DEF Answers
  <1>2. i \in DOMAIN q
    BY <1>1, PlaceFacts DEF Grown
  <1>3. \A j \in 1 .. i - 1 : j \in DOMAIN r
    BY <1>1
  <1> QED BY <1>1, <1>2, <1>3 DEF Grown, Answers, Leads

\* One submission more of a form, and of no other.
LEMMA SubmittedMore ==
  ASSUME ReceiptTypeOK, NEW f \in Form, committed' = Append(committed, f), NEW e \in Form
  PROVE  /\ Cardinality(Submitted(e))' =
              Cardinality(Submitted(e)) + (IF e = f THEN 1 ELSE 0)
         /\ Cardinality(Submitted(e)) \in Nat
  <1> DEFINE n == Len(committed)
             S == Submitted(e)
  <1>1. n \in Nat /\ DOMAIN committed = 1 .. n
    BY DEF ReceiptTypeOK
  <1>2. /\ DOMAIN committed' = 1 .. n + 1 /\ committed'[n + 1] = f
        /\ \A i \in 1 .. n : committed'[i] = committed[i]
    BY <1>1 DEF ReceiptTypeOK
  <1>3. IsFiniteSet(1 .. n)
    BY <1>1, FS_Interval
  <1>4. S \subseteq 1 .. n /\ n + 1 \notin S
    BY <1>1 DEF Submitted
  <1>5. IsFiniteSet(S)
    BY <1>3, <1>4, FS_Subset
  <1>6. Cardinality(S) \in Nat /\ Cardinality(S \cup {n + 1}) = Cardinality(S) + 1
    BY <1>4, <1>5, FS_AddElement, FS_CardinalityType
  <1>7. Submitted(e)' = IF e = f THEN S \cup {n + 1} ELSE S
    BY <1>1, <1>2 DEF Submitted
  <1> HIDE DEF S, n
  <1>8. CASE e = f
    BY <1>6, <1>7, <1>8 DEF S
  <1>9. CASE e # f
    BY <1>6, <1>7, <1>9 DEF S
  <1> QED BY <1>8, <1>9

\* An empty file, and one of the earlier schema.
LEMMA ReceiptsInit == Receipts!Init => ReceiptInv
  <1> SUFFICES ASSUME Receipts!Init PROVE ReceiptInv
    OBVIOUS
  <1>1. PICK s \in Seq(Form \cup {Malformed}) :
          rows = [i \in DOMAIN s |-> Receipts!EarlierRow(s[i])]
    <2>1. CASE rows = <<>>
      <3>1. <<>> \in Seq(Form \cup {Malformed})
        OBVIOUS
      <3>2. rows = [i \in DOMAIN <<>> |-> Receipts!EarlierRow(<<>>[i])]
        BY <2>1
      <3> QED BY <3>1, <3>2
    <2>2. CASE \E s \in Earlier : rows = [i \in DOMAIN s |-> Receipts!EarlierRow(s[i])]
      BY <2>2, FormAssumption
    <2> QED BY <2>1, <2>2 DEF Receipts!Init
  <1> DEFINE n == Len(s)
  <1>2. n \in Nat /\ DOMAIN s = 1 .. n /\ \A i \in 1 .. n : s[i] \in Form \cup {Malformed}
    OBVIOUS
  <1>3. DOMAIN rows = 1 .. n
    BY <1>1, <1>2
  <1>4. \A i \in 1 .. n : /\ rows[i] \in Receipt /\ rows[i].form = s[i]
                          /\ rows[i].attempts = 1
    BY <1>1, <1>2 DEF Receipts!EarlierRow, Receipt
  <1>5. rows \in Seq(Receipt)
    <2>1. rows = [i \in 1 .. n |-> rows[i]]
      BY <1>1, <1>2
    <2> HIDE DEF n
    <2>2. rows \in [1 .. n -> Receipt]
      BY <1>4, <2>1
    <2> QED BY <1>2, <2>2
  <1>6. committed \in Seq(Form \cup {Malformed}) /\ DOMAIN committed = 1 .. n
          /\ \A i \in 1 .. n : committed[i] = rows[i].form
    <2>1. committed = [i \in 1 .. n |-> rows[i].form]
      BY <1>3 DEF Receipts!Init
    <2> HIDE DEF n
    <2>2. committed \in [1 .. n -> Form \cup {Malformed}]
      BY <1>2, <1>4, <2>1
    <2> QED BY <1>2, <2>1, <2>2
  <1>7. ReceiptTypeOK /\ version = 0 /\ told = {} /\ \A h \in Handler : handling[h].pc # "answer"
    BY <1>5, <1>6 DEF ReceiptTypeOK, Handling, Receipts!Init, Receipts!Idle
  <1>8. ASSUME NEW f \in Form
        PROVE  Attempts(rows, OfForm(rows, f)) = Cardinality(Submitted(f))
    <2>1. OfForm(rows, f) = Submitted(f)
      BY <1>3, <1>6 DEF OfForm, Submitted
    <2>2. \A i \in OfForm(rows, f) : Tries(rows, i) = 1
      BY <1>3, <1>4 DEF OfForm, Tries
    <2>3. OfForm(rows, f) \in SUBSET Nat /\ IsFiniteSet(OfForm(rows, f))
      BY <1>5, PlaceFacts
    <2>4. Attempts(rows, OfForm(rows, f)) = Cardinality(OfForm(rows, f))
      BY <2>2, <2>3, AttemptsOfOnes
    <2> QED BY <2>1, <2>4
  <1> QED BY <1>7, <1>8 DEF ReceiptInv, AnswersOK, CountOK

\* A transaction that commits.
LEMMA ReceiptsCommit ==
  ASSUME ReceiptInv, NEW h \in Handler, NEW f \in Form,
         rows' = Receipts!Recorded(f), version' = 1, committed' = Append(committed, f),
         handling' = [handling EXCEPT ![h] =
           [pc |-> "answer", form |-> f,
            id |-> CHOOSE i \in DOMAIN rows' : rows'[i].marked /\ rows'[i].form = f]],
         told' = told
  PROVE  ReceiptInv'
  <1> DEFINE id == CHOOSE i \in DOMAIN rows' : rows'[i].marked /\ rows'[i].form = f
  <1>1. Grown(rows, rows', f) /\ rows \in Seq(Receipt)
    BY RecordedGrows DEF ReceiptInv, ReceiptTypeOK
  <1>2. id \in DOMAIN rows' /\ rows'[id].marked /\ rows'[id].form = f
    BY <1>1 DEF Grown
  <1>3. rows' \in Seq(Receipt) /\ MarkedLead(rows')
    BY <1>1 DEF Grown
  <1>4. Answers(rows', f, id) /\ id \in Nat
    BY <1>2, <1>3, PlaceFacts DEF MarkedLead, Answers
  <1> HIDE DEF id
  <1>5. handling' = [handling EXCEPT ![h] = [pc |-> "answer", form |-> f, id |-> id]]
    BY DEF id
  <1>6. committed' \in Seq(Form \cup {Malformed})
    BY DEF ReceiptInv, ReceiptTypeOK
  <1>7. ReceiptTypeOK'
    <2>1. [pc |-> "answer", form |-> f, id |-> id] \in Handling
      BY <1>4 DEF Handling
    <2>2. handling' \in [Handler -> Handling]
      BY <1>5, <2>1 DEF ReceiptInv, ReceiptTypeOK
    <2> QED BY <1>3, <1>6, <2>2 DEF ReceiptTypeOK
  <1>8. \A e, i : Answers(rows, e, i) => Answers(rows', e, i)
    BY <1>1, AnswersStay
  <1>9. AnswersOK'
    <2>1. ASSUME NEW g \in Handler, handling'[g].pc = "answer"
          PROVE  Answers(rows', handling'[g].form, handling'[g].id)
      <3>1. CASE g = h
        <4>1. handling'[g] = [pc |-> "answer", form |-> f, id |-> id]
          BY <1>5, <3>1 DEF ReceiptInv, ReceiptTypeOK
        <4>2. handling'[g].form = f /\ handling'[g].id = id
          BY <4>1
        <4> QED BY <1>4, <4>2
      <3>2. CASE g # h
        <4>1. handling'[g] = handling[g]
          BY <1>5, <3>2 DEF ReceiptInv, ReceiptTypeOK
        <4> QED BY <1>8, <2>1, <4>1 DEF ReceiptInv, AnswersOK
      <3> QED BY <3>1, <3>2
    <2>2. \A x \in told' : Answers(rows', x[1], x[2])
      BY <1>8 DEF ReceiptInv, AnswersOK
    <2> QED BY <2>1, <2>2 DEF AnswersOK
  <1>10. CountOK'
    <2> SUFFICES ASSUME NEW e \in Form
                 PROVE  Attempts(rows', OfForm(rows', e)) = Cardinality(Submitted(e)')
      BY DEF CountOK
    <2>1. Attempts(rows', OfForm(rows', e)) =
            Attempts(rows, OfForm(rows, e)) + (IF e = f THEN 1 ELSE 0)
      BY <1>1 DEF Grown
    <2>2. Attempts(rows, OfForm(rows, e)) = Cardinality(Submitted(e))
      BY DEF ReceiptInv, CountOK
    <2>3. Cardinality(Submitted(e))' = Cardinality(Submitted(e)) + (IF e = f THEN 1 ELSE 0)
      BY SubmittedMore DEF ReceiptInv
    <2> QED BY <2>1, <2>2, <2>3
  <1> QED BY <1>3, <1>7, <1>9, <1>10 DEF ReceiptInv

\* Nothing but a transaction changes a row.
LEMMA ReceiptsRest ==
  ASSUME ReceiptInv, rows' = rows, version' = version, committed' = committed,
         ReceiptTypeOK', AnswersOK'
  PROVE  ReceiptInv'
  <1>1. CountOK'
    <2> SUFFICES ASSUME NEW e \in Form
                 PROVE  Attempts(rows', OfForm(rows', e)) = Cardinality(Submitted(e)')
      BY DEF CountOK
    <2>1. Submitted(e)' = Submitted(e)
      BY DEF Submitted
    <2> QED BY <2>1 DEF ReceiptInv, CountOK
  <1>2. version' = 1 => MarkedLead(rows')
    BY DEF ReceiptInv
  <1> QED BY <1>1, <1>2 DEF ReceiptInv

\* Every step of the handlers keeps the invariant of the receipts.
LEMMA ReceiptsStep == ReceiptInv /\ [Receipts!Next]_(Receipts!vars) => ReceiptInv'
  <1> SUFFICES ASSUME ReceiptInv, [Receipts!Next]_(Receipts!vars) PROVE ReceiptInv'
    OBVIOUS
  <1>0. ReceiptTypeOK /\ AnswersOK
    BY DEF ReceiptInv
  <1>1. ASSUME NEW h \in Handler, Receipts!Submit(h) PROVE ReceiptInv'
    <2>1. PICK f \in Form : handling' = [handling EXCEPT ![h] = [pc |-> "record", form |-> f]]
      BY <1>1 DEF Receipts!Submit
    <2>2. rows' = rows /\ version' = version /\ committed' = committed /\ told' = told
      BY <1>1 DEF Receipts!Submit
    <2>3. ReceiptTypeOK'
      BY <1>0, <2>1, <2>2 DEF ReceiptTypeOK, Handling
    <2>4. AnswersOK'
      BY <1>0, <2>1, <2>2 DEF ReceiptTypeOK, Handling, AnswersOK
    <2> QED BY <2>2, <2>3, <2>4, ReceiptsRest
  <1>2. ASSUME NEW h \in Handler, Receipts!Record(h) PROVE ReceiptInv'
    <2> DEFINE f == handling[h].form
    <2>1. f \in Form
      BY <1>0, <1>2 DEF Receipts!Record, ReceiptTypeOK, Handling, Receipts!Idle
    <2>2. CASE version = 0 /\ \E i \in DOMAIN rows : rows[i].form = Malformed
      <3>1. /\ rows' = rows /\ version' = version /\ committed' = committed /\ told' = told
            /\ handling' = [handling EXCEPT ![h] = Receipts!Idle]
        BY <1>2, <2>2 DEF Receipts!Record
      <3>2. ReceiptTypeOK'
        BY <1>0, <3>1 DEF ReceiptTypeOK, Handling
      <3>3. AnswersOK'
        BY <1>0, <3>1 DEF ReceiptTypeOK, Handling, AnswersOK, Receipts!Idle
      <3> QED BY <3>1, <3>2, <3>3, ReceiptsRest
    <2>3. CASE ~ (version = 0 /\ \E i \in DOMAIN rows : rows[i].form = Malformed)
      <3>1. /\ rows' = Receipts!Recorded(f) /\ version' = 1
            /\ committed' = Append(committed, f) /\ told' = told
            /\ handling' = [handling EXCEPT ![h] =
                 [pc |-> "answer", form |-> f,
                  id |-> CHOOSE i \in DOMAIN rows' : rows'[i].marked /\ rows'[i].form = f]]
        BY <1>2, <2>3 DEF Receipts!Record
      <3> HIDE DEF f
      <3> QED BY <2>1, <3>1, ReceiptsCommit
    <2> QED BY <2>2, <2>3
  <1>3. ASSUME NEW h \in Handler, Receipts!Answer(h) PROVE ReceiptInv'
    <2>1. /\ rows' = rows /\ version' = version /\ committed' = committed
          /\ told' = told \cup {<<handling[h].form, handling[h].id>>}
          /\ handling' = [handling EXCEPT ![h] = Receipts!Idle]
          /\ handling[h].pc = "answer"
      BY <1>3 DEF Receipts!Answer
    <2>2. ReceiptTypeOK'
      BY <1>0, <2>1 DEF ReceiptTypeOK, Handling
    <2>3. AnswersOK'
      BY <1>0, <2>1 DEF ReceiptTypeOK, Handling, AnswersOK, Receipts!Idle
    <2> QED BY <2>1, <2>2, <2>3, ReceiptsRest
  <1>4. ASSUME NEW h \in Handler, Receipts!Fail(h) PROVE ReceiptInv'
    <2>1. /\ rows' = rows /\ version' = version /\ committed' = committed /\ told' = told
          /\ handling' = [handling EXCEPT ![h] = Receipts!Idle]
      BY <1>4 DEF Receipts!Fail
    <2>2. ReceiptTypeOK'
      BY <1>0, <2>1 DEF ReceiptTypeOK, Handling
    <2>3. AnswersOK'
      BY <1>0, <2>1 DEF ReceiptTypeOK, Handling, AnswersOK, Receipts!Idle
    <2> QED BY <2>1, <2>2, <2>3, ReceiptsRest
  <1>5. ASSUME UNCHANGED Receipts!vars PROVE ReceiptInv'
    <2>1. /\ rows' = rows /\ version' = version /\ committed' = committed /\ told' = told
          /\ handling' = handling
      BY <1>5 DEF Receipts!vars
    <2>2. ReceiptTypeOK' /\ AnswersOK'
      BY <1>0, <2>1 DEF ReceiptTypeOK, Handling, AnswersOK
    <2> QED BY <2>1, <2>2, ReceiptsRest
  <1> QED BY <1>1, <1>2, <1>3, <1>4, <1>5 DEF Receipts!Next

\* Retries of a form, before and after the migration, are answered with its first
\* row, and the attempts of its rows are the submissions that were committed
\* (_migrate, record).
THEOREM FormsAreCounted ==
  SuiteSpec => []FirstReceiptAnswers
  <1>1. Receipts!Init => ReceiptInv
    BY ReceiptsInit
  <1>2. ReceiptInv /\ [Receipts!Next]_(Receipts!vars) => ReceiptInv'
    BY ReceiptsStep
  <1>3. ReceiptInv => Receipts!FirstReceiptAnswers
    <2> SUFFICES ASSUME ReceiptInv PROVE Receipts!FirstReceiptAnswers
      OBVIOUS
    <2>1. ASSUME NEW x \in told
          PROVE  /\ x[2] \in DOMAIN rows /\ rows[x[2]].form = x[1]
                 /\ \A i \in 1 .. x[2] - 1 : rows[i].form # x[1]
      BY DEF ReceiptInv, AnswersOK, Answers, Leads
    <2>2. ASSUME NEW f \in Form
          PROVE  (CHOOSE g : Adds(rows, OfForm(rows, f), g))[OfForm(rows, f)]
                   = Receipts!Cardinality(Submitted(f))
      <3>1. Attempts(rows, OfForm(rows, f)) = Cardinality(Submitted(f))
        BY DEF ReceiptInv, CountOK
      <3> QED BY <3>1, ChosenSum DEF Cardinality, Receipts!Cardinality
    <2> QED BY <2>1, <2>2 DEF Receipts!FirstReceiptAnswers, Receipts!MapThenSumSet,
           Receipts!MapThenFoldSet, Adds, First, Tries, OfForm, Submitted
  <1>4. SuiteInit => (active = "receipts" => ReceiptInv)
    BY <1>1, PartSteps
  <1>5. (active = "receipts" => ReceiptInv) /\ [SuiteNext]_suite
          => (active = "receipts" => ReceiptInv)'
    BY <1>2, PartSteps
  <1>6. (active = "receipts" => ReceiptInv) => FirstReceiptAnswers
    BY <1>3 DEF FirstReceiptAnswers
  <1> QED BY <1>4, <1>5, <1>6, PTL DEF SuiteSpec

------------------------------------------------------------------------------
(* The lists of the Nintendo Channel (NintendoTransfer). *)

\* What the fold takes first, and the equation of the function that a sum of sizes is
\* a value of.
Highest(U) == Transfer!Max(U)

Gathers(s, S, g) ==
  g = [U \in SUBSET S |-> IF U = {} THEN 0 ELSE g[U \ {Highest(U)}] + s[Highest(U)]]

Portion(s, n) == (CHOOSE g : Gathers(s, 1 .. n, g))[1 .. n]

\* The highest of the numbers is one of them, and not below any.
LEMMA HighestFacts ==
  ASSUME NEW U \in SUBSET Nat, IsFiniteSet(U), U # {}
  PROVE  Highest(U) \in U /\ \A y \in U : y <= Highest(U)
  <1>1. PICK m \in U : \A n \in U : n <= m
    BY GreatestNatural
  <1>2. \E x \in U : \A y \in U : x >= y
    BY <1>1
  <1> QED BY <1>2 DEF Highest, Transfer!Max

\* A sum of sizes is the portion of all of them.
LEMMA SumIsPortion ==
  ASSUME NEW s, NEW n, DOMAIN s = 1 .. n
  PROVE  Transfer!Sum(s) = Portion(s, n)
  BY DEF Transfer!Sum, Transfer!FoldLeft, Transfer!MapThenFoldSet, Portion, Gathers,
         Highest

\* Two such functions agree where both are defined.
LEMMA GathersAgree ==
  ASSUME NEW s, NEW S \in SUBSET Nat, IsFiniteSet(S), NEW T \in SUBSET Nat,
         NEW g, NEW h, Gathers(s, S, g), Gathers(s, T, h), NEW U \in SUBSET (S \cap T)
  PROVE  g[U] = h[U]
  <1> DEFINE Bad == {V \in SUBSET U : g[V] # h[V]}
  <1> SUFFICES ASSUME Bad # {} PROVE FALSE
    OBVIOUS
  <1>0. IsFiniteSet(U) /\ U \in SUBSET Nat
    BY FS_Subset
  <1>1. PICK V \in Bad : \A W \in SUBSET V : W # V => W \notin Bad
    <2>1. Bad \in SUBSET SUBSET U
      OBVIOUS
    <2> HIDE DEF Bad
    <2> QED BY <1>0, <2>1, SmallestPart
  <1>2. V \in SUBSET S /\ V \in SUBSET T
    BY <1>1
  <1>3. CASE V = {}
    BY <1>1, <1>2, <1>3 DEF Gathers
  <1>4. CASE V # {}
    <2> DEFINE W == V \ {Highest(V)}
    <2>0. Highest(V) \in V
      BY <1>0, <1>1, <1>4, FS_Subset, HighestFacts
    <2>1. W \in SUBSET V /\ W # V
      BY <2>0
    <2>2. g[W] = h[W]
      BY <2>1, <1>1, <1>2
    <2>3. g[V] = g[W] + s[Highest(V)]
      BY <1>2, <1>4 DEF Gathers
    <2>4. h[V] = h[W] + s[Highest(V)]
      BY <1>2, <1>4 DEF Gathers
    <2> QED BY <1>1, <2>2, <2>3, <2>4
  <1> QED BY <1>3, <1>4

\* There is one for every finite set of places: a smallest set without one could
\* take its values from those of its parts.
LEMMA GathersExist ==
  ASSUME NEW s, NEW S \in SUBSET Nat, IsFiniteSet(S)
  PROVE  \E g : Gathers(s, S, g)
  <1> DEFINE Bad == {T \in SUBSET S : ~ \E g : Gathers(s, T, g)}
  <1> SUFFICES ASSUME Bad # {} PROVE FALSE
    OBVIOUS
  <1>1. PICK T \in Bad : \A U \in SUBSET T : U # T => U \notin Bad
    <2>1. Bad \in SUBSET SUBSET S
      OBVIOUS
    <2> HIDE DEF Bad
    <2> QED BY <2>1, SmallestPart
  <1>2. T \in SUBSET S /\ ~ \E g : Gathers(s, T, g)
    BY <1>1
  <1>h. \A U \in SUBSET S : U # {} => Highest(U) \in U
    <2> TAKE U \in SUBSET S
    <2>1. IsFiniteSet(U) /\ U \in SUBSET Nat
      BY FS_Subset
    <2> QED BY <2>1, HighestFacts
  <1> DEFINE Of(U) == (CHOOSE g : Gathers(s, U, g))[U]
  <1>3. ASSUME NEW U \in SUBSET T, U # T
        PROVE  Of(U) = IF U = {} THEN 0 ELSE Of(U \ {Highest(U)}) + s[Highest(U)]
    <2>1. U \in SUBSET S /\ \E g : Gathers(s, U, g)
      BY <1>1, <1>2, <1>3
    <2> DEFINE gU == CHOOSE g : Gathers(s, U, g)
    <2>2. Gathers(s, U, gU)
      BY <2>1
    <2> HIDE DEF gU
    <2>3. gU[U] = IF U = {} THEN 0 ELSE gU[U \ {Highest(U)}] + s[Highest(U)]
      BY <2>2 DEF Gathers
    <2>4. CASE U = {}
      BY <2>3, <2>4 DEF gU
    <2>5. CASE U # {}
      <3> DEFINE V == U \ {Highest(U)}
                 gV == CHOOSE g : Gathers(s, V, g)
      <3>1. V \in SUBSET U /\ V # U
        BY <2>1, <2>5, <1>h
      <3>2. V \in SUBSET T /\ V # T /\ V \in SUBSET S
        BY <3>1, <1>2
      <3>3. \E g : Gathers(s, V, g)
        BY <3>2, <1>1
      <3>4. Gathers(s, V, gV)
        BY <3>3
      <3> HIDE DEF gV
      <3>5. gU[V] = gV[V]
        <4>1. V \in SUBSET (U \cap V) /\ U \in SUBSET Nat /\ V \in SUBSET Nat
          BY <2>1, <3>2
        <4>2. IsFiniteSet(U)
          BY <2>1, FS_Subset
        <4> HIDE DEF V
        <4> QED BY <4>1, <4>2, <3>4, <2>2, GathersAgree, SMTT(40)
      <3> QED BY <3>5, <2>3, <2>5 DEF gV, gU
    <2> QED BY <2>4, <2>5
  <1> DEFINE f == [U \in SUBSET T |->
                     IF U # T THEN Of(U)
                     ELSE IF U = {} THEN 0 ELSE Of(U \ {Highest(U)}) + s[Highest(U)]]
             f2 == [U \in SUBSET T |->
                     IF U = {} THEN 0 ELSE f[U \ {Highest(U)}] + s[Highest(U)]]
  <1> HIDE DEF Of
  <1>4. \A U \in SUBSET T : f[U] = f2[U]
    <2> TAKE U \in SUBSET T
    <2>1. CASE U = {}
      BY <2>1, <1>3
    <2>2. CASE U # {}
      <3>1. U \ {Highest(U)} \in SUBSET T /\ U \ {Highest(U)} # T
        BY <2>2, <1>2, <1>h
      <3>2. f[U \ {Highest(U)}] = Of(U \ {Highest(U)})
        BY <3>1
      <3> QED BY <3>2, <2>2, <1>3
    <2> QED BY <2>1, <2>2
  <1>5. f = [U \in SUBSET T |-> f[U]] /\ f2 = [U \in SUBSET T |-> f2[U]]
    OBVIOUS
  <1>6. f = f2
    <2> HIDE DEF f, f2
    <2> QED BY <1>4, <1>5
  <1>7. Gathers(s, T, f)
    <2>1. f2 = [U \in SUBSET T |->
                 IF U = {} THEN 0 ELSE f[U \ {Highest(U)}] + s[Highest(U)]]
      OBVIOUS
    <2> HIDE DEF f, f2
    <2> QED BY <1>6, <2>1 DEF Gathers
  <1> QED BY <1>2, <1>7

\* A portion of one size more.
LEMMA PortionValue ==
  ASSUME NEW s, NEW n \in Nat
  PROVE  Portion(s, 0) = 0 /\ Portion(s, n + 1) = Portion(s, n) + s[n + 1]
  <1>1. \A m \in Nat : IsFiniteSet(1 .. m) /\ 1 .. m \in SUBSET Nat
    BY FS_Interval
  <1>2. \A m \in Nat : \E g : Gathers(s, 1 .. m, g)
    BY <1>1, GathersExist
  <1> DEFINE z == CHOOSE g : Gathers(s, 1 .. 0, g)
             g == CHOOSE k : Gathers(s, 1 .. n + 1, k)
             h == CHOOSE k : Gathers(s, 1 .. n, k)
  <1>3. Gathers(s, 1 .. 0, z) /\ Gathers(s, 1 .. n + 1, g) /\ Gathers(s, 1 .. n, h)
    BY <1>2
  <1>4. Portion(s, 0) = z[1 .. 0] /\ Portion(s, n + 1) = g[1 .. n + 1] /\ Portion(s, n) = h[1 .. n]
    BY DEF Portion
  <1> HIDE DEF z, g, h
  <1>5. z[1 .. 0] = 0
    BY <1>3 DEF Gathers
  <1>6. Highest(1 .. n + 1) = n + 1
    <2>1. n + 1 \in 1 .. n + 1 /\ 1 .. n + 1 # {}
      OBVIOUS
    <2>2. Highest(1 .. n + 1) \in 1 .. n + 1 /\ n + 1 <= Highest(1 .. n + 1)
      BY <1>1, <2>1, HighestFacts
    <2> QED BY <2>2
  <1>7. (1 .. n + 1) \ {n + 1} = 1 .. n
    OBVIOUS
  <1>8. g[1 .. n + 1] = g[1 .. n] + s[n + 1]
    <2> DEFINE S == 1 .. n + 1
    <2>1. n + 1 \in S
      OBVIOUS
    <2> HIDE DEF S
    <2>2. g[S] = g[S \ {Highest(S)}] + s[Highest(S)]
      BY <1>3, <2>1 DEF Gathers, S
    <2> QED BY <1>6, <1>7, <2>2 DEF S
  <1>9. g[1 .. n] = h[1 .. n]
    <2> DEFINE R == 1 .. n
               S == 1 .. n + 1
    <2>1. \A i \in R : i \in S
      OBVIOUS
    <2>2. IsFiniteSet(S) /\ S \in SUBSET Nat /\ R \in SUBSET Nat
      BY <1>1
    <2> HIDE DEF R, S
    <2>3. R \in SUBSET (S \cap R)
      BY <2>1
    <2>4. Gathers(s, S, g) /\ Gathers(s, R, h)
      BY <1>3 DEF R, S
    <2>5. g[R] = h[R]
      BY <2>2, <2>3, <2>4, GathersAgree, SMTT(40)
    <2> QED BY <2>5 DEF R
  <1> QED BY <1>4, <1>5, <1>8, <1>9

\* A portion is a number.
LEMMA PortionType ==
  ASSUME NEW s \in Seq(Nat)
  PROVE  \A n \in 0 .. Len(s) : Portion(s, n) \in Nat
  <1> DEFINE Bad == {n \in 0 .. Len(s) : Portion(s, n) \notin Nat}
  <1> SUFFICES ASSUME Bad # {} PROVE FALSE
    OBVIOUS
  <1>1. PICK m \in Bad : \A n \in Bad : m <= n
    <2>1. Bad \in SUBSET Nat
      OBVIOUS
    <2> HIDE DEF Bad
    <2> QED BY <2>1, LeastNatural
  <1>2. m # 0
    BY <1>1, PortionValue
  <1>3. m - 1 \in 0 .. Len(s) /\ m - 1 \in Nat /\ m - 1 \notin Bad /\ m = (m - 1) + 1
    BY <1>1, <1>2
  <1>4. Portion(s, m) = Portion(s, m - 1) + s[m]
    BY <1>3, PortionValue
  <1>5. s[m] \in Nat
    BY <1>1, <1>2
  <1> QED BY <1>1, <1>3, <1>4, <1>5

\* The first size and a portion of the others.
LEMMA PortionOfTail ==
  ASSUME NEW s \in Seq(Nat), s # <<>>
  PROVE  \A n \in 0 .. Len(s) - 1 : Portion(s, n + 1) = s[1] + Portion(Tail(s), n)
  <1> DEFINE t   == Tail(s)
             Bad == {n \in 0 .. Len(s) - 1 : Portion(s, n + 1) # s[1] + Portion(t, n)}
  <1>0. /\ t \in Seq(Nat) /\ Len(t) = Len(s) - 1 /\ Len(s) \in Nat \ {0}
        /\ \A i \in 1 .. Len(s) - 1 : t[i] = s[i + 1] /\ t[i] \in Nat
    OBVIOUS
  <1>t. \A n \in 0 .. Len(s) - 1 : Portion(t, n) \in Nat
    <2> HIDE DEF t
    <2> QED BY <1>0, PortionType
  <1> HIDE DEF t
  <1> SUFFICES ASSUME Bad # {} PROVE FALSE
    BY DEF t
  <1>1. PICK m \in Bad : \A n \in Bad : m <= n
    <2>1. Bad \in SUBSET Nat
      BY <1>0
    <2> HIDE DEF Bad
    <2> QED BY <2>1, LeastNatural
  <1>2. m # 0
    <2>1. Portion(s, 0 + 1) = Portion(s, 0) + s[0 + 1] /\ Portion(s, 0) = 0 /\ Portion(t, 0) = 0
      BY PortionValue
    <2>2. s[1] \in Nat
      BY <1>0
    <2> QED BY <2>1, <2>2, <1>1
  <1>3. m - 1 \in 0 .. Len(s) - 1 /\ m - 1 \in Nat /\ m - 1 \notin Bad /\ (m - 1) + 1 = m /\ m \in Nat
    BY <1>0, <1>1, <1>2
  <1>4. Portion(s, m) = s[1] + Portion(t, m - 1)
    BY <1>3
  <1>5. Portion(s, m + 1) = Portion(s, m) + s[m + 1] /\ Portion(t, m) = Portion(t, m - 1) + t[m]
    <2>1. Portion(t, (m - 1) + 1) = Portion(t, m - 1) + t[(m - 1) + 1]
      BY <1>3, PortionValue
    <2> QED BY <1>3, <2>1, PortionValue
  <1>6. t[m] = s[m + 1] /\ t[m] \in Nat /\ s[1] \in Nat /\ Portion(t, m - 1) \in Nat
    <2>1. m \in 1 .. Len(s) - 1
      BY <1>0, <1>1, <1>2
    <2>2. s[1] \in Nat
      <3>1. 1 \in 1 .. Len(s)
        BY <1>0
      <3> QED BY <3>1
    <2>3. t[m] = s[m + 1] /\ t[m] \in Nat
      BY <1>0, <2>1
    <2>4. Portion(t, m - 1) \in Nat
      BY <1>3, <1>t
    <2> QED BY <2>2, <2>3, <2>4
  <1>7. Portion(s, m + 1) = (s[1] + Portion(t, m - 1)) + t[m]
    BY <1>4, <1>5, <1>6
  <1>8. Portion(s, m + 1) = s[1] + (Portion(t, m - 1) + t[m])
    <2> HIDE DEF Bad
    <2> QED BY <1>6, <1>7
  <1>9. Portion(s, m + 1) = s[1] + Portion(t, m)
    BY <1>5, <1>8
  <1> QED BY <1>1, <1>9

\* The sum of no size, and of a size and the others.
LEMMA SumFacts ==
  /\ Transfer!Sum(<<>>) = 0
  /\ \A s \in Seq(Nat) :
       /\ Transfer!Sum(s) \in Nat
       /\ s # <<>> => Transfer!Sum(s) = Head(s) + Transfer!Sum(Tail(s))
  <1>1. Transfer!Sum(<<>>) = 0
    <2>1. DOMAIN <<>> = 1 .. 0
      OBVIOUS
    <2> QED BY <2>1, SumIsPortion, PortionValue
  <1>2. ASSUME NEW s \in Seq(Nat)
        PROVE  Transfer!Sum(s) = Portion(s, Len(s)) /\ Len(s) \in 0 .. Len(s)
    <2>1. DOMAIN s = 1 .. Len(s) /\ Len(s) \in Nat
      OBVIOUS
    <2> QED BY <2>1, SumIsPortion
  <1>3. ASSUME NEW s \in Seq(Nat), s # <<>>
        PROVE  Transfer!Sum(s) = Head(s) + Transfer!Sum(Tail(s))
    <2> DEFINE n == Len(s) - 1
    <2>1. /\ Tail(s) \in Seq(Nat) /\ Len(Tail(s)) = n /\ n \in 0 .. Len(s) - 1
          /\ n + 1 = Len(s) /\ Head(s) = s[1]
      BY <1>3
    <2>2. Portion(s, n + 1) = s[1] + Portion(Tail(s), n)
      <3> HIDE DEF n
      <3> QED BY <1>3, <2>1, PortionOfTail
    <2> QED BY <1>2, <2>1, <2>2
  <1> QED BY <1>1, <1>2, <1>3, PortionType

Cell == Nat \X Int

ListState ==
  [buffer : [1 .. Capacity -> Cell], copied : 0 .. Capacity, word_04 : {1, 2},
   word_08 : 2 .. 7, error : Int, retry : {-1, 0, 1}, skipped : BOOLEAN]

ListServer == [bodies : Seq(Seq(Nat)), left : Seq(Nat), over : BOOLEAN]

\* The first bytes of an attempt are in the buffer, and nothing else counts.
Brings(s, a) == \A i \in 1 .. s.copied : s.buffer[i] = <<a, i>>

WholeBody(s, bodies) ==
  \E a \in DOMAIN bodies : s.copied = Transfer!Sum(bodies[a]) /\ Brings(s, a)

ListTypeOK == state \in ListState /\ server \in ListServer /\ server.bodies # <<>>

\* The attempt is over in every phase but two, in which what was copied and what is
\* still to come are the body.
UnderWay ==
  /\ server.over <=> state.word_08 \notin {2, 4}
  /\ ~server.over /\ ~state.skipped =>
       /\ state.copied + Transfer!Sum(server.left)
            = Transfer!Sum(server.bodies[Transfer!Attempt])
       /\ Brings(state, Transfer!Attempt)

Done == state.word_08 \in {3, 5} /\ ~state.skipped => WholeBody(state, server.bodies)

\* A poll that may be handed over holds a whole body, whatever came after it.
PollOK ==
  poll # None /\ poll.reached =>
    /\ poll.state \in ListState
    /\ ~poll.state.skipped => WholeBody(poll.state, server.bodies)

TransferInv == ListTypeOK /\ UnderWay /\ Done /\ PollOK /\ Transfer!HandoffIsWhole

\* The next chunk, and what is left after it.
LEMMA ChunkFacts ==
  ASSUME ListTypeOK
  PROVE  /\ Transfer!Attempt \in DOMAIN server.bodies /\ Transfer!Attempt \in Nat
         /\ Transfer!NextChunk \in Seq(Cell) /\ Transfer!AfterChunk \in Seq(Nat)
         /\ Transfer!Sum(server.left)
              = Len(Transfer!NextChunk) + Transfer!Sum(Transfer!AfterChunk)
         /\ \A i \in 1 .. Len(Transfer!NextChunk) :
              Transfer!NextChunk[i] =
                <<Transfer!Attempt,
                  (Transfer!Sum(server.bodies[Transfer!Attempt])
                     - Transfer!Sum(server.left)) + i>>
  <1> DEFINE a    == Transfer!Attempt
             from == Transfer!Sum(server.bodies[a]) - Transfer!Sum(server.left)
  <1>1. server.bodies \in Seq(Seq(Nat)) /\ server.left \in Seq(Nat) /\ server.bodies # <<>>
    BY DEF ListTypeOK, ListServer
  <1>2. a \in DOMAIN server.bodies /\ a \in Nat
    BY <1>1 DEF Transfer!Attempt
  <1>3. server.bodies[a] \in Seq(Nat)
    BY <1>1, <1>2
  <1>4. from \in Int /\ Transfer!Sum(server.left) \in Nat
    BY <1>1, <1>3, SumFacts
  <1>5. CASE server.left = <<>>
    <2>1. Transfer!NextChunk = <<>> /\ Transfer!AfterChunk = <<>>
      BY <1>5 DEF Transfer!NextChunk, Transfer!AfterChunk
    <2>2. <<>> \in Seq(Cell) /\ <<>> \in Seq(Nat) /\ Len(<<>>) = 0
      OBVIOUS
    <2> QED BY <1>2, <1>5, <2>1, <2>2, SumFacts
  <1>6. CASE server.left # <<>>
    <2> DEFINE n == Head(server.left)
    <2>1. /\ Transfer!NextChunk = [i \in 1 .. n |-> <<a, from + i>>]
          /\ Transfer!AfterChunk = Tail(server.left)
      BY <1>6 DEF Transfer!NextChunk, Transfer!AfterChunk, Transfer!Bytes
    <2>2. n \in Nat /\ Tail(server.left) \in Seq(Nat)
      BY <1>1, <1>6
    <2> HIDE DEF n, a, from
    <2>3. \A i \in 1 .. n : <<a, from + i>> \in Cell
      BY <1>2, <1>4, <2>2 DEF Cell
    <2>4. Transfer!NextChunk \in [1 .. n -> Cell]
      BY <2>1, <2>3
    <2>5. Transfer!NextChunk \in Seq(Cell) /\ Len(Transfer!NextChunk) = n
      BY <2>2, <2>4
    <2>6. \A i \in 1 .. n : Transfer!NextChunk[i] = <<a, from + i>>
      BY <2>1
    <2>7. Transfer!Sum(server.left) = n + Transfer!Sum(Transfer!AfterChunk)
      BY <1>1, <1>6, <2>1, SumFacts DEF n
    <2> QED BY <1>2, <2>1, <2>2, <2>5, <2>6, <2>7 DEF a, from
  <1> QED BY <1>5, <1>6

\* What a callback makes of the state, when it keeps the chunk and when it skips it.
LEMMA KeptFacts ==
  ASSUME ListTypeOK, NEW c \in Seq(Cell)
  PROVE  /\ Transfer!Kept(c) \in ListState
         /\ Transfer!Kept(c).word_08 = state.word_08
         /\ ~Transfer!Kept(c).skipped =>
              /\ ~state.skipped
              /\ Transfer!Kept(c).copied = state.copied + Len(c)
              /\ \A i \in 1 .. state.copied :
                   Transfer!Kept(c).buffer[i] = state.buffer[i]
              /\ \A i \in 1 .. Len(c) :
                   Transfer!Kept(c).buffer[state.copied + i] = c[i]
  <1> DEFINE n == state.copied
             b == [i \in 1 .. Capacity |->
                     IF i \in n + 1 .. n + Len(c) THEN c[i - n] ELSE state.buffer[i]]
  <1>1. /\ n \in 0 .. Capacity /\ Len(c) \in Nat /\ Capacity \in Nat
        /\ state.buffer \in [1 .. Capacity -> Cell] /\ state \in ListState
        /\ \A i \in 1 .. Len(c) : c[i] \in Cell
    BY TransferAssumption DEF ListTypeOK, ListState
  <1>2. CASE Len(c) <= Capacity - n
    <2>1. Transfer!Kept(c) = [state EXCEPT !.buffer = b, !.copied = n + Len(c)]
      BY <1>2 DEF Transfer!Kept, Transfer!Copied
    <2>2. \A i \in 1 .. Capacity :
            (IF i \in n + 1 .. n + Len(c) THEN c[i - n] ELSE state.buffer[i]) \in Cell
      <3> TAKE i \in 1 .. Capacity
      <3>1. CASE i \in n + 1 .. n + Len(c)
        <4>1. i - n \in 1 .. Len(c)
          BY <1>1, <3>1
        <4> QED BY <1>1, <3>1, <4>1
      <3>2. CASE i \notin n + 1 .. n + Len(c)
        BY <1>1, <3>2
      <3> QED BY <3>1, <3>2
    <2>3. b \in [1 .. Capacity -> Cell] /\ n + Len(c) \in 0 .. Capacity
      BY <1>1, <1>2, <2>2
    <2>4. \A i \in 1 .. n : b[i] = state.buffer[i]
      BY <1>1
    <2>5. \A i \in 1 .. Len(c) : b[n + i] = c[i]
      <3> TAKE i \in 1 .. Len(c)
      <3>1. n + i \in 1 .. Capacity /\ n + i \in n + 1 .. n + Len(c) /\ (n + i) - n = i
        BY <1>1, <1>2
      <3> QED BY <3>1
    <2> HIDE DEF b
    <2>6. /\ Transfer!Kept(c) \in ListState
          /\ Transfer!Kept(c).word_08 = state.word_08
          /\ Transfer!Kept(c).skipped = state.skipped
          /\ Transfer!Kept(c).copied = n + Len(c)
          /\ Transfer!Kept(c).buffer = b
      BY <1>1, <2>1, <2>3 DEF ListState
    <2> QED BY <2>4, <2>5, <2>6
  <1>3. CASE ~ (Len(c) <= Capacity - n)
    <2>1. Transfer!Kept(c) = [state EXCEPT !.skipped = TRUE]
      BY <1>3 DEF Transfer!Kept
    <2> QED BY <1>1, <2>1 DEF ListState
  <1> QED BY <1>2, <1>3

\* A whole body stays one when more attempts are made.
LEMMA WholeStays ==
  ASSUME NEW s, NEW bodies, NEW more, WholeBody(s, bodies),
         \A a \in DOMAIN bodies : a \in DOMAIN more /\ more[a] = bodies[a]
  PROVE  WholeBody(s, more)
  <1>1. PICK a \in DOMAIN bodies : s.copied = Transfer!Sum(bodies[a]) /\ Brings(s, a)
    BY DEF WholeBody
  <1>2. a \in DOMAIN more /\ s.copied = Transfer!Sum(more[a])
    BY <1>1
  <1> QED BY <1>1, <1>2 DEF WholeBody

\* What the changes of single words lead to.
LEMMA Finished ==
  ASSUME NEW k \in ListState, NEW r \in {-1, 0, 1}
  PROVE  LET t == [k EXCEPT !.word_08 = 3, !.retry = r] IN
         /\ t \in ListState /\ t.word_08 = 3 /\ t.skipped = k.skipped
         /\ t.copied = k.copied /\ t.buffer = k.buffer
  <1> DEFINE w == 3
             t == [k EXCEPT !.word_08 = w, !.retry = r]
  <1>1. w \in 2 .. 7
    OBVIOUS
  <1> HIDE DEF w
  <1>2. /\ t \in ListState /\ t.word_08 = w /\ t.skipped = k.skipped
        /\ t.copied = k.copied /\ t.buffer = k.buffer
    BY <1>1 DEF ListState
  <1> QED BY <1>2 DEF w

\* A request that breaks off, with or without another try.
LEMMA Broken ==
  ASSUME NEW k \in ListState
  PROVE  /\ LET t == [k EXCEPT !.retry = 1, !.word_04 = 2, !.word_08 = 7] IN
            t \in ListState /\ t.word_08 = 7
         /\ LET t == [k EXCEPT !.error = Transfer!Reported, !.word_08 = 6] IN
            t \in ListState /\ t.word_08 = 6
  <1> DEFINE w == 7
             v == 6
             n == 2
             r == 1
             e == Transfer!Reported
             t == [k EXCEPT !.retry = r, !.word_04 = n, !.word_08 = w]
             u == [k EXCEPT !.error = e, !.word_08 = v]
  <1>1. /\ w \in 2 .. 7 /\ v \in 2 .. 7 /\ n \in {1, 2} /\ r \in {-1, 0, 1}
        /\ e \in Int
    BY DEF Transfer!Reported
  <1> HIDE DEF w, v, n, r, e
  <1>2. t \in ListState /\ t.word_08 = w
    BY <1>1 DEF ListState
  <1>3. u \in ListState /\ u.word_08 = v
    BY <1>1 DEF ListState
  <1> QED BY <1>2, <1>3 DEF w, v, n, r, e

\* The server ends its answer.
LEMMA ServerEnds ==
  ASSUME NEW s \in ListServer, NEW t, t = [s EXCEPT !.left = <<>>, !.over = TRUE]
  PROVE  t \in ListServer /\ t.bodies = s.bodies /\ t.over
  <1>1. <<>> \in Seq(Nat)
    OBVIOUS
  <1>2. /\ s = [bodies |-> s.bodies, left |-> s.left, over |-> s.over]
        /\ s.bodies \in Seq(Seq(Nat))
    BY DEF ListServer
  <1>3. t = [bodies |-> s.bodies, left |-> <<>>, over |-> TRUE]
    BY <1>2
  <1> QED BY <1>1, <1>2, <1>3 DEF ListServer

\* What every step but a hand-over needs to show.
LEMMA ListsRest ==
  ASSUME TransferInv, ListTypeOK', UnderWay', Done', handed' = handed,
         \A a \in DOMAIN server.bodies :
           a \in DOMAIN server'.bodies /\ server'.bodies[a] = server.bodies[a],
         \/ poll' = poll
         \/ poll'.reached => poll'.state = state' /\ state'.word_08 \in {3, 5}
  PROVE  TransferInv'
  <1>1. PollOK'
    <2>1. CASE poll' = poll
      BY <2>1, WholeStays DEF TransferInv, PollOK
    <2>2. CASE poll'.reached => poll'.state = state' /\ state'.word_08 \in {3, 5}
      BY <2>2 DEF PollOK, Done, ListTypeOK
    <2> QED BY <2>1, <2>2
  <1>2. Transfer!HandoffIsWhole'
    BY DEF TransferInv, Transfer!HandoffIsWhole
  <1> QED BY <1>1, <1>2 DEF TransferInv

\* A poll answers for the state that it leaves.
LEMMA PollFacts ==
  ASSUME NEW next, NEW raw, Transfer!Polled(next, raw)
  PROVE  /\ state' = next /\ handed' = handed
         /\ poll'.reached => poll'.state = state' /\ state'.word_08 \in {3, 5} /\ raw = 0
  BY DEF Transfer!Polled

\* A chunk that is kept brings the next bytes of the attempt.
LEMMA ChunkKept ==
  ASSUME ListTypeOK, UnderWay, ~server.over
  PROVE  /\ Transfer!Kept(Transfer!NextChunk) \in ListState
         /\ Transfer!Kept(Transfer!NextChunk).word_08 = state.word_08
         /\ ~Transfer!Kept(Transfer!NextChunk).skipped =>
              /\ Transfer!Kept(Transfer!NextChunk).copied
                   + Transfer!Sum(Transfer!AfterChunk)
                   = Transfer!Sum(server.bodies[Transfer!Attempt])
              /\ Brings(Transfer!Kept(Transfer!NextChunk), Transfer!Attempt)
  <1> DEFINE c == Transfer!NextChunk
             a == Transfer!Attempt
             k == Transfer!Kept(c)
  <1>3. /\ a \in DOMAIN server.bodies /\ a \in Nat
        /\ c \in Seq(Cell) /\ Transfer!AfterChunk \in Seq(Nat)
        /\ Transfer!Sum(server.left) = Len(c) + Transfer!Sum(Transfer!AfterChunk)
        /\ \A i \in 1 .. Len(c) :
             c[i] = <<a, (Transfer!Sum(server.bodies[a]) - Transfer!Sum(server.left)) + i>>
    BY ChunkFacts
  <1> HIDE DEF c
  <1>6. /\ k \in ListState /\ k.word_08 = state.word_08
        /\ ~k.skipped =>
             /\ ~state.skipped /\ k.copied = state.copied + Len(c)
             /\ \A i \in 1 .. state.copied : k.buffer[i] = state.buffer[i]
             /\ \A i \in 1 .. Len(c) : k.buffer[state.copied + i] = c[i]
    BY <1>3, KeptFacts
  <1> HIDE DEF a, k
  <1>7. ASSUME ~k.skipped
        PROVE  /\ k.copied + Transfer!Sum(Transfer!AfterChunk)
                    = Transfer!Sum(server.bodies[a])
               /\ Brings(k, a)
    <2>1. /\ state.copied + Transfer!Sum(server.left) = Transfer!Sum(server.bodies[a])
          /\ Brings(state, a)
      BY <1>6, <1>7 DEF UnderWay, a
    <2>2. /\ state.copied \in Nat /\ Len(c) \in Nat /\ Transfer!Sum(server.left) \in Nat
          /\ Transfer!Sum(Transfer!AfterChunk) \in Nat
      BY <1>3, SumFacts DEF ListTypeOK, ListState, ListServer
    <2>3. Transfer!Sum(server.bodies[a]) - Transfer!Sum(server.left) = state.copied
      BY <2>1, <2>2
    <2>4. k.copied + Transfer!Sum(Transfer!AfterChunk) = Transfer!Sum(server.bodies[a])
      BY <1>3, <1>6, <1>7, <2>1, <2>2
    <2>5. ASSUME NEW i \in 1 .. k.copied PROVE k.buffer[i] = <<a, i>>
      <3>1. CASE i <= state.copied
        <4>1. i \in 1 .. state.copied
          BY <2>2, <3>1, <1>6, <1>7
        <4> QED BY <1>6, <1>7, <2>1, <4>1 DEF Brings
      <3>2. CASE ~ (i <= state.copied)
        <4>1. i - state.copied \in 1 .. Len(c) /\ state.copied + (i - state.copied) = i
          BY <2>2, <3>2, <1>6, <1>7
        <4>2. k.buffer[i] = c[i - state.copied]
          BY <1>6, <1>7, <4>1
        <4>3. c[i - state.copied] = <<a, state.copied + (i - state.copied)>>
          BY <1>3, <2>3, <4>1
        <4> QED BY <4>1, <4>2, <4>3
      <3> QED BY <3>1, <3>2
    <2> QED BY <2>4, <2>5 DEF Brings
  <1> QED BY <1>6, <1>7 DEF k, c, a

\* Callbacks: a chunk, the end of the body, and an error.
LEMMA ListsData ==
  ASSUME TransferInv, Transfer!Data
  PROVE  TransferInv'
  <1>1. /\ ~server.over /\ state' = Transfer!Kept(Transfer!NextChunk)
        /\ poll' = poll /\ handed' = handed
        /\ server' = [server EXCEPT !.left = Transfer!AfterChunk]
    BY DEF Transfer!Data
  <1>2. ListTypeOK /\ UnderWay
    BY DEF TransferInv
  <1>3. Transfer!AfterChunk \in Seq(Nat)
    BY <1>2, ChunkFacts
  <1>4. /\ server' \in ListServer /\ server'.bodies = server.bodies
        /\ server'.left = Transfer!AfterChunk /\ server'.over = server.over
    BY <1>1, <1>2, <1>3 DEF ListTypeOK, ListServer
  <1>5. Transfer!Attempt' = Transfer!Attempt
    BY <1>4 DEF Transfer!Attempt
  <1>6. /\ state' \in ListState /\ state'.word_08 = state.word_08
        /\ ~state'.skipped =>
             /\ state'.copied + Transfer!Sum(Transfer!AfterChunk)
                  = Transfer!Sum(server.bodies[Transfer!Attempt])
             /\ Brings(state', Transfer!Attempt)
    BY <1>1, <1>2, ChunkKept
  <1>7. ListTypeOK'
    BY <1>2, <1>4, <1>6 DEF ListTypeOK
  <1>8. UnderWay'
    BY <1>2, <1>4, <1>5, <1>6 DEF UnderWay
  <1>9. Done'
    BY <1>1, <1>2, <1>6 DEF Done, UnderWay
  <1> QED BY <1>1, <1>4, <1>7, <1>8, <1>9, ListsRest

\* The answer is complete.
LEMMA ListsComplete ==
  ASSUME TransferInv, Transfer!Complete
  PROVE  TransferInv'
  <1> DEFINE a == Transfer!Attempt
             k == Transfer!Kept(Transfer!NextChunk)
             retry == IF state.retry = -1 THEN 0 ELSE state.retry
  <1>1. /\ ~server.over /\ Transfer!AfterChunk = <<>>
        /\ state' = [k EXCEPT !.word_08 = 3, !.retry = retry]
        /\ poll' = poll /\ handed' = handed
        /\ server' = [server EXCEPT !.left = <<>>, !.over = TRUE]
    BY DEF Transfer!Complete
  <1>2. ListTypeOK /\ UnderWay
    BY DEF TransferInv
  <1>3. a \in DOMAIN server.bodies
    BY <1>2, ChunkFacts
  <1>4. server' \in ListServer /\ server'.bodies = server.bodies /\ server'.over
    BY <1>1, <1>2, ServerEnds DEF ListTypeOK
  <1>5. retry \in {-1, 0, 1}
    BY <1>2 DEF ListTypeOK, ListState
  <1>6. /\ k \in ListState
        /\ ~k.skipped =>
             k.copied + Transfer!Sum(<<>>) = Transfer!Sum(server.bodies[a]) /\ Brings(k, a)
    BY <1>1, <1>2, ChunkKept
  <1> HIDE DEF k, a, retry
  <1>7. /\ state' \in ListState /\ state'.word_08 = 3 /\ state'.skipped = k.skipped
        /\ state'.copied = k.copied /\ state'.buffer = k.buffer
    BY <1>1, <1>5, <1>6, Finished
  <1>8. ListTypeOK'
    BY <1>2, <1>4, <1>7 DEF ListTypeOK
  <1>9. UnderWay'
    BY <1>4, <1>7 DEF UnderWay
  <1>10. Done'
    <2> SUFFICES ASSUME ~state'.skipped PROVE WholeBody(state', server'.bodies)
      BY DEF Done
    <2>1. k.copied \in Nat
      BY <1>6 DEF ListState
    <2>2. state'.copied = Transfer!Sum(server'.bodies[a]) /\ Brings(state', a)
      BY <1>4, <1>6, <1>7, <2>1, SumFacts DEF Brings
    <2> QED BY <1>3, <1>4, <2>2 DEF WholeBody
  <1> QED BY <1>1, <1>4, <1>8, <1>9, <1>10, ListsRest

\* The connection breaks.
LEMMA ListsBreak ==
  ASSUME TransferInv, NEW worthRetry \in BOOLEAN,
         Transfer!Break(worthRetry)
  PROVE  TransferInv'
  <1>1. /\ ~server.over /\ poll' = poll /\ handed' = handed
        /\ server' = [server EXCEPT !.left = <<>>, !.over = TRUE]
    BY DEF Transfer!Break
  <1>2. PICK chunk \in {<<>>, Transfer!NextChunk} :
          \/ state' = [Transfer!Kept(chunk) EXCEPT !.retry = 1, !.word_04 = 2, !.word_08 = 7]
          \/ state' = [Transfer!Kept(chunk) EXCEPT !.error = Transfer!Reported,
                                                    !.word_08 = 6]
    BY DEF Transfer!Break
  <1>3. ListTypeOK
    BY DEF TransferInv
  <1>4. server' \in ListServer /\ server'.bodies = server.bodies /\ server'.over
    BY <1>1, <1>3, ServerEnds DEF ListTypeOK
  <1>5. chunk \in Seq(Cell)
    <2>1. <<>> \in Seq(Cell) /\ Transfer!NextChunk \in Seq(Cell)
      BY <1>3, ChunkFacts
    <2> QED BY <1>2, <2>1
  <1> DEFINE k == Transfer!Kept(chunk)
  <1>6. k \in ListState
    BY <1>3, <1>5, KeptFacts
  <1> HIDE DEF k
  <1>7. state' \in ListState /\ state'.word_08 \in {6, 7}
    <2>1. CASE state' = [k EXCEPT !.retry = 1, !.word_04 = 2, !.word_08 = 7]
      BY <1>6, <2>1, Broken
    <2>2. CASE state' = [k EXCEPT !.error = Transfer!Reported, !.word_08 = 6]
      BY <1>6, <2>2, Broken
    <2> QED BY <1>2, <2>1, <2>2 DEF k
  <1>8. ListTypeOK' /\ UnderWay' /\ Done'
    BY <1>3, <1>4, <1>7 DEF ListTypeOK, UnderWay, Done
  <1> QED BY <1>1, <1>4, <1>8, ListsRest

\* A poll that leaves the bytes and the phase, and the attempt.
LEMMA ListsLook ==
  ASSUME TransferInv, NEW raw, server' = server, Transfer!Polled(state', raw),
         state' \in ListState, state'.copied = state.copied, state'.buffer = state.buffer,
         state'.word_08 = state.word_08, state'.skipped = state.skipped
  PROVE  TransferInv'
  <1>1. /\ handed' = handed
        /\ poll'.reached => poll'.state = state' /\ state'.word_08 \in {3, 5}
    BY PollFacts
  <1>2. ListTypeOK'
    BY DEF TransferInv, ListTypeOK
  <1>3. Transfer!Attempt' = Transfer!Attempt
    BY DEF Transfer!Attempt
  <1>4. UnderWay'
    BY <1>3 DEF TransferInv, UnderWay, Brings
  <1>5. Done'
    BY DEF TransferInv, Done, WholeBody, Brings
  <1> QED BY <1>1, <1>2, <1>4, <1>5, ListsRest

\* What a restart makes of the state (start).
LEMMA Restarted ==
  ASSUME NEW k \in ListState
  PROVE  /\ LET t == [k EXCEPT !.word_04 = 1] IN
            /\ t \in ListState /\ t.copied = k.copied /\ t.buffer = k.buffer
            /\ t.word_08 = k.word_08 /\ t.skipped = k.skipped
         /\ LET t == [k EXCEPT !.error = Transfer!Expired] IN
            /\ t \in ListState /\ t.copied = k.copied /\ t.buffer = k.buffer
            /\ t.word_08 = k.word_08 /\ t.skipped = k.skipped
         /\ LET t == [k EXCEPT !.word_08 = 5] IN
            /\ t \in ListState /\ t.copied = k.copied /\ t.buffer = k.buffer
            /\ t.word_08 = 5 /\ t.skipped = k.skipped
  <1> DEFINE n == 1
             e == Transfer!Expired
             w == 5
             t == [k EXCEPT !.word_04 = n]
             u == [k EXCEPT !.error = e]
             v == [k EXCEPT !.word_08 = w]
  <1>1. n \in {1, 2} /\ e \in Int /\ w \in 2 .. 7
    BY DEF Transfer!Expired
  <1> HIDE DEF n, e, w
  <1>2. /\ t \in ListState /\ t.copied = k.copied /\ t.buffer = k.buffer
        /\ t.word_08 = k.word_08 /\ t.skipped = k.skipped
    BY <1>1 DEF ListState
  <1>3. /\ u \in ListState /\ u.copied = k.copied /\ u.buffer = k.buffer
        /\ u.word_08 = k.word_08 /\ u.skipped = k.skipped
    BY <1>1 DEF ListState
  <1>4. /\ v \in ListState /\ v.copied = k.copied /\ v.buffer = k.buffer
        /\ v.word_08 = w /\ v.skipped = k.skipped
    BY <1>1 DEF ListState
  <1> QED BY <1>2, <1>3, <1>4 DEF n, e, w

\* What a fresh request looks like.
LEMMA FreshFacts ==
  ASSUME ListTypeOK
  PROVE  /\ LET t == [Transfer!Fresh EXCEPT !.error = Transfer!Expired] IN
            t \in ListState /\ t.word_08 = state.word_08
         /\ LET t == [Transfer!Fresh EXCEPT !.word_04 = 2, !.word_08 = 2] IN
            t \in ListState /\ t.word_08 = 2 /\ t.copied = 0
  <1> DEFINE n == 1
             m == 2
             w == 2
             z == 0
             f == FALSE
             e == Transfer!Expired
             k == [state EXCEPT !.word_04 = n, !.copied = z, !.skipped = f]
  <1>0. Transfer!Fresh = k
    BY DEF Transfer!Fresh
  <1>1. /\ n \in {1, 2} /\ m \in {1, 2} /\ w \in 2 .. 7 /\ e \in Int
        /\ z \in 0 .. Capacity /\ f \in BOOLEAN
    BY TransferAssumption DEF Transfer!Expired
  <1> HIDE DEF n, m, w, z, f, e
  <1>2. k \in ListState /\ k.word_08 = state.word_08 /\ k.copied = z
    BY <1>1 DEF ListTypeOK, ListState
  <1> DEFINE t == [k EXCEPT !.error = e]
             u == [k EXCEPT !.word_04 = m, !.word_08 = w]
  <1> HIDE DEF k
  <1>3. t \in ListState /\ t.word_08 = k.word_08
    BY <1>1, <1>2 DEF ListState
  <1>4. u \in ListState /\ u.word_08 = w /\ u.copied = k.copied
    BY <1>1, <1>2 DEF ListState
  <1> QED BY <1>0, <1>2, <1>3, <1>4 DEF m, w, z, e

\* The time is up.
LEMMA ListsTimeout ==
  ASSUME TransferInv, Transfer!Timeout
  PROVE  TransferInv'
  <1> DEFINE t == [state EXCEPT !.error = Transfer!Expired]
  <1>1. Transfer!Polled(t, Transfer!Expired) /\ server' = server
    BY DEF Transfer!Timeout
  <1>2. /\ t \in ListState /\ t.copied = state.copied /\ t.buffer = state.buffer
        /\ t.word_08 = state.word_08 /\ t.skipped = state.skipped
    BY Restarted DEF TransferInv, ListTypeOK
  <1> HIDE DEF t
  <1>3. state' = t
    BY <1>1, PollFacts
  <1> QED BY <1>1, <1>2, <1>3, ListsLook

\* The manager's zero comes when nothing is left.
LEMMA ListsAsk ==
  ASSUME TransferInv, Transfer!AskManager
  PROVE  TransferInv'
  <1>0. ListTypeOK /\ UnderWay
    BY DEF TransferInv
  <1>1. CASE ~ (server.left = <<>> /\ ~server.over)
    <2>1. Transfer!Polled(state, 1) /\ server' = server
      BY <1>1 DEF Transfer!AskManager
    <2>2. state' = state
      BY <2>1, PollFacts
    <2> QED BY <1>0, <2>1, <2>2, ListsLook DEF ListTypeOK
  <1>2. CASE server.left = <<>> /\ ~server.over
    <2> DEFINE t == [state EXCEPT !.word_08 = 5]
    <2>1. Transfer!Polled(t, 0) /\ server' = [server EXCEPT !.over = TRUE]
      BY <1>2 DEF Transfer!AskManager
    <2>2. /\ t \in ListState /\ t.copied = state.copied /\ t.buffer = state.buffer
          /\ t.word_08 = 5 /\ t.skipped = state.skipped
      BY <1>0, Restarted DEF ListTypeOK
    <2> HIDE DEF t
    <2>3. /\ state' = t /\ handed' = handed
          /\ poll'.reached => poll'.state = state' /\ state'.word_08 \in {3, 5}
      BY <2>1, PollFacts
    <2>4. server' \in ListServer /\ server'.bodies = server.bodies /\ server'.over
      BY <1>0, <2>1 DEF ListTypeOK, ListServer
    <2>5. ListTypeOK'
      BY <1>0, <2>2, <2>3, <2>4 DEF ListTypeOK
    <2>6. UnderWay'
      BY <2>2, <2>3, <2>4 DEF UnderWay
    <2>7. Done'
      <3> SUFFICES ASSUME ~state.skipped PROVE WholeBody(state', server'.bodies)
        BY <2>2, <2>3 DEF Done
      <3>1. /\ state.copied + Transfer!Sum(<<>>)
                 = Transfer!Sum(server.bodies[Transfer!Attempt])
            /\ Brings(state, Transfer!Attempt)
        BY <1>0, <1>2 DEF UnderWay
      <3>2. state.copied \in Nat
        BY <1>0 DEF ListTypeOK, ListState
      <3>3. /\ state'.copied = Transfer!Sum(server'.bodies[Transfer!Attempt])
            /\ Brings(state', Transfer!Attempt)
        BY <2>2, <2>3, <2>4, <3>1, <3>2, SumFacts DEF Brings
      <3>4. Transfer!Attempt \in DOMAIN server'.bodies
        BY <1>0, <2>4, ChunkFacts
      <3> QED BY <3>3, <3>4 DEF WholeBody
    <2> QED BY <2>3, <2>4, <2>5, <2>6, <2>7, ListsRest
  <1> QED BY <1>1, <1>2

\* A restart begins the body of another attempt, or fails with none under way.
LEMMA ListsRestart ==
  ASSUME TransferInv, Transfer!Restart
  PROVE  TransferInv'
  <1>0. ListTypeOK /\ UnderWay /\ state.word_08 = 7 /\ state \in ListState
    BY DEF TransferInv, Transfer!Restart, ListTypeOK
  <1>1. CASE /\ Transfer!Polled([state EXCEPT !.word_04 = 1], Transfer!Rejected)
             /\ server' = server
    <2> DEFINE t == [state EXCEPT !.word_04 = 1]
    <2>1. Transfer!Polled(t, Transfer!Rejected) /\ server' = server
      BY <1>1
    <2>2. /\ t \in ListState /\ t.copied = state.copied /\ t.buffer = state.buffer
          /\ t.word_08 = state.word_08 /\ t.skipped = state.skipped
      BY <1>0, Restarted
    <2> HIDE DEF t
    <2>3. state' = t
      BY <2>1, PollFacts
    <2> QED BY <2>1, <2>2, <2>3, ListsLook
  <1>2. CASE /\ Transfer!Polled([Transfer!Fresh EXCEPT !.error = Transfer!Expired],
                                 Transfer!Expired)
             /\ server' = server
    <2> DEFINE t == [Transfer!Fresh EXCEPT !.error = Transfer!Expired]
    <2>1. Transfer!Polled(t, Transfer!Expired) /\ server' = server
      BY <1>2
    <2>2. t \in ListState /\ t.word_08 = 7
      BY <1>0, FreshFacts
    <2> HIDE DEF t
    <2>3. /\ state' = t /\ handed' = handed
          /\ poll'.reached => poll'.state = state' /\ state'.word_08 \in {3, 5}
      BY <2>1, PollFacts
    <2>4. ListTypeOK' /\ Done'
      BY <1>0, <2>1, <2>2, <2>3 DEF ListTypeOK, Done
    <2>5. UnderWay'
      BY <1>0, <2>1, <2>2, <2>3 DEF UnderWay
    <2> QED BY <2>1, <2>3, <2>4, <2>5, ListsRest
  <1>3. ASSUME NEW body \in Body,
               Transfer!Polled([Transfer!Fresh EXCEPT !.word_04 = 2, !.word_08 = 2], 1),
               server' = [bodies |-> Append(server.bodies, body), left |-> body,
                          over |-> FALSE]
        PROVE  TransferInv'
    <2> DEFINE t == [Transfer!Fresh EXCEPT !.word_04 = 2, !.word_08 = 2]
    <2>1. Transfer!Polled(t, 1)
      BY <1>3
    <2>2. t \in ListState /\ t.word_08 = 2 /\ t.copied = 0
      BY <1>0, FreshFacts
    <2> HIDE DEF t
    <2>3. /\ state' = t /\ handed' = handed
          /\ poll'.reached => poll'.state = state' /\ state'.word_08 \in {3, 5}
      BY <2>1, PollFacts
    <2>4. body \in Seq(Nat) /\ server.bodies \in Seq(Seq(Nat))
      BY <1>0, TransferAssumption DEF ListTypeOK, ListServer
    <2>5. /\ server'.bodies = Append(server.bodies, body) /\ server'.left = body
          /\ server'.over = FALSE
      BY <1>3
    <2>6. /\ Append(server.bodies, body) \in Seq(Seq(Nat))
          /\ Len(Append(server.bodies, body)) = Len(server.bodies) + 1
          /\ Append(server.bodies, body)[Len(server.bodies) + 1] = body
          /\ \A a \in DOMAIN server.bodies :
               /\ a \in DOMAIN Append(server.bodies, body)
               /\ Append(server.bodies, body)[a] = server.bodies[a]
      BY <2>4
    <2>7. server' \in ListServer /\ server'.bodies # <<>>
      <3> DEFINE more == Append(server.bodies, body)
      <3>1. more \in Seq(Seq(Nat)) /\ more # <<>>
        BY <2>4
      <3>2. server' = [bodies |-> more, left |-> body, over |-> FALSE]
        BY <1>3
      <3> HIDE DEF more
      <3> QED BY <2>4, <3>1, <3>2 DEF ListServer
    <2>8. server'.bodies[Transfer!Attempt'] = body
      BY <2>5, <2>6 DEF Transfer!Attempt
    <2>9. Transfer!Sum(body) \in Nat
      BY <2>4, SumFacts
    <2>10. UnderWay'
      BY <2>2, <2>3, <2>5, <2>8, <2>9 DEF UnderWay, Brings
    <2>11. ListTypeOK' /\ Done'
      BY <2>2, <2>3, <2>7 DEF ListTypeOK, Done
    <2>12. \A a \in DOMAIN server.bodies :
             a \in DOMAIN server'.bodies /\ server'.bodies[a] = server.bodies[a]
      BY <2>5, <2>6
    <2> QED BY <2>3, <2>10, <2>11, <2>12, ListsRest
  <1> QED BY <1>1, <1>2, <1>3 DEF Transfer!Restart

\* The list decoder gets the bytes of the poll.
LEMMA ListsHandOver ==
  ASSUME TransferInv, Transfer!HandOver
  PROVE  TransferInv'
  <1>1. /\ state' = state /\ poll' = poll /\ server' = server
        /\ poll # None /\ poll.reached /\ ~poll.state.skipped
        /\ handed' = SubSeq(poll.state.buffer, 1, poll.state.copied)
    BY DEF Transfer!HandOver
  <1>2. poll.state \in ListState /\ WholeBody(poll.state, server.bodies)
    BY <1>1 DEF TransferInv, PollOK
  <1> DEFINE b == poll.state.buffer
             n == poll.state.copied
  <1>3. PICK a \in DOMAIN server.bodies :
          n = Transfer!Sum(server.bodies[a]) /\ \A i \in 1 .. n : b[i] = <<a, i>>
    BY <1>2 DEF WholeBody, Brings
  <1>4. b \in [1 .. Capacity -> Cell] /\ n \in 0 .. Capacity /\ Capacity \in Nat
    BY <1>2, TransferAssumption DEF ListState
  <1> HIDE DEF b, n
  <1>5. SubSeq(b, 1, n) = [i \in 1 .. n |-> b[i]]
    <2>1. b \in Seq(Cell) /\ Len(b) = Capacity
      BY <1>4
    <2> QED BY <1>4, <2>1
  <1>6. Transfer!Bytes(a, 0, n) = [i \in 1 .. n |-> <<a, 0 + i>>]
    BY DEF Transfer!Bytes
  <1>7. \A i \in 1 .. n : b[i] = <<a, 0 + i>>
    BY <1>3, <1>4
  <1>8. handed' = Transfer!Bytes(a, 0, Transfer!Sum(server.bodies[a]))
    BY <1>1, <1>3, <1>5, <1>6, <1>7 DEF b, n
  <1>9. Transfer!HandoffIsWhole'
    BY <1>1, <1>8 DEF Transfer!HandoffIsWhole
  <1>10. ListTypeOK' /\ UnderWay' /\ Done' /\ PollOK'
    BY <1>1 DEF TransferInv, ListTypeOK, UnderWay, Done, PollOK, Transfer!Attempt
  <1> QED BY <1>9, <1>10 DEF TransferInv

\* A request is under way, with nothing copied.
LEMMA ListsInit == Transfer!Init => TransferInv
  <1> SUFFICES ASSUME Transfer!Init PROVE TransferInv
    OBVIOUS
  <1>1. PICK entered \in {2, 4} :
          state = [buffer |-> [i \in 1 .. Capacity |-> Transfer!Unused], copied |-> 0,
                   word_04 |-> 2, word_08 |-> entered, error |-> 0, retry |-> -1,
                   skipped |-> FALSE]
    BY DEF Transfer!Init
  <1>2. PICK body \in Body : server = [bodies |-> <<body>>, left |-> body, over |-> FALSE]
    BY DEF Transfer!Init
  <1>3. poll = None /\ handed = None
    BY DEF Transfer!Init
  <1>4. body \in Seq(Nat) /\ Transfer!Sum(body) \in Nat
    BY SumFacts, TransferAssumption
  <1>5. <<body>> \in Seq(Seq(Nat)) /\ <<body>> # <<>> /\ <<body>>[Len(<<body>>)] = body
    BY <1>4
  <1>6. server \in ListServer /\ server.bodies # <<>>
    BY <1>2, <1>4, <1>5 DEF ListServer
  <1>7. Transfer!Unused \in Cell
    BY DEF Transfer!Unused, Cell
  <1>8. [i \in 1 .. Capacity |-> Transfer!Unused] \in [1 .. Capacity -> Cell]
    BY <1>7
  <1>9. 0 \in 0 .. Capacity
    BY TransferAssumption
  <1> DEFINE b == [i \in 1 .. Capacity |-> Transfer!Unused]
  <1> HIDE DEF b
  <1>10. state \in ListState /\ state.word_08 \in {2, 4} /\ state.copied = 0
    BY <1>1, <1>8, <1>9 DEF ListState, b
  <1>11. server.bodies[Transfer!Attempt] = body /\ server.left = body /\ ~server.over
    BY <1>2, <1>5 DEF Transfer!Attempt
  <1>12. UnderWay
    BY <1>4, <1>10, <1>11 DEF UnderWay, Brings
  <1>13. ListTypeOK /\ Done
    BY <1>6, <1>10 DEF ListTypeOK, Done
  <1> QED BY <1>3, <1>12, <1>13 DEF TransferInv, PollOK, Transfer!HandoffIsWhole

\* Every step of the transfer keeps the invariant.
LEMMA ListsStep ==
  TransferInv /\ [Transfer!Next]_(Transfer!vars) => TransferInv'
  <1> SUFFICES ASSUME TransferInv, [Transfer!Next]_(Transfer!vars)
               PROVE  TransferInv'
    OBVIOUS
  <1>1. ASSUME Transfer!Look PROVE TransferInv'
    <2>1. PICK raw \in Int : Transfer!Polled(state, raw)
      BY <1>1 DEF Transfer!Look, Transfer!Rejected, Transfer!Expired
    <2>2. server' = server /\ state' = state /\ state \in ListState
      BY <1>1, <2>1, PollFacts DEF Transfer!Look, TransferInv, ListTypeOK
    <2> QED BY <2>1, <2>2, ListsLook
  <1>2. ASSUME UNCHANGED Transfer!vars PROVE TransferInv'
    <2>1. /\ state' = state /\ poll' = poll /\ server' = server /\ handed' = handed
      BY <1>2 DEF Transfer!vars
    <2>2. ListTypeOK' /\ UnderWay' /\ Done'
      BY <2>1 DEF TransferInv, ListTypeOK, UnderWay, Done, Transfer!Attempt
    <2> QED BY <2>1, <2>2, ListsRest
  <1>3. ASSUME Transfer!Break(TRUE) \/ Transfer!Break(FALSE) PROVE TransferInv'
    BY <1>3, ListsBreak
  <1> QED BY <1>1, <1>2, <1>3, ListsData, ListsComplete, ListsTimeout, ListsAsk,
             ListsRestart, ListsHandOver DEF Transfer!Next, Transfer!Poll

\* For any bodies, buffer and configured language, what the list decoder is given is
\* all that the server sent in one attempt (inspect_http_list_download).
THEOREM ListsAreWhole ==
  SuiteSpec => []HandoffIsWhole
  <1>1. Transfer!Init => TransferInv
    BY ListsInit
  <1>2. TransferInv /\ [Transfer!Next]_(Transfer!vars) => TransferInv'
    BY ListsStep
  <1>3. TransferInv => Transfer!HandoffIsWhole
    BY DEF TransferInv
  <1>4. SuiteInit => (active = "transfer" => TransferInv)
    BY <1>1, PartSteps
  <1>5. (active = "transfer" => TransferInv) /\ [SuiteNext]_suite
          => (active = "transfer" => TransferInv)'
    BY <1>2, PartSteps
  <1>6. (active = "transfer" => TransferInv) => HandoffIsWhole
    BY <1>3 DEF HandoffIsWhole
  <1> QED BY <1>4, <1>5, <1>6, PTL DEF SuiteSpec

------------------------------------------------------------------------------
(* Sequences that are joined (Functions and SequencesExt of the library). *)

\* The equation of the function whose last value joins the sequences.
Joins(ss, n, f) == f = [i \in 1 .. n |-> IF i = 1 THEN ss[i] ELSE f[i - 1] \o ss[i]]

\* Its value at each place.
LEMMA JoinsValue ==
  ASSUME NEW ss, NEW n, NEW f, Joins(ss, n, f), NEW i \in 1 .. n
  PROVE  f[i] = IF i = 1 THEN ss[i] ELSE f[i - 1] \o ss[i]
  <1> DEFINE g == [j \in 1 .. n |-> IF j = 1 THEN ss[j] ELSE f[j - 1] \o ss[j]]
  <1>1. g[i] = IF i = 1 THEN ss[i] ELSE f[i - 1] \o ss[i]
    BY Zenon
  <1>2. f = g
    BY Zenon DEF Joins
  <1> HIDE DEF g
  <1> QED BY <1>1, <1>2, Zenon

\* There is such a function for any number of sequences.
LEMMA JoinsExist ==
  ASSUME NEW ss, NEW n \in Nat
  PROVE  \E f : Joins(ss, n, f)
  <1> DEFINE Bad == {m \in Nat : ~ \E f : Joins(ss, m, f)}
  <1> SUFFICES ASSUME Bad # {} PROVE FALSE
    OBVIOUS
  <1>1. PICK m \in Bad : \A k \in Bad : m <= k
    <2> HIDE DEF Bad
    <2>1. Bad \in SUBSET Nat
      BY DEF Bad
    <2> QED BY <2>1, LeastNatural
  <1>2. m # 0
    <2>1. Joins(ss, 0, [i \in 1 .. 0 |-> ss[i]])
      BY DEF Joins
    <2> QED BY <1>1, <2>1
  <1>3. m - 1 \in Nat /\ m - 1 \notin Bad
    BY <1>1, <1>2
  <1>4. PICK f : Joins(ss, m - 1, f)
    BY <1>3
  <1> DEFINE g == [i \in 1 .. m |-> IF i < m THEN f[i]
                                    ELSE IF i = 1 THEN ss[i] ELSE f[m - 1] \o ss[i]]
             h == [i \in 1 .. m |-> IF i = 1 THEN ss[i] ELSE g[i - 1] \o ss[i]]
  <1>5. ASSUME NEW i \in 1 .. m PROVE g[i] = h[i]
    <2>1. CASE i < m
      <3>1. f[i] = IF i = 1 THEN ss[i] ELSE f[i - 1] \o ss[i]
        BY <1>4, <2>1, <1>3, JoinsValue
      <3>2. i # 1 => g[i - 1] = f[i - 1]
        BY <2>1
      <3> QED BY <3>1, <3>2, <2>1
    <2>2. CASE i = m
      <3>1. i # 1 => g[i - 1] = f[i - 1]
        BY <2>2
      <3> QED BY <3>1, <2>2
    <2> QED BY <2>1, <2>2
  <1>6. Joins(ss, m, g)
    <2>1. g = h
      BY <1>5
    <2> QED BY <2>1 DEF Joins
  <1> QED BY <1>1, <1>6

\* Two of them agree where both are defined on the same sequences.
LEMMA JoinsAgree ==
  ASSUME NEW ss, NEW rr, NEW n \in Nat, NEW m \in Nat, NEW f, NEW g,
         Joins(ss, n, f), Joins(rr, m, g), m <= n, \A i \in 1 .. m : ss[i] = rr[i]
  PROVE  \A i \in 1 .. m : f[i] = g[i]
  <1> DEFINE Bad == {i \in 1 .. m : f[i] # g[i]}
  <1> SUFFICES ASSUME Bad # {} PROVE FALSE
    OBVIOUS
  <1>1. PICK k \in Bad : \A i \in Bad : k <= i
    <2> HIDE DEF Bad
    <2>1. Bad \in SUBSET Nat
      BY DEF Bad
    <2> QED BY <2>1, LeastNatural
  <1>2. /\ f[k] = IF k = 1 THEN ss[k] ELSE f[k - 1] \o ss[k]
        /\ g[k] = IF k = 1 THEN rr[k] ELSE g[k - 1] \o rr[k]
    BY <1>1, JoinsValue
  <1>3. k # 1 => f[k - 1] = g[k - 1]
    BY <1>1
  <1> QED BY <1>1, <1>2, <1>3

\* No sequence, and the last of the sequences behind the others.
LEMMA FlattenFacts ==
  /\ Forecast!FlattenSeq(<<>>) = <<>>
  /\ \A V : \A ss \in Seq(Seq(V)) : ss # <<>> =>
       Forecast!FlattenSeq(ss) =
         Forecast!FlattenSeq(SubSeq(ss, 1, Len(ss) - 1)) \o ss[Len(ss)]
  <1>1. Forecast!FlattenSeq(<<>>) = <<>>
    BY DEF Forecast!FlattenSeq
  <1>2. ASSUME NEW V, NEW ss \in Seq(Seq(V)), ss # <<>>
        PROVE  Forecast!FlattenSeq(ss) =
                 Forecast!FlattenSeq(SubSeq(ss, 1, Len(ss) - 1)) \o ss[Len(ss)]
    <2> DEFINE n  == Len(ss)
               rr == SubSeq(ss, 1, n - 1)
               f  == CHOOSE k : Joins(ss, n, k)
               g  == CHOOSE k : Joins(rr, n - 1, k)
    <2>0. n \in Nat /\ n # 0 /\ \A i \in 1 .. n : ss[i] \in Seq(V)
      BY <1>2, ElementOfSeq, LenProperties, EmptySeq
    <2> HIDE DEF n
    <2>1. n - 1 \in Nat /\ n - 1 <= n /\ 1 .. n - 1 \subseteq 1 .. n
      BY <2>0
    <2>2. Len(rr) = n - 1 /\ \A i \in 1 .. n - 1 : ss[i] = rr[i]
      <3>1. \A i \in 1 .. n - 1 : ss[i] \in Seq(V)
        BY <2>0, <2>1
      <3>2. /\ Len(rr) = IF 1 <= n - 1 THEN (n - 1) - 1 + 1 ELSE 0
            /\ \A i \in 1 .. (n - 1) - 1 + 1 : rr[i] = ss[1 + i - 1]
        BY <3>1, <2>1, SubSeqProperties
      <3>3. (n - 1) - 1 + 1 = n - 1 /\ \A i \in 1 .. n - 1 : 1 + i - 1 = i
        BY <2>1
      <3> HIDE DEF rr
      <3> QED BY <3>2, <3>3, <2>1
    <2>3. ss[n] \in Seq(V)
      BY <2>0
    <2>4. Joins(ss, n, f) /\ Joins(rr, n - 1, g)
      BY <2>0, <2>1, JoinsExist
    <2>5. Forecast!FlattenSeq(ss) = f[n]
      BY <2>0 DEF n, Forecast!FlattenSeq, Joins
    <2>6. n - 1 # 0 => Forecast!FlattenSeq(rr) = g[n - 1]
      BY <2>2 DEF Forecast!FlattenSeq, Joins
    <2> HIDE DEF f, g, rr
    <2>7. \A i \in 1 .. n - 1 : f[i] = g[i]
      BY <2>0, <2>1, <2>2, <2>4, JoinsAgree, SMTT(30)
    <2>8. f[n] = IF n = 1 THEN ss[n] ELSE f[n - 1] \o ss[n]
      <3>1. n \in 1 .. n
        BY <2>0
      <3> QED BY <3>1, <2>4, JoinsValue
    <2>9. CASE n = 1
      <3>1. rr = <<>>
        BY <2>9, SubSeqEmpty DEF rr
      <3>2. <<>> \o ss[n] = ss[n]
        BY <2>3
      <3> QED BY <3>1, <3>2, <2>5, <2>8, <2>9, <1>1 DEF rr, n
    <2>10. CASE n # 1
      <3>1. n - 1 \in 1 .. n - 1
        BY <2>10, <2>0
      <3>2. f[n - 1] = g[n - 1]
        BY <3>1, <2>7
      <3>3. Forecast!FlattenSeq(ss) = Forecast!FlattenSeq(rr) \o ss[n]
        <4>1. n - 1 # 0
          BY <2>10, <2>0
        <4> QED BY <3>2, <4>1, <2>10, <2>5, <2>6, <2>8, Zenon
      <3> QED BY <3>3 DEF rr, n
    <2> QED BY <2>9, <2>10
  <1> QED BY <1>1, <1>2

\* The first elements of a sequence.
LEMMA FrontFacts ==
  ASSUME NEW S, NEW s \in Seq(S), NEW m \in 0 .. Len(s)
  PROVE  /\ SubSeq(s, 1, m) \in Seq(S) /\ Len(SubSeq(s, 1, m)) = m
         /\ \A i \in 1 .. m : SubSeq(s, 1, m)[i] = s[i]
  <1>1. Len(s) \in Nat /\ \A i \in 1 .. m : s[i] \in S
    BY ElementOfSeq, LenProperties
  <1>2. /\ SubSeq(s, 1, m) \in Seq(S)
        /\ Len(SubSeq(s, 1, m)) = IF 1 <= m THEN m - 1 + 1 ELSE 0
        /\ \A i \in 1 .. m - 1 + 1 : SubSeq(s, 1, m)[i] = s[1 + i - 1]
    BY <1>1, SubSeqProperties
  <1>3. m - 1 + 1 = m /\ \A i \in 1 .. m : 1 + i - 1 = i
    OBVIOUS
  <1> QED BY <1>2, <1>3

\* The joined sequences are one of the same elements.
LEMMA FlattenType ==
  ASSUME NEW V, NEW ss \in Seq(Seq(V))
  PROVE  Forecast!FlattenSeq(ss) \in Seq(V)
  <1> DEFINE Bad == {n \in Nat : \E rr \in Seq(Seq(V)) :
                       Len(rr) = n /\ Forecast!FlattenSeq(rr) \notin Seq(V)}
  <1>1. SUFFICES ASSUME Bad # {} PROVE FALSE
    <2>1. Len(ss) \in Nat
      OBVIOUS
    <2> QED BY <2>1
  <1>2. PICK n \in Bad : \A k \in Bad : n <= k
    <2> HIDE DEF Bad
    <2>1. Bad \in SUBSET Nat
      BY DEF Bad
    <2> QED BY <1>1, <2>1, LeastNatural
  <1>3. PICK rr \in Seq(Seq(V)) : Len(rr) = n /\ Forecast!FlattenSeq(rr) \notin Seq(V)
    BY <1>2
  <1>4. rr # <<>> /\ n \in Nat /\ n # 0
    BY <1>2, <1>3, FlattenFacts, EmptySeq
  <1> DEFINE front == SubSeq(rr, 1, n - 1)
  <1>5. front \in Seq(Seq(V)) /\ Len(front) = n - 1
    <2>1. n - 1 \in 0 .. Len(rr)
      BY <1>3, <1>4
    <2> QED BY <2>1, FrontFacts
  <1>6. rr[n] \in Seq(V)
    BY <1>3, <1>4, ElementOfSeq
  <1>7. Forecast!FlattenSeq(rr) = Forecast!FlattenSeq(front) \o rr[n]
    BY <1>3, <1>4, FlattenFacts
  <1>8. Forecast!FlattenSeq(front) \in Seq(V)
    <2>1. n - 1 \in Nat /\ n - 1 \notin Bad
      BY <1>2, <1>4
    <2> HIDE DEF front
    <2> QED BY <2>1, <1>5
  <1> QED BY <1>3, <1>6, <1>7, <1>8, ConcatProperties

------------------------------------------------------------------------------
(* Texts, tables and sections in a file. *)

\* A sequence lies in a file behind a number of cells.
Lies(file, at, s) ==
  /\ at \in Nat /\ at + Len(s) <= Len(file)
  /\ \A k \in 1 .. Len(s) : file[at + k] = s[k]

\* What a sequence is read from, lies there.
LEMMA LiesRight ==
  ASSUME NEW V, NEW x \in Seq(V), NEW y \in Seq(V)
  PROVE  Lies(x \o y, Len(x), y)
  <1>1. Len(x) \in Nat /\ Len(y) \in Nat
    OBVIOUS
  <1>2. ASSUME NEW k \in 1 .. Len(y) PROVE (x \o y)[Len(x) + k] = y[k]
    <2>1. Len(x) + k \in 1 .. Len(x) + Len(y) /\ ~ (Len(x) + k <= Len(x))
          /\ (Len(x) + k) - Len(x) = k
      BY <1>1
    <2> QED BY <2>1, ConcatProperties
  <1> QED BY <1>1, <1>2, ConcatProperties DEF Lies

\* It stays there when the file goes on.
LEMMA LiesLeft ==
  ASSUME NEW V, NEW x \in Seq(V), NEW y \in Seq(V), NEW at, NEW s, Len(s) \in Nat,
         Lies(x, at, s)
  PROVE  Lies(x \o y, at, s)
  <1>1. Len(x) \in Nat /\ Len(y) \in Nat /\ at \in Nat /\ at + Len(s) <= Len(x)
    BY DEF Lies
  <1>2. ASSUME NEW k \in 1 .. Len(s) PROVE (x \o y)[at + k] = s[k]
    <2>1. at + k \in 1 .. Len(x) + Len(y) /\ at + k <= Len(x)
      BY <1>1
    <2>2. (x \o y)[at + k] = x[at + k]
      BY <2>1, ConcatProperties
    <2> QED BY <2>2 DEF Lies
  <1> QED BY <1>1, <1>2, ConcatProperties DEF Lies

\* A part of a part.
LEMMA LiesInside ==
  ASSUME NEW file, NEW at, NEW x, NEW p, NEW s, Len(file) \in Nat, Len(x) \in Nat,
         Len(s) \in Nat, Lies(file, at, x), Lies(x, p, s)
  PROVE  Lies(file, at + p, s)
  <1>1. /\ at \in Nat /\ p \in Nat /\ at + Len(x) <= Len(file) /\ p + Len(s) <= Len(x)
        /\ at + p \in Nat /\ (at + p) + Len(s) <= Len(file)
    BY DEF Lies
  <1>2. ASSUME NEW k \in 1 .. Len(s) PROVE file[(at + p) + k] = s[k]
    <2>1. p + k \in 1 .. Len(x) /\ (at + p) + k = at + (p + k)
      BY <1>1
    <2>2. file[at + (p + k)] = x[p + k] /\ x[p + k] = s[k]
      BY <2>1 DEF Lies
    <2> QED BY <2>1, <2>2
  <1> QED BY <1>1, <1>2 DEF Lies

\* It is read there.
LEMMA LiesRead ==
  ASSUME NEW V, NEW s \in Seq(V), NEW file, NEW at, Lies(file, at, s)
  PROVE  SubSeq(file, at + 1, at + Len(s)) = s
  <1> DEFINE r == SubSeq(file, at + 1, at + Len(s))
  <1>1. at \in Nat /\ Len(s) \in Nat /\ \A k \in 1 .. Len(s) : s[k] \in V
    BY ElementOfSeq, LenProperties DEF Lies
  <1>2. \A i \in at + 1 .. at + Len(s) : i - at \in 1 .. Len(s) /\ file[i] = s[i - at]
    <2> TAKE i \in at + 1 .. at + Len(s)
    <2>1. i - at \in 1 .. Len(s) /\ at + (i - at) = i
      BY <1>1
    <2>2. file[at + (i - at)] = s[i - at]
      BY <2>1 DEF Lies
    <2> QED BY <2>1, <2>2
  <1>3. \A i \in at + 1 .. at + Len(s) : file[i] \in V
    BY <1>1, <1>2
  <1>4. /\ r \in Seq(V)
        /\ Len(r) = IF at + 1 <= at + Len(s) THEN (at + Len(s)) - (at + 1) + 1 ELSE 0
        /\ \A i \in 1 .. (at + Len(s)) - (at + 1) + 1 : r[i] = file[(at + 1) + i - 1]
    BY <1>1, <1>3, SubSeqProperties
  <1>5. Len(r) = Len(s) /\ (at + Len(s)) - (at + 1) + 1 = Len(s)
    BY <1>1, <1>4
  <1>6. \A i \in 1 .. Len(s) : r[i] = s[i]
    <2> TAKE i \in 1 .. Len(s)
    <2>1. (at + 1) + i - 1 = at + i
      BY <1>1
    <2> QED BY <2>1, <1>4, <1>5 DEF Lies
  <1> HIDE DEF r
  <1>7. r = s
    BY <1>4, <1>5, <1>6, SeqEqual
  <1> QED BY <1>7 DEF r

\* The first elements of the first elements, and of all.
LEMMA FrontOfFront ==
  ASSUME NEW S, NEW s \in Seq(S), NEW m \in 0 .. Len(s), NEW n \in 0 .. m
  PROVE  /\ SubSeq(SubSeq(s, 1, m), 1, n) = SubSeq(s, 1, n)
         /\ SubSeq(s, 1, Len(s)) = s
  <1>1. Len(s) \in Nat /\ n \in 0 .. Len(s) /\ Len(s) \in 0 .. Len(s)
    BY LenProperties
  <1> DEFINE r == SubSeq(s, 1, m)
  <1>2. r \in Seq(S) /\ Len(r) = m /\ \A i \in 1 .. m : r[i] = s[i]
    BY FrontFacts
  <1> HIDE DEF r
  <1>3. /\ SubSeq(r, 1, n) \in Seq(S) /\ Len(SubSeq(r, 1, n)) = n
        /\ \A i \in 1 .. n : SubSeq(r, 1, n)[i] = r[i]
    BY <1>2, FrontFacts
  <1>4. /\ SubSeq(s, 1, n) \in Seq(S) /\ Len(SubSeq(s, 1, n)) = n
        /\ \A i \in 1 .. n : SubSeq(s, 1, n)[i] = s[i]
    BY <1>1, FrontFacts
  <1>5. \A i \in 1 .. n : SubSeq(r, 1, n)[i] = SubSeq(s, 1, n)[i]
    BY <1>2, <1>3, <1>4
  <1>6. SubSeq(r, 1, n) = SubSeq(s, 1, n)
    BY <1>3, <1>4, <1>5, SeqEqual
  <1>7. /\ SubSeq(s, 1, Len(s)) \in Seq(S) /\ Len(SubSeq(s, 1, Len(s))) = Len(s)
        /\ \A i \in 1 .. Len(s) : SubSeq(s, 1, Len(s))[i] = s[i]
    BY <1>1, FrontFacts
  <1>8. SubSeq(s, 1, Len(s)) = s
    BY <1>7, SeqEqual
  <1> QED BY <1>6, <1>8 DEF r

\* A text and its end.
LEMMA CharsFacts ==
  ASSUME NEW V, NEW t \in Seq(V)
  PROVE  /\ Forecast!Chars(t) \in Seq(V \cup {Forecast!End})
         /\ Len(Forecast!Chars(t)) = Len(t) + 1
         /\ \A k \in 1 .. Len(t) : Forecast!Chars(t)[k] = t[k]
         /\ Forecast!Chars(t)[Len(t) + 1] = Forecast!End
  <1>1. t \in Seq(V \cup {Forecast!End})
    BY SeqMonotonic
  <1> QED BY <1>1, AppendProperties DEF Forecast!Chars

\* The texts behind each other: the last behind those before it.
LEMMA StoredFacts ==
  ASSUME NEW V, NEW ts \in Seq(Seq(V))
  PROVE  /\ Forecast!Stored(ts) \in Seq(V \cup {Forecast!End})
         /\ ts # <<>> => Forecast!Stored(ts) =
              Forecast!Stored(SubSeq(ts, 1, Len(ts) - 1)) \o Forecast!Chars(ts[Len(ts)])
  <1> DEFINE W    == V \cup {Forecast!End}
             n    == Len(ts)
             Of(rr) == [i \in DOMAIN rr |-> Forecast!Chars(rr[i])]
             All  == Of(ts)
  <1>1. n \in Nat /\ DOMAIN ts = 1 .. n /\ \A i \in 1 .. n : ts[i] \in Seq(V)
    BY LenProperties, ElementOfSeq
  <1>2. \A i \in 1 .. n : Forecast!Chars(ts[i]) \in Seq(W)
    BY <1>1, CharsFacts
  <1>3. All \in Seq(Seq(W)) /\ Len(All) = n /\ \A i \in 1 .. n : All[i] = Forecast!Chars(ts[i])
    BY <1>1, <1>2
  <1>4. Forecast!Stored(ts) = Forecast!FlattenSeq(All)
    BY DEF Forecast!Stored
  <1> HIDE DEF All
  <1>5. Forecast!Stored(ts) \in Seq(W)
    BY <1>3, <1>4, FlattenType
  <1>6. ASSUME ts # <<>>
        PROVE  Forecast!Stored(ts) =
                 Forecast!Stored(SubSeq(ts, 1, n - 1)) \o Forecast!Chars(ts[n])
    <2> DEFINE rr == SubSeq(ts, 1, n - 1)
               Bll == Of(rr)
    <2>1. n # 0 /\ n - 1 \in 0 .. n /\ n \in 1 .. n
      BY <1>1, <1>6, EmptySeq
    <2>2. /\ rr \in Seq(Seq(V)) /\ Len(rr) = n - 1
          /\ \A i \in 1 .. n - 1 : rr[i] = ts[i]
      BY <2>1, FrontFacts
    <2> HIDE DEF rr
    <2>3. DOMAIN rr = 1 .. n - 1
      BY <2>2, LenProperties
    <2>4. \A i \in 1 .. n - 1 : rr[i] = ts[i] /\ Forecast!Chars(rr[i]) \in Seq(W)
      <3> TAKE i \in 1 .. n - 1
      <3>1. i \in 1 .. n
        BY <1>1
      <3> QED BY <3>1, <1>2, <2>2
    <2>5. /\ Bll \in Seq(Seq(W)) /\ Len(Bll) = n - 1
          /\ \A i \in 1 .. n - 1 : Bll[i] = Forecast!Chars(rr[i])
      BY <2>1, <2>3, <2>4
    <2>6. Forecast!Stored(rr) = Forecast!FlattenSeq(Bll)
      BY DEF Forecast!Stored
    <2> HIDE DEF Bll
    <2>7. /\ SubSeq(All, 1, n - 1) \in Seq(Seq(W)) /\ Len(SubSeq(All, 1, n - 1)) = n - 1
          /\ \A i \in 1 .. n - 1 : SubSeq(All, 1, n - 1)[i] = All[i]
      BY <1>3, <2>1, FrontFacts
    <2>8. \A i \in 1 .. n - 1 : SubSeq(All, 1, n - 1)[i] = Bll[i]
      <3> TAKE i \in 1 .. n - 1
      <3>1. i \in 1 .. n
        BY <1>1
      <3> QED BY <3>1, <1>3, <2>4, <2>5, <2>7
    <2>9. SubSeq(All, 1, n - 1) = Bll
      BY <2>5, <2>7, <2>8, SeqEqual
    <2>10. All # <<>>
      BY <1>3, <2>1, EmptySeq
    <2>11. Forecast!FlattenSeq(All) = Forecast!FlattenSeq(SubSeq(All, 1, n - 1)) \o All[n]
      BY <1>3, <2>10, FlattenFacts
    <2> QED BY <1>3, <1>4, <2>1, <2>6, <2>9, <2>11 DEF rr
  <1> QED BY <1>5, <1>6

\* Each text lies at its place.
LEMMA TextsLie ==
  ASSUME NEW V, NEW ts \in Seq(Seq(V)), NEW i \in 1 .. Len(ts)
  PROVE  Lies(Forecast!Stored(ts), Forecast!PlaceOf(ts, i), Forecast!Chars(ts[i]))
  <1> DEFINE W == V \cup {Forecast!End}
             p == Forecast!PlaceOf(ts, i)
             c == Forecast!Chars(ts[i])
             Upto(m) == Forecast!Stored(SubSeq(ts, 1, m))
             Bad == {m \in i .. Len(ts) : ~ Lies(Upto(m), p, c)}
  <1>0. Len(ts) \in Nat /\ ts[i] \in Seq(V) /\ c \in Seq(W) /\ Len(c) \in Nat
    BY LenProperties, ElementOfSeq, CharsFacts
  <1>1. ASSUME NEW m \in 1 .. Len(ts)
        PROVE  /\ Upto(m - 1) \in Seq(W) /\ Upto(m) = Upto(m - 1) \o Forecast!Chars(ts[m])
               /\ Forecast!Chars(ts[m]) \in Seq(W)
    <2> DEFINE r == SubSeq(ts, 1, m)
    <2>1. m \in 0 .. Len(ts) /\ m - 1 \in 0 .. m /\ m - 1 \in 0 .. Len(ts) /\ m \in 1 .. m
      BY <1>0
    <2>2. r \in Seq(Seq(V)) /\ Len(r) = m /\ r[m] = ts[m] /\ SubSeq(r, 1, m - 1) = SubSeq(ts, 1, m - 1)
      BY <2>1, FrontFacts, FrontOfFront
    <2>3. SubSeq(ts, 1, m - 1) \in Seq(Seq(V))
      BY <2>1, FrontFacts
    <2>4. ts[m] \in Seq(V)
      BY ElementOfSeq
    <2> HIDE DEF r
    <2>5. r # <<>>
      BY <2>2, EmptySeq
    <2>6. Forecast!Stored(r) = Forecast!Stored(SubSeq(r, 1, m - 1)) \o Forecast!Chars(r[m])
      BY <2>2, <2>5, StoredFacts
    <2> QED BY <2>2, <2>3, <2>4, <2>6, StoredFacts, CharsFacts DEF r
  <1>2. p = Len(Upto(i - 1))
    BY DEF Forecast!PlaceOf
  <1>3. Lies(Upto(i), p, c)
    BY <1>1, <1>2, LiesRight
  <1>4. Bad = {}
    <2> SUFFICES ASSUME Bad # {} PROVE FALSE
      OBVIOUS
    <2>1. PICK m \in Bad : \A k \in Bad : m <= k
      <3>1. Bad \in SUBSET Nat
        BY <1>0
      <3> HIDE DEF Bad
      <3> QED BY <3>1, LeastNatural
    <2>2. m # i /\ m \in 1 .. Len(ts) /\ m - 1 \in i .. Len(ts)
      BY <1>0, <1>3, <2>1
    <2>3. Lies(Upto(m - 1), p, c)
      BY <2>1, <2>2
    <2>4. Lies(Upto(m), p, c)
      <3> HIDE DEF Upto, c, p
      <3>1. /\ Upto(m - 1) \in Seq(W) /\ Upto(m) = Upto(m - 1) \o Forecast!Chars(ts[m])
            /\ Forecast!Chars(ts[m]) \in Seq(W)
        BY <1>1, <2>2
      <3> HIDE DEF W
      <3> QED BY <1>0, <2>3, <3>1, LiesLeft
    <2> QED BY <2>1, <2>4
  <1>5. SubSeq(ts, 1, Len(ts)) = ts /\ Len(ts) \in i .. Len(ts)
    <2>1. Len(ts) \in 0 .. Len(ts) /\ Len(ts) \in i .. Len(ts)
      BY <1>0
    <2> QED BY <2>1, FrontOfFront
  <1> QED BY <1>4, <1>5

\* The reader finds the text that lies at a place, up to its end.
LEMMA TextIsRead ==
  ASSUME NEW V, Forecast!End \notin V, NEW t \in Seq(V), NEW file, Len(file) \in Nat,
         NEW at, at >= 1, Lies(file, at, Forecast!Chars(t))
  PROVE  Forecast!TextAt(file, at) = t
  <1> DEFINE e    == at + Len(t) + 1
             ends == {k \in at + 1 .. Len(file) : file[k] = Forecast!End}
  <1>1. at \in Nat /\ Len(t) \in Nat /\ \A k \in 1 .. Len(t) : t[k] \in V
    BY ElementOfSeq, LenProperties DEF Lies
  <1>2. at + (Len(t) + 1) <= Len(file)
    BY CharsFacts DEF Lies
  <1>3. \A k \in 1 .. Len(t) : file[at + k] = t[k]
    <2> TAKE k \in 1 .. Len(t)
    <2>1. k \in 1 .. Len(t) + 1
      BY <1>1
    <2> QED BY <2>1, CharsFacts DEF Lies
  <1>4. file[at + (Len(t) + 1)] = Forecast!End
    <2>1. Len(t) + 1 \in 1 .. Len(t) + 1
      BY <1>1
    <2> QED BY <2>1, CharsFacts DEF Lies
  <1>5. e \in ends
    BY <1>1, <1>2, <1>4
  <1>6. \A k \in ends : e <= k
    <2> SUFFICES ASSUME NEW k \in ends, k < e PROVE FALSE
      BY <1>1
    <2>1. k - at \in 1 .. Len(t) /\ at + (k - at) = k
      BY <1>1
    <2>2. file[k] = t[k - at]
      BY <2>1, <1>3
    <2> QED BY <2>1, <2>2, <1>1
  <1>7. ends \in SUBSET Nat /\ e \in Nat
    BY <1>1
  <1> HIDE DEF ends, e
  <1>8. Forecast!Min(ends) = e
    <2> DEFINE m == CHOOSE x \in ends : \A y \in ends : x =< y
    <2>1. m \in ends /\ \A y \in ends : m =< y
      BY <1>5, <1>6
    <2> HIDE DEF m
    <2>2. m = e
      <3>1. m <= e /\ e <= m /\ m \in Nat
        BY <2>1, <1>5, <1>6, <1>7
      <3> QED BY <3>1, <1>7
    <2> QED BY <2>2 DEF Forecast!Min, m
  <1>9. Lies(file, at, t)
    BY <1>1, <1>2, <1>3 DEF Lies
  <1>10. SubSeq(file, at + 1, at + Len(t)) = t
    BY <1>9, LiesRead
  <1>11. e - 1 = at + Len(t)
    BY <1>1 DEF e
  <1>12. Forecast!TextAt(file, at) =
           IF at < 1 \/ ends = {} THEN None ELSE SubSeq(file, at + 1, Forecast!Min(ends) - 1)
    BY DEF Forecast!TextAt, ends
  <1>13. ~ (at < 1 \/ ends = {})
    BY <1>1, <1>5
  <1> QED BY <1>8, <1>10, <1>11, <1>12, <1>13

\* The listed of a table are read where they lie.
LEMMA TableIsRead ==
  ASSUME NEW V, NEW s \in Seq(V), NEW file, Len(file) \in Nat, NEW at, at >= 1,
         Lies(file, at, s)
  PROVE  LET t == Forecast!Table(s, at) IN
         /\ Forecast!Entries(file, t) = s /\ Forecast!Inside(file, t) /\ t.count = Len(s)
  <1>1. at \in Nat /\ Len(s) \in Nat
    BY LenProperties DEF Lies
  <1>2. CASE s = <<>>
    <2>1. Len(s) = 0
      BY <1>2, EmptySeq
    <2>2. SubSeq(file, 0 + 1, 0 + 0) = <<>>
      BY SubSeqEmpty
    <2> QED BY <1>2, <2>1, <2>2 DEF Forecast!Table, Forecast!Entries, Forecast!Inside
  <1>3. CASE s # <<>>
    <2>1. SubSeq(file, at + 1, at + Len(s)) = s
      BY LiesRead
    <2> QED BY <1>1, <1>3, <2>1 DEF Forecast!Table, Forecast!Entries, Forecast!Inside, Lies
  <1> QED BY <1>2, <1>3

\* A section of texts is read back, and its codes.
LEMMA SectionIsRead ==
  ASSUME NEW V, Forecast!End \notin V, NEW C, NEW s \in Seq([code : C, text : Seq(V)]),
         NEW file, Len(file) \in Nat, NEW at, at >= 1,
         Lies(file, at, Forecast!TextSection(s, at))
  PROVE  LET t == Forecast!Table(s, at) IN
         /\ Forecast!Read(file, t) = s /\ Forecast!Inside(file, t)
         /\ Forecast!Of(Forecast!Entries(file, t), "code") = Forecast!Of(s, "code")
  <1> DEFINE n     == Len(s)
             texts == [i \in DOMAIN s |-> s[i].text]
             place(i) == Forecast!PlaceOf(texts, i)
             listed  == [i \in DOMAIN s |-> [code |-> s[i].code, text |-> at + n + place(i)]]
             all   == Forecast!Stored(texts)
             R     == [code : C, text : Nat]
             W     == V \cup {Forecast!End}
             t     == Forecast!Table(s, at)
  <1>1. /\ n \in Nat /\ DOMAIN s = 1 .. n /\ at \in Nat
        /\ \A i \in 1 .. n : s[i] \in [code : C, text : Seq(V)]
    BY LenProperties, ElementOfSeq DEF Lies
  <1>2. texts \in Seq(Seq(V)) /\ Len(texts) = n /\ \A i \in 1 .. n : texts[i] = s[i].text
    BY <1>1
  <1> HIDE DEF texts
  <1>3. \A i \in 1 .. n : place(i) \in Nat /\ Lies(all, place(i), Forecast!Chars(texts[i]))
    <2> TAKE i \in 1 .. n
    <2>1. Lies(all, place(i), Forecast!Chars(texts[i]))
      BY <1>2, TextsLie
    <2> QED BY <2>1 DEF Lies
  <1>4. all \in Seq(W)
    BY <1>2, StoredFacts
  <1> HIDE DEF place, all
  <1>5. listed \in Seq(R) /\ Len(listed) = n /\ DOMAIN listed = 1 .. n
    BY <1>1, <1>3
  <1>6. \A i \in 1 .. n : listed[i].code = s[i].code /\ listed[i].text = at + n + place(i)
    BY <1>1
  <1> HIDE DEF listed
  <1>7. Forecast!TextSection(s, at) = listed \o all
    BY DEF Forecast!TextSection, listed, all, texts, place
  <1>8. listed \in Seq(R \cup W) /\ all \in Seq(R \cup W) /\ Len(all) \in Nat
    BY <1>4, <1>5, SeqMonotonic, LenProperties
  <1> DEFINE both == listed \o all
  <1>9. Lies(both, 0, listed) /\ Lies(both, n, all) /\ Len(both) \in Nat
    <2>1. Lies(listed, 0, listed)
      BY <1>5 DEF Lies
    <2>2. both \in Seq(R \cup W)
      BY <1>8, ConcatProperties
    <2>3. Lies(both, 0, listed)
      BY <1>1, <1>5, <1>8, <2>1, LiesLeft
    <2>4. Lies(both, n, all)
      BY <1>5, <1>8, LiesRight
    <2> QED BY <2>2, <2>3, <2>4, LenProperties
  <1> HIDE DEF both, W, R
  <1>10. Lies(file, at + 0, listed) /\ Lies(file, at + n, all)
    <2>1. Lies(file, at, both)
      BY <1>7 DEF both
    <2> QED BY <1>1, <1>5, <1>8, <1>9, <2>1, LiesInside
  <1>11. /\ Forecast!Entries(file, t) = listed /\ Forecast!Inside(file, t) /\ t.count = n
    <2>1. Forecast!Table(listed, at) = t
      <3>1. listed = <<>> <=> s = <<>>
        BY <1>1, <1>5, EmptySeq
      <3> QED BY <3>1, <1>5 DEF Forecast!Table
    <2>2. Lies(file, at, listed)
      BY <1>1, <1>10
    <2> QED BY <1>5, <2>1, <2>2, TableIsRead
  <1>12. ASSUME NEW i \in 1 .. n
         PROVE  Forecast!TextAt(file, listed[i].text) = s[i].text
    <2>1. Lies(file, at + n + place(i), Forecast!Chars(texts[i]))
      <3>1. texts[i] \in Seq(V)
        BY <1>2, ElementOfSeq
      <3>2. Len(Forecast!Chars(texts[i])) \in Nat
        BY <3>1, CharsFacts, LenProperties
      <3>3. Lies(all, place(i), Forecast!Chars(texts[i]))
        BY <1>3
      <3> QED BY <1>8, <1>10, <3>2, <3>3, LiesInside
    <2>2. texts[i] \in Seq(V) /\ texts[i] = s[i].text
      BY <1>2, ElementOfSeq
    <2>3. at + n + place(i) >= 1
      BY <1>1, <1>3
    <2>4. Forecast!TextAt(file, at + n + place(i)) = texts[i]
      BY <2>1, <2>2, <2>3, TextIsRead
    <2> QED BY <1>6, <2>2, <2>4
  <1>13. Forecast!Read(file, t) = s
    <2> DEFINE r == [i \in 1 .. n |-> [code |-> listed[i].code,
                                        text |-> Forecast!TextAt(file, listed[i].text)]]
    <2>1. Forecast!Read(file, t) = r
      BY <1>11 DEF Forecast!Read
    <2>2. \A i \in 1 .. n : r[i] = s[i]
      <3> TAKE i \in 1 .. n
      <3>1. r[i] = [code |-> s[i].code, text |-> s[i].text]
        BY <1>6, <1>12
      <3>2. s[i] \in [code : C, text : Seq(V)]
        BY <1>1
      <3> QED BY <3>1, <3>2
    <2>3. s = [i \in 1 .. n |-> s[i]]
      BY <1>1
    <2> QED BY <2>1, <2>2, <2>3
  <1>14. Forecast!Of(listed, "code") = Forecast!Of(s, "code")
    BY <1>1, <1>5, <1>6 DEF Forecast!Of
  <1> QED BY <1>11, <1>13, <1>14

------------------------------------------------------------------------------
(* The shared names (Pool). *)

AddName(pool, name) ==
  IF name = <<>> \/ Forecast!Contains(pool, name) THEN pool ELSE Append(pool, name)

\* The equations of the functions that the two folds are values of.
AddsNames(pool, names, g) ==
  g = [U \in SUBSET DOMAIN names |->
         IF U = {} THEN pool
         ELSE AddName(g[U \ {Highest(U)}], names[Highest(U)])]

WithNames(pool, names) == (CHOOSE g : AddsNames(pool, names, g))[DOMAIN names]

AddsLocations(ls, g) ==
  g = [U \in SUBSET DOMAIN ls |->
         IF U = {} THEN <<>>
         ELSE WithNames(g[U \ {Highest(U)}], <<ls[Highest(U)].city, ls[Highest(U)].region>>)]

\* The pool is the last value of the chosen one.
LEMMA PoolIsFold ==
  ASSUME NEW ls
  PROVE  Forecast!Pool(ls) = (CHOOSE g : AddsLocations(ls, g))[DOMAIN ls]
  BY DEF Forecast!Pool, Forecast!FoldLeft, Forecast!MapThenFoldSet, AddsLocations,
         WithNames, AddsNames, AddName, Highest, Transfer!Max, Forecast!Max

\* The last of the first numbers, and the others.
LEMMA HighestOfFirst ==
  ASSUME NEW n \in Nat \ {0}
  PROVE  Highest(1 .. n) = n /\ (1 .. n) \ {n} = 1 .. n - 1 /\ 1 .. n # {}
  <1>1. IsFiniteSet(1 .. n) /\ 1 .. n \in SUBSET Nat /\ n \in 1 .. n
    BY FS_Interval
  <1>2. Highest(1 .. n) \in 1 .. n /\ n <= Highest(1 .. n)
    BY <1>1, HighestFacts
  <1> QED BY <1>1, <1>2

\* A fold from b on: the highest place of a set is taken last.
Steps(X, b, n, F, g) ==
  /\ g \in [SUBSET (1 .. n) -> X]
  /\ \A U \in SUBSET (1 .. n) :
       g[U] = IF U = {} THEN b ELSE F[<<Highest(U), g[U \ {Highest(U)}]>>]

\* For a step on given values there is such a fold.
LEMMA FoldExists ==
  ASSUME NEW X, NEW b \in X, NEW n \in Nat, NEW F \in [(1 .. n) \X X -> X]
  PROVE  \E g : Steps(X, b, n, F, g)
  <1> DEFINE Is(m, g) ==
               /\ g \in [SUBSET (1 .. m) -> X]
               /\ \A U \in SUBSET (1 .. m) :
                    g[U] = IF U = {} THEN b ELSE F[<<Highest(U), g[U \ {Highest(U)}]>>]
             Bad == {m \in 0 .. n : ~ \E g : Is(m, g)}
  <1>1. SUFFICES ASSUME Bad # {} PROVE FALSE
    <2>1. n \in 0 .. n
      OBVIOUS
    <2>2. \A g : Is(n, g) <=> Steps(X, b, n, F, g)
      BY DEF Steps
    <2> HIDE DEF Is
    <2> QED BY <2>1, <2>2
  <1>2. PICK m \in Bad : \A k \in Bad : m <= k
    <2>1. Bad \in SUBSET Nat
      OBVIOUS
    <2> HIDE DEF Bad
    <2> QED BY <1>1, <2>1, LeastNatural
  <1>3. m # 0
    <2> DEFINE z == [U \in SUBSET (1 .. 0) |-> b]
    <2>1. \A U \in SUBSET (1 .. 0) : U = {}
      OBVIOUS
    <2>2. z \in [SUBSET (1 .. 0) -> X] /\ \A U \in SUBSET (1 .. 0) : z[U] = b
      OBVIOUS
    <2> HIDE DEF z
    <2>3. Is(0, z)
      BY <2>1, <2>2
    <2> QED BY <1>2, <2>3
  <1>4. m \in 1 .. n /\ m - 1 \in 0 .. n /\ m - 1 \notin Bad
    <2>1. m \in 0 .. n
      BY <1>2
    <2> HIDE DEF Bad
    <2>2. m \in 1 .. n /\ m - 1 \in 0 .. n /\ ~ (m <= m - 1)
      BY <1>3, <2>1
    <2> QED BY <1>2, <2>2
  <1>5. PICK f : Is(m - 1, f)
    BY <1>4
  <1> DEFINE S == SUBSET (1 .. m)
             T == SUBSET (1 .. m - 1)
             g == [U \in S |-> IF m \in U THEN F[<<m, f[U \ {m}]>>] ELSE f[U]]
  <1>6. ASSUME NEW U \in S PROVE IF m \in U THEN U \ {m} \in T ELSE U \in T
    BY <1>4
  <1>7. f \in [T -> X] /\ \A U \in T :
          f[U] = IF U = {} THEN b ELSE F[<<Highest(U), f[U \ {Highest(U)}]>>]
    BY <1>5
  <1>h. \A U \in S : U # {} => Highest(U) \in U /\ \A y \in U : y <= Highest(U)
    <2> TAKE U \in S
    <2>0. IsFiniteSet(1 .. m) /\ U \in SUBSET (1 .. m) /\ 1 .. m \in SUBSET Nat
      BY FS_Interval, <1>4
    <2>1. IsFiniteSet(U) /\ U \in SUBSET Nat
      BY <2>0, FS_Subset
    <2> QED BY <2>1, HighestFacts
  <1>8. \A U \in S : m \in U => Highest(U) = m
    <2> SUFFICES ASSUME NEW U \in S, m \in U PROVE Highest(U) = m
      OBVIOUS
    <2>1. Highest(U) \in U /\ m <= Highest(U)
      BY <1>h
    <2>2. Highest(U) \in 1 .. m
      BY <2>1
    <2> QED BY <2>1, <2>2, <1>4
  <1>9. g \in [S -> X]
    <2> SUFFICES ASSUME NEW U \in S
                 PROVE  (IF m \in U THEN F[<<m, f[U \ {m}]>>] ELSE f[U]) \in X
      OBVIOUS
    <2>1. CASE m \in U
      <3>1. f[U \ {m}] \in X
        BY <2>1, <1>6, <1>7
      <3>2. <<m, f[U \ {m}]>> \in (1 .. n) \X X
        BY <3>1, <1>4
      <3> QED BY <2>1, <3>2
    <2>2. CASE m \notin U
      BY <2>2, <1>6, <1>7
    <2> QED BY <2>1, <2>2
  <1>10. ASSUME NEW U \in S
         PROVE  g[U] = IF U = {} THEN b ELSE F[<<Highest(U), g[U \ {Highest(U)}]>>]
    <2>1. CASE m \in U
      <3>1. Highest(U) = m /\ U \ {m} \in S /\ m \notin U \ {m} /\ U # {}
        BY <2>1, <1>8
      <3>2. g[U \ {m}] = f[U \ {m}]
        BY <3>1
      <3> QED BY <2>1, <3>1, <3>2
    <2>2. CASE m \notin U
      <3>1. g[U] = f[U] /\ U \in T
        BY <2>2, <1>6
      <3>2. CASE U = {}
        BY <3>1, <3>2, <1>7
      <3>3. CASE U # {}
        <4>1. U \ {Highest(U)} \in S /\ m \notin U \ {Highest(U)}
          BY <2>2
        <4>2. g[U \ {Highest(U)}] = f[U \ {Highest(U)}]
          BY <4>1
        <4> QED BY <3>1, <3>3, <4>2, <1>7
      <3> QED BY <3>2, <3>3
    <2> QED BY <2>1, <2>2
  <1>11. Is(m, g)
    <2> HIDE DEF g
    <2>1. \A U \in SUBSET (1 .. m) :
            g[U] = IF U = {} THEN b ELSE F[<<Highest(U), g[U \ {Highest(U)}]>>]
      BY <1>10
    <2>2. g \in [SUBSET (1 .. m) -> X]
      BY <1>9
    <2> QED BY ONLY <2>1, <2>2
  <1> HIDE DEF Is, g
  <1>12. \E h : Is(m, h)
    BY <1>11
  <1> QED BY <1>2, <1>12

\* A name is added at the end, unless it is there.
LEMMA AddNameFacts ==
  ASSUME NEW T, NEW pool \in Seq(T), NEW name \in T
  PROVE  /\ AddName(pool, name) \in Seq(T)
         /\ name # <<>> => Forecast!Contains(AddName(pool, name), name)
         /\ \A t : Forecast!Contains(pool, t) => Forecast!Contains(AddName(pool, name), t)
  <1>1. CASE name = <<>> \/ Forecast!Contains(pool, name)
    BY <1>1 DEF AddName
  <1>2. CASE ~ (name = <<>> \/ Forecast!Contains(pool, name))
    <2> DEFINE q == Append(pool, name)
    <2>1. AddName(pool, name) = q
      BY <1>2 DEF AddName
    <2>2. Len(pool) \in Nat
      BY LenProperties
    <2>3. /\ q \in Seq(T) /\ Len(q) = Len(pool) + 1 /\ q[Len(pool) + 1] = name
          /\ \A i \in 1 .. Len(pool) : q[i] = pool[i]
      BY AppendProperties
    <2> HIDE DEF q
    <2>4. Len(pool) + 1 \in 1 .. Len(q) /\ \A i \in 1 .. Len(pool) : i \in 1 .. Len(q)
      BY <2>2, <2>3
    <2> QED BY <2>1, <2>3, <2>4 DEF Forecast!Contains
  <1> QED BY <1>1, <1>2

\* The two names of a location are added one after the other.
LEMMA NamesValue ==
  ASSUME NEW T, NEW pool \in Seq(T), NEW city \in T, NEW region \in T
  PROVE  WithNames(pool, <<city, region>>) = AddName(AddName(pool, city), region)
  <1> DEFINE names == <<city, region>>
             X == Seq(T)
             F == [z \in (1 .. 2) \X X |-> AddName(z[2], names[z[1]])]
  <1>1. DOMAIN names = 1 .. 2 /\ names[1] = city /\ names[2] = region
    OBVIOUS
  <1>2. F \in [(1 .. 2) \X X -> X]
    <2>1. ASSUME NEW z \in (1 .. 2) \X X PROVE AddName(z[2], names[z[1]]) \in X
      <3>1. z[1] \in 1 .. 2 /\ z[2] \in X
        OBVIOUS
      <3>2. names[z[1]] \in T
        BY <3>1, <1>1
      <3> HIDE DEF names
      <3> QED BY <3>1, <3>2, AddNameFacts
    <2> HIDE DEF names
    <2> QED BY <2>1
  <1>p. pool \in X
    OBVIOUS
  <1> HIDE DEF X, names
  <1>3. \A i \in 1 .. 2, q \in X : F[<<i, q>>] = AddName(q, names[i])
    OBVIOUS
  <1> HIDE DEF F
  <1>a. PICK h : Steps(X, pool, 2, F, h)
    <2>1. 2 \in Nat
      OBVIOUS
    <2> QED BY ONLY <1>2, <1>p, <2>1, FoldExists
  <1>4. /\ h \in [SUBSET (1 .. 2) -> X]
        /\ \A U \in SUBSET (1 .. 2) :
             h[U] = IF U = {} THEN pool ELSE F[<<Highest(U), h[U \ {Highest(U)}]>>]
    BY ONLY <1>a DEF Steps
  <1>h. \A U \in SUBSET (1 .. 2) : U # {} => Highest(U) \in 1 .. 2
    <2> TAKE U \in SUBSET (1 .. 2)
    <2>0. 1 \in Int /\ 2 \in Int /\ 1 .. 2 \in SUBSET Nat
      OBVIOUS
    <2>1. IsFiniteSet(1 .. 2) /\ 1 .. 2 \in SUBSET Nat
      BY <2>0, FS_Interval
    <2>2. IsFiniteSet(U) /\ U \in SUBSET Nat
      BY <2>1, FS_Subset
    <2> QED BY <2>2, HighestFacts
  <1>5. \A U \in SUBSET (1 .. 2) :
          h[U] = IF U = {} THEN pool ELSE AddName(h[U \ {Highest(U)}], names[Highest(U)])
    <2> TAKE U \in SUBSET (1 .. 2)
    <2>1. CASE U = {}
      BY <1>4, <2>1
    <2>2. CASE U # {}
      <3>1. U \ {Highest(U)} \in SUBSET (1 .. 2) /\ Highest(U) \in 1 .. 2
        BY <1>h, <2>2
      <3>2. h[U \ {Highest(U)}] \in X
        BY <1>4, <3>1
      <3> QED BY <1>3, <1>4, <2>2, <3>1, <3>2
    <2> QED BY <2>1, <2>2
  <1>6. AddsNames(pool, names, h)
    <2>1. h = [U \in SUBSET (1 .. 2) |-> h[U]]
      BY <1>4
    <2> QED BY <1>1, <1>5, <2>1 DEF AddsNames
  <1> DEFINE g == CHOOSE k : AddsNames(pool, names, k)
  <1>7. AddsNames(pool, names, g)
    BY <1>6
  <1>8. WithNames(pool, names) = g[1 .. 2]
    BY <1>1 DEF WithNames
  <1> HIDE DEF g
  <1>9. \A U \in SUBSET (1 .. 2) :
          g[U] = IF U = {} THEN pool ELSE AddName(g[U \ {Highest(U)}], names[Highest(U)])
    BY <1>1, <1>7 DEF AddsNames
  <1>10. g[1 .. 2] = AddName(g[1 .. 1], names[2])
    <2>0. 2 \in Nat \ {0} /\ (1 .. 2) \ {2} = 1 .. 1
      OBVIOUS
    <2>1. Highest(1 .. 2) = 2 /\ (1 .. 2) \ {2} = 1 .. 1 /\ 1 .. 2 # {}
      BY <2>0, HighestOfFirst
    <2>2. 1 .. 2 \in SUBSET (1 .. 2)
      OBVIOUS
    <2> QED BY ONLY <1>9, <2>1, <2>2
  <1>11. g[1 .. 1] = AddName(g[{}], names[1])
    <2>0. 1 \in Nat \ {0} /\ (1 .. 1) \ {1} = {}
      OBVIOUS
    <2>1. Highest(1 .. 1) = 1 /\ (1 .. 1) \ {1} = {} /\ 1 .. 1 # {}
      BY <2>0, HighestOfFirst
    <2>2. 1 .. 1 \in SUBSET (1 .. 2)
      OBVIOUS
    <2> QED BY ONLY <1>9, <2>1, <2>2
  <1>12. g[{}] = pool
    BY <1>9
  <1> QED BY <1>1, <1>8, <1>10, <1>11, <1>12 DEF names

Location(C) == [key : Place, city : Seq(C), region : Seq(C)]

\* The pool holds names, and every name of a location but the empty one.
LEMMA PoolFacts ==
  ASSUME NEW C, NEW ls \in Seq(Location(C))
  PROVE  /\ Forecast!Pool(ls) \in Seq(Seq(C))
         /\ \A i \in 1 .. Len(ls) :
              /\ ls[i].city # <<>> => Forecast!Contains(Forecast!Pool(ls), ls[i].city)
              /\ ls[i].region # <<>> => Forecast!Contains(Forecast!Pool(ls), ls[i].region)
  <1> DEFINE T == Seq(C)
             X == Seq(T)
             n == Len(ls)
             With(q, i) == WithNames(q, <<ls[i].city, ls[i].region>>)
             F == [z \in (1 .. n) \X X |-> With(z[2], z[1])]
             Has(q, i) == /\ ls[i].city # <<>> => Forecast!Contains(q, ls[i].city)
                          /\ ls[i].region # <<>> => Forecast!Contains(q, ls[i].region)
  <1>1. n \in Nat /\ DOMAIN ls = 1 .. n /\ \A i \in 1 .. n : ls[i].city \in T /\ ls[i].region \in T
    <2>1. n \in Nat /\ DOMAIN ls = 1 .. n
      BY LenProperties
    <2>2. \A i \in 1 .. n : ls[i] \in Location(C)
      BY ElementOfSeq
    <2> QED BY <2>1, <2>2 DEF Location
  <1>n. n \in Nat
    BY <1>1
  <1>2. ASSUME NEW q \in X, NEW i \in 1 .. n
        PROVE  /\ With(q, i) \in X /\ Has(With(q, i), i)
               /\ \A t : Forecast!Contains(q, t) => Forecast!Contains(With(q, i), t)
    <2>0. ls[i].city \in T /\ ls[i].region \in T
      BY ONLY <1>1
    <2> DEFINE once == AddName(q, ls[i].city)
    <2>1. With(q, i) = AddName(once, ls[i].region)
      BY <1>1, NamesValue
    <2> HIDE DEF With, T
    <2>2. /\ once \in X /\ (ls[i].city # <<>> => Forecast!Contains(once, ls[i].city))
          /\ \A t : Forecast!Contains(q, t) => Forecast!Contains(once, t)
      BY <1>1, AddNameFacts
    <2> HIDE DEF once
    <2>3. /\ With(q, i) \in X
          /\ ls[i].region # <<>> => Forecast!Contains(With(q, i), ls[i].region)
          /\ \A t : Forecast!Contains(once, t) => Forecast!Contains(With(q, i), t)
      <3> DEFINE both == AddName(once, ls[i].region)
      <3>1. /\ both \in X
            /\ ls[i].region # <<>> => Forecast!Contains(both, ls[i].region)
            /\ \A t : Forecast!Contains(once, t) => Forecast!Contains(both, t)
        BY <2>0, <2>2, AddNameFacts
      <3> HIDE DEF both
      <3> QED BY ONLY <2>1, <3>1 DEF both
    <2> QED BY <2>2, <2>3
  <1> HIDE DEF T, With
  <1>3. F \in [(1 .. n) \X X -> X]
    <2>1. ASSUME NEW z \in (1 .. n) \X X PROVE With(z[2], z[1]) \in X
      <3>1. z[1] \in 1 .. n /\ z[2] \in X
        OBVIOUS
      <3> QED BY <3>1, <1>2
    <2> QED BY <2>1
  <1>4. <<>> \in X
    BY EmptySeq
  <1> HIDE DEF X
  <1>5. \A i \in 1 .. n, q \in X : F[<<i, q>>] = With(q, i)
    OBVIOUS
  <1> HIDE DEF F, n
  <1>a. PICK h : Steps(X, <<>>, n, F, h)
    BY ONLY <1>n, <1>3, <1>4, FoldExists
  <1>6. /\ h \in [SUBSET (1 .. n) -> X]
        /\ \A U \in SUBSET (1 .. n) :
             h[U] = IF U = {} THEN <<>> ELSE F[<<Highest(U), h[U \ {Highest(U)}]>>]
    BY ONLY <1>a DEF Steps
  <1>h. \A U \in SUBSET (1 .. n) : U # {} => Highest(U) \in 1 .. n
    <2> TAKE U \in SUBSET (1 .. n)
    <2>0. 1 \in Int /\ n \in Int /\ 1 .. n \in SUBSET Nat
      BY <1>1
    <2>1. IsFiniteSet(1 .. n) /\ 1 .. n \in SUBSET Nat
      BY <2>0, FS_Interval
    <2>2. IsFiniteSet(U) /\ U \in SUBSET Nat
      BY <2>1, FS_Subset
    <2> QED BY <2>2, HighestFacts
  <1>7. \A U \in SUBSET (1 .. n) :
          h[U] = IF U = {} THEN <<>> ELSE With(h[U \ {Highest(U)}], Highest(U))
    <2> TAKE U \in SUBSET (1 .. n)
    <2>1. CASE U = {}
      BY <1>6, <2>1
    <2>2. CASE U # {}
      <3>1. U \ {Highest(U)} \in SUBSET (1 .. n) /\ Highest(U) \in 1 .. n
        BY <1>h, <2>2
      <3>2. h[U \ {Highest(U)}] \in X
        BY <1>6, <3>1
      <3> QED BY <1>5, <1>6, <2>2, <3>1, <3>2
    <2> QED BY <2>1, <2>2
  <1>8. AddsLocations(ls, h)
    <2>1. h = [U \in SUBSET (1 .. n) |-> h[U]]
      BY <1>6
    <2> QED BY <1>1, <1>7, <2>1 DEF AddsLocations, With
  <1> DEFINE g == CHOOSE k : AddsLocations(ls, k)
  <1>9. AddsLocations(ls, g)
    BY <1>8
  <1>10. Forecast!Pool(ls) = g[1 .. n]
    BY <1>1, PoolIsFold
  <1> HIDE DEF g
  <1>11. \A U \in SUBSET (1 .. n) :
          g[U] = IF U = {} THEN <<>> ELSE With(g[U \ {Highest(U)}], Highest(U))
    BY <1>1, <1>9 DEF AddsLocations, With
  <1> DEFINE Fine(m) == g[1 .. m] \in X /\ \A i \in 1 .. m : Has(g[1 .. m], i)
             Bad == {m \in 0 .. n : ~ Fine(m)}
  <1>12. SUFFICES ASSUME Bad # {} PROVE FALSE
    <2>1. Bad = {} => Fine(n)
      BY <1>1
    <2> QED BY <2>1, <1>10 DEF n, X, T
  <1>13. PICK m \in Bad : \A k \in Bad : m <= k
    <2>1. Bad \in SUBSET Nat
      OBVIOUS
    <2> HIDE DEF Bad
    <2> QED BY <1>12, <2>1, LeastNatural
  <1>14. m \in 0 .. n /\ ~ Fine(m)
    OBVIOUS
  <1>15. CASE m = 0
    <2>1. 1 .. 0 = {} /\ {} \in SUBSET (1 .. n)
      OBVIOUS
    <2>2. g[{}] = <<>>
      BY ONLY <1>11, <2>1
    <2> QED BY <1>4, <1>14, <1>15, <2>1, <2>2
  <1>16. CASE m # 0
    <2>1. m \in 1 .. n /\ m - 1 \in 0 .. n /\ ~ (m <= m - 1) /\ m \in Nat \ {0}
      BY <1>1, <1>14, <1>16
    <2>2. Fine(m - 1)
      BY <1>13, <2>1
    <2>3. Highest(1 .. m) = m /\ (1 .. m) \ {m} = 1 .. m - 1 /\ 1 .. m # {}
      BY <2>1, HighestOfFirst
    <2>4. 1 .. m \in SUBSET (1 .. n)
      BY <1>1, <2>1
    <2>5. g[1 .. m] = With(g[1 .. m - 1], m)
      BY ONLY <1>11, <2>3, <2>4
    <2>6. g[1 .. m] \in X /\ Has(g[1 .. m], m)
      BY <1>2, <2>1, <2>2, <2>5
    <2>7. ASSUME NEW i \in 1 .. m - 1 PROVE Has(g[1 .. m], i)
      BY <1>2, <2>1, <2>2, <2>5
    <2>8. \A i \in 1 .. m : i = m \/ i \in 1 .. m - 1
      BY <2>1
    <2> QED BY <1>14, <2>6, <2>7, <2>8
  <1> QED BY <1>15, <1>16

------------------------------------------------------------------------------
(* The full file, and what its reader finds. *)

\* What a joined sequence has of its parts.
LEMMA JoinFacts ==
  ASSUME NEW V, NEW x \in Seq(V), NEW y \in Seq(V)
  PROVE  /\ x \o y \in Seq(V) /\ Len(x \o y) = Len(x) + Len(y) /\ Len(x) \in Nat /\ Len(y) \in Nat
         /\ Lies(x \o y, Len(x), y)
         /\ \A s \in Seq(V) : \A at : Lies(x, at, s) => Lies(x \o y, at, s)
  <1>1. x \o y \in Seq(V) /\ Len(x \o y) = Len(x) + Len(y)
    BY ConcatProperties
  <1>2. ASSUME NEW s \in Seq(V), NEW at, Lies(x, at, s) PROVE Lies(x \o y, at, s)
    BY <1>2, LenProperties, LiesLeft
  <1> QED BY <1>1, <1>2, LiesRight, LenProperties

Sequences(V, s1, s2, s3, s4, s5, s6, s7, s8) ==
  /\ s1 \in Seq(V) /\ s2 \in Seq(V) /\ s3 \in Seq(V) /\ s4 \in Seq(V)
  /\ s5 \in Seq(V) /\ s6 \in Seq(V) /\ s7 \in Seq(V) /\ s8 \in Seq(V)

InTurn(s1, s2, s3, s4, s5, s6, s7, s8) ==
  LET file == s1 \o s2 \o s3 \o s4 \o s5 \o s6 \o s7 \o s8
      at3  == Len(s1) + Len(s2)
      at4  == at3 + Len(s3)
      at5  == at4 + Len(s4)
      at6  == at5 + Len(s5)
      at7  == at6 + Len(s6)
  IN  /\ Len(file) \in Nat
      /\ Lies(file, 0, s1) /\ Lies(file, Len(s1), s2) /\ Lies(file, at3, s3)
      /\ Lies(file, at4, s4) /\ Lies(file, at5, s5) /\ Lies(file, at6, s6)
      /\ Lies(file, at7, s7) /\ Lies(file, at7 + Len(s7), s8)

\* Eight sequences in one file lie behind each other.
LEMMA EightLie ==
  ASSUME NEW V, NEW s1, NEW s2, NEW s3, NEW s4, NEW s5, NEW s6, NEW s7, NEW s8,
         Sequences(V, s1, s2, s3, s4, s5, s6, s7, s8)
  PROVE  InTurn(s1, s2, s3, s4, s5, s6, s7, s8)
  <1> USE DEF InTurn
  <1> DEFINE f2 == s1 \o s2
             f3 == f2 \o s3
             f4 == f3 \o s4
             f5 == f4 \o s5
             f6 == f5 \o s6
             f7 == f6 \o s7
             f8 == f7 \o s8
  <1> USE DEF Sequences
  <1>1. Lies(s1, 0, s1)
    BY LenProperties DEF Lies
  <1>2. f2 \in Seq(V) /\ Len(f2) = Len(s1) + Len(s2) /\ Lies(f2, 0, s1) /\ Lies(f2, Len(s1), s2)
    BY <1>1, JoinFacts
  <1> HIDE DEF f2
  <1>3. /\ f3 \in Seq(V) /\ Len(f3) = Len(f2) + Len(s3) /\ Lies(f3, Len(f2), s3)
        /\ \A s \in Seq(V) : \A at : Lies(f2, at, s) => Lies(f3, at, s)
    BY <1>2, JoinFacts
  <1> HIDE DEF f3
  <1>4. /\ f4 \in Seq(V) /\ Len(f4) = Len(f3) + Len(s4) /\ Lies(f4, Len(f3), s4)
        /\ \A s \in Seq(V) : \A at : Lies(f3, at, s) => Lies(f4, at, s)
    BY <1>3, JoinFacts
  <1> HIDE DEF f4
  <1>5. /\ f5 \in Seq(V) /\ Len(f5) = Len(f4) + Len(s5) /\ Lies(f5, Len(f4), s5)
        /\ \A s \in Seq(V) : \A at : Lies(f4, at, s) => Lies(f5, at, s)
    BY <1>4, JoinFacts
  <1> HIDE DEF f5
  <1>6. /\ f6 \in Seq(V) /\ Len(f6) = Len(f5) + Len(s6) /\ Lies(f6, Len(f5), s6)
        /\ \A s \in Seq(V) : \A at : Lies(f5, at, s) => Lies(f6, at, s)
    BY <1>5, JoinFacts
  <1> HIDE DEF f6
  <1>7. /\ f7 \in Seq(V) /\ Len(f7) = Len(f6) + Len(s7) /\ Lies(f7, Len(f6), s7)
        /\ \A s \in Seq(V) : \A at : Lies(f6, at, s) => Lies(f7, at, s)
    BY <1>6, JoinFacts
  <1> HIDE DEF f7
  <1>8. /\ f8 \in Seq(V) /\ Lies(f8, Len(f7), s8) /\ Len(f8) \in Nat
        /\ \A s \in Seq(V) : \A at : Lies(f7, at, s) => Lies(f8, at, s)
    BY <1>7, JoinFacts, LenProperties
  <1>9. f8 = s1 \o s2 \o s3 \o s4 \o s5 \o s6 \o s7 \o s8
    BY DEF f7, f6, f5, f4, f3, f2
  <1> HIDE DEF f8
  <1>10. Lies(f8, 0, s1) /\ Lies(f8, Len(s1), s2) /\ Lies(f8, Len(f2), s3)
    BY <1>2, <1>3, <1>4, <1>5, <1>6, <1>7, <1>8
  <1>11. Lies(f8, Len(f3), s4) /\ Lies(f8, Len(f4), s5)
    BY <1>4, <1>5, <1>6, <1>7, <1>8
  <1>12. Lies(f8, Len(f5), s6) /\ Lies(f8, Len(f6), s7) /\ Lies(f8, Len(f7), s8)
    BY <1>6, <1>7, <1>8
  <1> QED BY <1>2, <1>3, <1>4, <1>5, <1>6, <1>7, <1>8, <1>9, <1>10, <1>11, <1>12

\* A name of the pool is found where a row says it is.
LEMMA NameIsRead ==
  ASSUME NEW C, Forecast!End \notin C, NEW pool \in Seq(Seq(C)), NEW name \in Seq(C),
         name # <<>>, Forecast!Contains(pool, name), NEW file, Len(file) \in Nat,
         NEW start \in Nat \ {0}, Lies(file, start, Forecast!Stored(pool))
  PROVE  LET at == Forecast!NameAt(pool, start, name) IN
         at \in Nat \ {0} /\ Forecast!TextAt(file, at) = name
  <1> DEFINE j  == CHOOSE i \in DOMAIN pool : pool[i] = name
             p  == Forecast!PlaceOf(pool, j)
             at == start + p
  <1>1. DOMAIN pool = 1 .. Len(pool)
    BY LenProperties
  <1>2. \E i \in DOMAIN pool : pool[i] = name
    BY <1>1 DEF Forecast!Contains
  <1>3. j \in 1 .. Len(pool) /\ pool[j] = name
    BY <1>1, <1>2
  <1>4. Forecast!NameAt(pool, start, name) = at
    BY DEF Forecast!NameAt
  <1> HIDE DEF j
  <1>5. Lies(Forecast!Stored(pool), p, Forecast!Chars(name))
    BY <1>3, TextsLie
  <1> HIDE DEF p
  <1>6. p \in Nat
    BY <1>5 DEF Lies
  <1>7. Lies(file, start + p, Forecast!Chars(name))
    <2>1. Len(Forecast!Chars(name)) \in Nat
      BY CharsFacts, LenProperties
    <2>2. Len(Forecast!Stored(pool)) \in Nat
      BY StoredFacts, LenProperties
    <2> QED BY <1>5, <2>1, <2>2, LiesInside
  <1>8. at \in Nat \ {0} /\ at >= 1
    BY <1>6
  <1> HIDE DEF at
  <1>9. Forecast!TextAt(file, at) = name
    BY <1>7, <1>8, TextIsRead DEF at
  <1> QED BY <1>4, <1>8, <1>9

\* A table of locations, and the texts behind it, is read back.
LEMMA LocationsAreRead ==
  ASSUME NEW C, Forecast!End \notin C, NEW ls \in Seq(Location(C)), ls # <<>>,
         <<>> \notin Forecast!Of(ls, "city"), NEW file, Len(file) \in Nat,
         Forecast!Header(file).locations = Forecast!Table(Forecast!LocationRows(ls), 1),
         Lies(file, 1, Forecast!LocationRows(ls)),
         Lies(file, 1 + Len(ls), Forecast!Stored(Forecast!Pool(ls)))
  PROVE  /\ Forecast!ReadLocations(file) = ls
         /\ Forecast!Inside(file, Forecast!Header(file).locations)
  <1> DEFINE n     == Len(ls)
             pool  == Forecast!Pool(ls)
             start == 1 + n
             At(name) == Forecast!NameAt(pool, start, name)
             listed  == Forecast!LocationRows(ls)
  <1>1. /\ n \in Nat /\ DOMAIN ls = 1 .. n
        /\ \A i \in 1 .. n : ls[i] \in Location(C)
    BY LenProperties, ElementOfSeq
  <1>2. \A i \in 1 .. n : ls[i].city \in Seq(C) /\ ls[i].region \in Seq(C) /\ ls[i].city # <<>>
    BY <1>1 DEF Location, Forecast!Of
  <1>3. listed = [i \in 1 .. n |-> [key |-> ls[i].key, city |-> At(ls[i].city),
                                 region |-> At(ls[i].region)]]
    BY <1>1 DEF Forecast!LocationRows
  <1>4. pool \in Seq(Seq(C))
    BY PoolFacts
  <1>5. ASSUME NEW i \in 1 .. n
        PROVE  /\ At(ls[i].city) \in Nat
               /\ Forecast!TextAt(file, At(ls[i].city)) = ls[i].city
    <2>1. Forecast!Contains(pool, ls[i].city)
      BY <1>2, PoolFacts
    <2>2. start \in Nat \ {0}
      BY <1>1
    <2> HIDE DEF pool
    <2> QED BY <1>2, <1>4, <2>1, <2>2, NameIsRead DEF pool
  <1>6. ASSUME NEW i \in 1 .. n
        PROVE  /\ At(ls[i].region) \in Nat
               /\ Forecast!OptionalTextAt(file, At(ls[i].region)) = ls[i].region
    <2>1. CASE ls[i].region = <<>>
      BY <2>1 DEF Forecast!NameAt, Forecast!OptionalTextAt
    <2>2. CASE ls[i].region # <<>>
      <3>1. Forecast!Contains(pool, ls[i].region)
        BY <2>2, PoolFacts
      <3>2. start \in Nat \ {0}
        BY <1>1
      <3>3. /\ At(ls[i].region) \in Nat \ {0}
            /\ Forecast!TextAt(file, At(ls[i].region)) = ls[i].region
        BY <1>2, <1>4, <2>2, <3>1, <3>2, NameIsRead
      <3> QED BY <3>3 DEF Forecast!OptionalTextAt
    <2> QED BY <2>1, <2>2
  <1> HIDE DEF At, pool
  <1>7. /\ listed \in Seq([key : Place, city : Nat, region : Nat]) /\ Len(listed) = n
        /\ DOMAIN listed = 1 .. n
    <2>1. \A i \in 1 .. n : ls[i].key \in Place
      BY <1>1 DEF Location
    <2> QED BY <1>1, <1>3, <1>5, <1>6, <2>1
  <1>8. \A i \in 1 .. n : /\ listed[i].key = ls[i].key /\ listed[i].city = At(ls[i].city)
                          /\ listed[i].region = At(ls[i].region)
    BY <1>3
  <1> HIDE DEF listed
  <1>9. /\ Forecast!Entries(file, Forecast!Header(file).locations) = listed
        /\ Forecast!Inside(file, Forecast!Header(file).locations)
    BY <1>7, TableIsRead DEF listed
  <1>10. Forecast!ReadLocations(file) =
           [i \in 1 .. n |-> [key |-> listed[i].key,
                              city |-> Forecast!TextAt(file, listed[i].city),
                              region |-> Forecast!OptionalTextAt(file, listed[i].region)]]
    BY <1>7, <1>9 DEF Forecast!ReadLocations
  <1>11. ASSUME NEW i \in 1 .. n
         PROVE  [key |-> listed[i].key, city |-> Forecast!TextAt(file, listed[i].city),
                 region |-> Forecast!OptionalTextAt(file, listed[i].region)] = ls[i]
    <2>1. ls[i] = [key |-> ls[i].key, city |-> ls[i].city, region |-> ls[i].region]
      BY <1>1 DEF Location
    <2> QED BY <1>5, <1>6, <1>8, <2>1
  <1>12. ls = [i \in 1 .. n |-> ls[i]]
    BY <1>1
  <1> QED BY <1>9, <1>10, <1>11, <1>12

\* A section of texts is a sequence, as the location rows are.
LEMMA SectionIsSequence ==
  ASSUME NEW V, NEW C, NEW s \in Seq([code : C, text : Seq(V)]), NEW at
  PROVE  \E W : Forecast!TextSection(s, at) \in Seq(W)
  <1> DEFINE n     == Len(s)
             texts == [i \in DOMAIN s |-> s[i].text]
             listed  == [i \in DOMAIN s |->
                         [code |-> s[i].code,
                          text |-> at + Len(s) + Forecast!PlaceOf(texts, i)]]
             all   == Forecast!Stored(texts)
             R     == {listed[i] : i \in 1 .. n}
             W     == R \cup V \cup {Forecast!End}
  <1>1. n \in Nat /\ DOMAIN s = 1 .. n /\ \A i \in 1 .. n : s[i].text \in Seq(V)
    <2>1. \A i \in 1 .. n : s[i] \in [code : C, text : Seq(V)]
      BY ElementOfSeq
    <2> QED BY <2>1, LenProperties
  <1>2. texts \in Seq(Seq(V))
    BY <1>1
  <1> HIDE DEF texts
  <1>3. all \in Seq(V \cup {Forecast!End})
    BY <1>2, StoredFacts
  <1>4. listed = [i \in 1 .. n |-> listed[i]]
    BY <1>1
  <1>5. Forecast!TextSection(s, at) = listed \o all
    BY DEF Forecast!TextSection, texts
  <1> HIDE DEF listed, all
  <1>6. listed \in Seq(R)
    BY <1>1, <1>4
  <1> HIDE DEF R
  <1>7. listed \in Seq(W) /\ all \in Seq(W)
    BY <1>3, <1>6, SeqMonotonic
  <1> HIDE DEF W
  <1>8. Forecast!TextSection(s, at) \in Seq(W)
    BY <1>5, <1>7, ConcatProperties
  <1> QED BY <1>8

\* The listed of the locations, one for each.
LEMMA RowsAreSequence ==
  ASSUME NEW V, NEW ls \in Seq(V)
  PROVE  /\ \E W : Forecast!LocationRows(ls) \in Seq(W)
         /\ Len(Forecast!LocationRows(ls)) = Len(ls)
  <1> DEFINE n    == Len(ls)
             listed == Forecast!LocationRows(ls)
             W    == {listed[i] : i \in 1 .. n}
  <1>1. n \in Nat /\ DOMAIN ls = 1 .. n
    BY LenProperties
  <1>2. listed = [i \in 1 .. n |-> listed[i]]
    BY <1>1 DEF Forecast!LocationRows
  <1> HIDE DEF listed
  <1>3. listed \in Seq(W) /\ Len(listed) = n
    BY <1>1, <1>2
  <1> QED BY <1>3 DEF listed

\* What the parts of a catalog are.
LEMMA CatalogFacts ==
  ASSUME NEW c \in Catalog
  PROVE  /\ c.locations \in Seq(Location(Character))
         /\ c.long \in ForecastRows /\ c.compact \in ForecastRows
         /\ c.conditions \in TextEntries(Code)
         /\ c.laundry \in TextEntries(Nat) /\ c.uv \in TextEntries(Nat)
         /\ c = [locations |-> c.locations, long |-> c.long, compact |-> c.compact,
                 conditions |-> c.conditions, laundry |-> c.laundry, uv |-> c.uv]
  BY CatalogAssumption DEF Location

\* The reader finds what the builder laid out.
LEMMA FullIsRead ==
  ASSUME NEW c \in Catalog, Forecast!Buildable(c), NEW opened \in Nat
  PROVE  LET file == Forecast!FullFile(c, opened) h == Forecast!Header(file) IN
         /\ h.opened = opened /\ h.closed = opened + FullValidity
         /\ Forecast!ReadLocations(file) = c.locations
         /\ Forecast!Entries(file, h.long) = c.long
         /\ Forecast!Entries(file, h.compact) = c.compact
         /\ Forecast!Read(file, h.conditions) = c.conditions
         /\ Forecast!Read(file, h.laundry) = c.laundry
         /\ Forecast!Read(file, h.uv) = c.uv
         /\ Forecast!Dictionary(file) = Forecast!Of(c.conditions, "code")
         /\ \A t \in {h.long, h.compact, h.conditions, h.uv, h.laundry, h.locations} :
              Forecast!Inside(file, t)
  <1> DEFINE listed        == Forecast!LocationRows(c.locations)
             text        == Forecast!Stored(Forecast!Pool(c.locations))
             longAt      == 1 + Len(listed) + Len(text)
             shortAt     == longAt + Len(c.long)
             laundryAt   == shortAt + Len(c.compact)
             laundry     == Forecast!TextSection(c.laundry, laundryAt)
             conditionAt == laundryAt + Len(laundry)
             condition   == Forecast!TextSection(c.conditions, conditionAt)
             uvAt        == conditionAt + Len(condition)
             uv          == Forecast!TextSection(c.uv, uvAt)
             header      == [opened |-> opened, closed |-> opened + FullValidity,
                             long |-> Forecast!Table(c.long, longAt),
                             compact |-> Forecast!Table(c.compact, shortAt),
                             conditions |-> Forecast!Table(c.conditions, conditionAt),
                             uv |-> Forecast!Table(c.uv, uvAt),
                             laundry |-> Forecast!Table(c.laundry, laundryAt),
                             locations |-> Forecast!Table(listed, 1)]
             first       == <<header>>
             file        == first \o listed \o text \o c.long \o c.compact
                              \o laundry \o condition \o uv
  <1>1. Forecast!FullFile(c, opened) = file
    BY DEF Forecast!FullFile
  <1>2. /\ header.opened = opened /\ header.closed = opened + FullValidity
        /\ header.long = Forecast!Table(c.long, longAt)
        /\ header.compact = Forecast!Table(c.compact, shortAt)
        /\ header.conditions = Forecast!Table(c.conditions, conditionAt)
        /\ header.uv = Forecast!Table(c.uv, uvAt)
        /\ header.laundry = Forecast!Table(c.laundry, laundryAt)
        /\ header.locations = Forecast!Table(listed, 1)
    OBVIOUS
  <1> HIDE DEF header
  <1>3. first \in Seq({header}) /\ Len(first) = 1 /\ first[1] = header
    OBVIOUS
  <1> HIDE DEF first
  <1>4. PICK V1 : listed \in Seq(V1)
    BY CatalogFacts, RowsAreSequence
  <1>5. Len(listed) = Len(c.locations)
    BY CatalogFacts, RowsAreSequence
  <1> DEFINE T == Character \cup {Forecast!End}
  <1>6. text \in Seq(T)
    <2>1. Forecast!Pool(c.locations) \in Seq(Seq(Character))
      BY CatalogFacts, PoolFacts
    <2> QED BY <2>1, StoredFacts
  <1>7. PICK V2 : laundry \in Seq(V2)
    BY CatalogFacts, SectionIsSequence DEF TextEntries
  <1>8. PICK V3 : condition \in Seq(V3)
    BY CatalogFacts, SectionIsSequence DEF TextEntries
  <1>9. PICK V4 : uv \in Seq(V4)
    BY CatalogFacts, SectionIsSequence DEF TextEntries
  <1>10. PICK V5 : c.long \in Seq(V5) /\ c.compact \in Seq(V5)
    BY CatalogFacts DEF ForecastRows
  <1> HIDE DEF listed, text, laundry, condition, uv, T
  <1> DEFINE V == {header} \cup V1 \cup T \cup V2 \cup V3 \cup V4 \cup V5
  <1>11. /\ first \in Seq(V) /\ listed \in Seq(V) /\ text \in Seq(V) /\ c.long \in Seq(V)
         /\ c.compact \in Seq(V) /\ laundry \in Seq(V) /\ condition \in Seq(V) /\ uv \in Seq(V)
    <2>1. /\ {header} \subseteq V /\ V1 \subseteq V /\ T \subseteq V /\ V2 \subseteq V
          /\ V3 \subseteq V /\ V4 \subseteq V /\ V5 \subseteq V
      OBVIOUS
    <2> HIDE DEF V
    <2> QED BY <1>3, <1>4, <1>6, <1>7, <1>8, <1>9, <1>10, <2>1, SeqMonotonic
  <1> HIDE DEF V
  <1>12. /\ Len(file) \in Nat /\ Lies(file, 0, first) /\ Lies(file, 1, listed)
         /\ Lies(file, 1 + Len(listed), text) /\ Lies(file, longAt, c.long)
         /\ Lies(file, shortAt, c.compact) /\ Lies(file, laundryAt, laundry)
         /\ Lies(file, conditionAt, condition) /\ Lies(file, uvAt, uv)
    <2>1. /\ Len(file) \in Nat /\ Lies(file, 0, first) /\ Lies(file, Len(first), listed)
          /\ Lies(file, Len(first) + Len(listed), text)
          /\ Lies(file, Len(first) + Len(listed) + Len(text), c.long)
          /\ Lies(file, Len(first) + Len(listed) + Len(text) + Len(c.long), c.compact)
          /\ Lies(file, Len(first) + Len(listed) + Len(text) + Len(c.long) + Len(c.compact),
                  laundry)
          /\ Lies(file, Len(first) + Len(listed) + Len(text) + Len(c.long) + Len(c.compact)
                          + Len(laundry), condition)
          /\ Lies(file, Len(first) + Len(listed) + Len(text) + Len(c.long) + Len(c.compact)
                          + Len(laundry) + Len(condition), uv)
      <3>1. Sequences(V, first, listed, text, c.long, c.compact, laundry, condition, uv)
        BY <1>11 DEF Sequences
      <3>2. InTurn(first, listed, text, c.long, c.compact, laundry, condition, uv)
        BY ONLY <3>1, EightLie
      <3> QED BY ONLY <3>2 DEF InTurn
    <2> HIDE DEF file
    <2> QED BY ONLY <1>3, <2>1
  <1>13. /\ Len(listed) \in Nat /\ Len(text) \in Nat /\ Len(c.long) \in Nat
         /\ Len(c.compact) \in Nat /\ Len(laundry) \in Nat /\ Len(condition) \in Nat
    BY <1>11, LenProperties
  <1>14. longAt >= 1 /\ shortAt >= 1 /\ laundryAt >= 1 /\ conditionAt >= 1 /\ uvAt >= 1
    <2>1. longAt \in Nat \ {0}
      BY ONLY <1>13
    <2> HIDE DEF longAt
    <2>2. shortAt \in Nat \ {0}
      BY ONLY <1>13, <2>1
    <2> HIDE DEF shortAt
    <2>3. laundryAt \in Nat \ {0}
      BY ONLY <1>13, <2>2
    <2> HIDE DEF laundryAt
    <2>4. conditionAt \in Nat \ {0}
      BY ONLY <1>13, <2>3
    <2> HIDE DEF conditionAt
    <2>5. uvAt \in Nat \ {0}
      BY ONLY <1>13, <2>4
    <2> HIDE DEF uvAt
    <2> QED BY ONLY <2>1, <2>2, <2>3, <2>4, <2>5
  <1> HIDE DEF file, longAt, shortAt, laundryAt, conditionAt, uvAt
  <1>15. Forecast!Header(file) = header
    <2>1. file[0 + 1] = first[1]
      BY <1>3, <1>12 DEF Lies
    <2> QED BY <1>3, <2>1 DEF Forecast!Header
  <1>16. /\ Forecast!Entries(file, header.long) = c.long /\ Forecast!Inside(file, header.long)
    BY <1>2, <1>10, <1>12, <1>14, TableIsRead
  <1>17. /\ Forecast!Entries(file, header.compact) = c.compact
         /\ Forecast!Inside(file, header.compact)
    BY <1>2, <1>10, <1>12, <1>14, TableIsRead
  <1>e. Forecast!End \notin Character
    BY CatalogAssumption
  <1>18. /\ Forecast!Read(file, header.laundry) = c.laundry
         /\ Forecast!Inside(file, header.laundry)
    <2>1. c.laundry \in Seq([code : Nat, text : Seq(Character)])
      BY CatalogFacts DEF TextEntries
    <2>2. Lies(file, laundryAt, Forecast!TextSection(c.laundry, laundryAt))
      BY <1>12 DEF laundry
    <2>3. Len(file) \in Nat /\ laundryAt >= 1 /\ header.laundry = Forecast!Table(c.laundry, laundryAt)
      BY <1>2, <1>12, <1>14
    <2> QED BY ONLY <1>e, <2>1, <2>2, <2>3, SectionIsRead
  <1>19. /\ Forecast!Read(file, header.conditions) = c.conditions
         /\ Forecast!Inside(file, header.conditions)
         /\ Forecast!Of(Forecast!Entries(file, header.conditions), "code")
              = Forecast!Of(c.conditions, "code")
    <2>1. c.conditions \in Seq([code : Code, text : Seq(Character)])
      BY CatalogFacts DEF TextEntries
    <2>2. Lies(file, conditionAt, Forecast!TextSection(c.conditions, conditionAt))
      BY <1>12 DEF condition
    <2>3. Len(file) \in Nat /\ conditionAt >= 1
      BY <1>12, <1>14
    <2>4. header.conditions = Forecast!Table(c.conditions, conditionAt)
      BY ONLY <1>2
    <2> DEFINE t == Forecast!Table(c.conditions, conditionAt)
    <2>5. /\ Forecast!Read(file, t) = c.conditions /\ Forecast!Inside(file, t)
          /\ Forecast!Of(Forecast!Entries(file, t), "code") = Forecast!Of(c.conditions, "code")
      BY ONLY <1>e, <2>1, <2>2, <2>3, SectionIsRead
    <2> QED BY ONLY <2>4, <2>5
  <1>20. /\ Forecast!Read(file, header.uv) = c.uv /\ Forecast!Inside(file, header.uv)
    <2>1. c.uv \in Seq([code : Nat, text : Seq(Character)])
      BY CatalogFacts DEF TextEntries
    <2>2. Lies(file, uvAt, Forecast!TextSection(c.uv, uvAt))
      BY <1>12 DEF uv
    <2>3. Len(file) \in Nat /\ uvAt >= 1
      BY <1>12, <1>14
    <2>4. header.uv = Forecast!Table(c.uv, uvAt)
      BY ONLY <1>2
    <2> QED BY ONLY <1>e, <2>1, <2>2, <2>3, <2>4, SectionIsRead
  <1>21. /\ Forecast!ReadLocations(file) = c.locations
         /\ Forecast!Inside(file, header.locations)
    <2>1. c.locations \in Seq(Location(Character))
      BY CatalogFacts
    <2>2. c.locations # <<>> /\ <<>> \notin Forecast!Of(c.locations, "city")
      BY DEF Forecast!Buildable
    <2>3. Lies(file, 1, Forecast!LocationRows(c.locations))
      BY <1>12 DEF listed
    <2>4. Lies(file, 1 + Len(c.locations), Forecast!Stored(Forecast!Pool(c.locations)))
      BY <1>5, <1>12 DEF text
    <2>5. Forecast!Header(file).locations
            = Forecast!Table(Forecast!LocationRows(c.locations), 1)
      BY <1>2, <1>15 DEF listed
    <2> QED BY <1>e, <1>12, <1>15, <2>1, <2>2, <2>3, <2>4, <2>5, LocationsAreRead
  <1>22. Forecast!Dictionary(file) = Forecast!Of(c.conditions, "code")
    BY <1>15, <1>19 DEF Forecast!Dictionary
  <1> QED BY <1>1, <1>2, <1>15, <1>16, <1>17, <1>18, <1>19, <1>20, <1>21, <1>22

\* A file that was built is valid if every code has its text, and only then.
LEMMA FullIsValid ==
  ASSUME NEW c \in Catalog, Forecast!Buildable(c), NEW opened \in Nat
  PROVE  Forecast!ValidFull(Forecast!FullFile(c, opened)) <=>
           Forecast!Of(c.long, "code") \cup Forecast!Of(c.compact, "code")
             \subseteq Forecast!Of(c.conditions, "code") \cup {Missing}
  <1> DEFINE file == Forecast!FullFile(c, opened)
             h    == Forecast!Header(file)
  <1>1. /\ h.opened = opened /\ h.closed = opened + FullValidity
        /\ Forecast!ReadLocations(file) = c.locations
        /\ Forecast!Entries(file, h.long) = c.long
        /\ Forecast!Entries(file, h.compact) = c.compact
        /\ Forecast!Read(file, h.conditions) = c.conditions
        /\ Forecast!Read(file, h.laundry) = c.laundry
        /\ Forecast!Read(file, h.uv) = c.uv
        /\ Forecast!Dictionary(file) = Forecast!Of(c.conditions, "code")
        /\ \A t \in {h.long, h.compact, h.conditions, h.uv, h.laundry, h.locations} :
             Forecast!Inside(file, t)
    BY FullIsRead
  <1> HIDE DEF file
  <1>2. h.opened <= h.closed
    BY <1>1, CatalogAssumption
  <1>3. /\ Forecast!UniqueKeys(c.compact) /\ Forecast!UniqueKeys(c.locations)
        /\ Forecast!Sound(c.long) /\ Forecast!Sound(c.compact)
        /\ Forecast!Keys(c.long) \cup Forecast!Keys(c.compact)
             \subseteq Forecast!Keys(c.locations)
    BY DEF Forecast!Buildable
  <1>4. None \notin Forecast!Of(c.locations, "city") \cup Forecast!Of(c.locations, "region")
    <2>1. \A i \in DOMAIN c.locations : c.locations[i] \in Location(Character)
      BY CatalogFacts, LenProperties, ElementOfSeq
    <2>2. \A i \in DOMAIN c.locations : /\ c.locations[i].city \in Seq(Character)
                                        /\ c.locations[i].region \in Seq(Character)
      BY <2>1 DEF Location
    <2> QED BY <2>2, CatalogAssumption DEF Forecast!Of
  <1>5. ASSUME NEW C, NEW s \in TextEntries(C) PROVE None \notin Forecast!Of(s, "text")
    <2>1. \A i \in DOMAIN s : s[i] \in [code : C, text : Seq(Character)]
      BY LenProperties, ElementOfSeq DEF TextEntries
    <2>2. \A i \in DOMAIN s : s[i].text \in Seq(Character)
      BY <2>1
    <2> QED BY <2>2, CatalogAssumption DEF Forecast!Of
  <1>6. /\ None \notin Forecast!Of(c.conditions, "text")
        /\ None \notin Forecast!Of(c.laundry, "text")
        /\ None \notin Forecast!Of(c.uv, "text")
    BY <1>5, CatalogFacts
  <1>7. \A t \in {h.conditions, h.uv, h.laundry} :
          None \notin Forecast!Of(Forecast!Read(file, t), "text")
    <2>1. /\ None \notin Forecast!Of(Forecast!Read(file, h.conditions), "text")
          /\ None \notin Forecast!Of(Forecast!Read(file, h.laundry), "text")
          /\ None \notin Forecast!Of(Forecast!Read(file, h.uv), "text")
      BY <1>1, <1>6
    <2> HIDE DEF h
    <2>2. ASSUME NEW t \in {h.conditions, h.uv, h.laundry}
          PROVE  None \notin Forecast!Of(Forecast!Read(file, t), "text")
      <3>1. t = h.conditions \/ t = h.uv \/ t = h.laundry
        OBVIOUS
      <3> QED BY ONLY <2>1, <3>1, Zenon
    <2> QED BY <2>2
  <1> DEFINE Tables == {h.long, h.compact, h.conditions, h.uv, h.laundry, h.locations}
             Dictionaries == {h.conditions, h.uv, h.laundry}
             Codes == Forecast!Of(c.long, "code") \cup Forecast!Of(c.compact, "code")
             Explained == Forecast!Of(c.conditions, "code") \cup {Missing}
             Places == Forecast!Of(c.locations, "city") \cup Forecast!Of(c.locations, "region")
             Named == Forecast!Keys(c.long) \cup Forecast!Keys(c.compact)
  <1>8. Forecast!ValidFull(file) <=>
          /\ h.opened <= h.closed
          /\ \A t \in Tables : Forecast!Inside(file, t)
          /\ Codes \subseteq Explained
          /\ Forecast!UniqueKeys(c.compact) /\ Forecast!UniqueKeys(c.locations)
          /\ Forecast!Sound(c.long) /\ Forecast!Sound(c.compact)
          /\ None \notin Places
          /\ Named \subseteq Forecast!Keys(c.locations)
          /\ \A t \in Dictionaries : None \notin Forecast!Of(Forecast!Read(file, t), "text")
    BY ONLY <1>1, Zenon DEF Forecast!ValidFull
  <1>9. \A t \in Tables : Forecast!Inside(file, t)
    BY <1>1
  <1> HIDE DEF h, Tables, Codes, Explained, Places, Named
  <1>10. Forecast!ValidFull(file) <=> Codes \subseteq Explained
    BY ONLY <1>2, <1>3, <1>4, <1>7, <1>8, <1>9, Zenon DEF Places, Named
  <1> QED BY <1>10 DEF file, Codes, Explained

\* The short file is read back.
LEMMA ShortIsRead ==
  ASSUME NEW s \in ForecastRows, NEW opened
  PROVE  LET file == Forecast!ShortFile(s, opened) IN
         /\ Forecast!Current(file) = s
         /\ Forecast!Header(file).opened = opened
         /\ Forecast!Header(file).closed = opened + ShortValidity
  <1> DEFINE header == [opened |-> opened, closed |-> opened + ShortValidity,
                        current |-> [count |-> Len(s), offset |-> 1]]
             first  == <<header>>
             file   == first \o s
  <1>1. Forecast!ShortFile(s, opened) = file
    BY DEF Forecast!ShortFile
  <1>2. /\ header.opened = opened /\ header.closed = opened + ShortValidity
        /\ header.current.count = Len(s) /\ header.current.offset = 1
    OBVIOUS
  <1> HIDE DEF header
  <1>3. first \in Seq({header}) /\ Len(first) = 1 /\ first[1] = header
    OBVIOUS
  <1> HIDE DEF first
  <1>4. PICK V1 : s \in Seq(V1)
    BY DEF ForecastRows
  <1> DEFINE V == {header} \cup V1
  <1>5. first \in Seq(V) /\ s \in Seq(V)
    <2>1. {header} \subseteq V /\ V1 \subseteq V
      OBVIOUS
    <2> HIDE DEF V
    <2> QED BY <1>3, <1>4, <2>1, SeqMonotonic
  <1> HIDE DEF V
  <1>6. Lies(first, 0, first)
    BY <1>3 DEF Lies
  <1>7. Lies(file, 0, first) /\ Lies(file, 1, s)
    BY <1>3, <1>5, <1>6, JoinFacts
  <1> HIDE DEF file
  <1>8. Forecast!Header(file) = header
    <2>1. file[0 + 1] = first[1]
      BY <1>3, <1>7 DEF Lies
    <2> QED BY <1>3, <2>1 DEF Forecast!Header
  <1>9. SubSeq(file, 1 + 1, 1 + Len(s)) = s
    BY <1>4, <1>7, LiesRead
  <1>10. Forecast!Current(file) = s
    BY <1>2, <1>8, <1>9 DEF Forecast!Current, Forecast!Entries
  <1> QED BY <1>1, <1>2, <1>8, <1>10

------------------------------------------------------------------------------
(* What was built, and what was accepted. *)

FileTypeOK ==
  /\ clock \in Nat /\ verdict.minute \in Nat
  /\ files = [f \in Forecast!Names |-> [cells |-> files[f].cells, signer |-> files[f].signer]]
  /\ inputs = [f \in Forecast!Names |-> inputs[f]]

\* A file is what the builder made of the input that is remembered.
BuiltOK ==
  /\ files["forecast"] # Forecast!NoFile =>
       /\ inputs["forecast"].content \in Catalog
       /\ inputs["forecast"].opened \in Nat
       /\ Forecast!Buildable(inputs["forecast"].content)
       /\ files["forecast"].cells = Forecast!FullFile(inputs["forecast"].content,
                                                     inputs["forecast"].opened)
  /\ files["short"] # Forecast!NoFile =>
       /\ inputs["short"].content \in Weather
       /\ inputs["short"].opened \in Nat
       /\ files["short"].cells = Forecast!ShortFile(inputs["short"].content,
                                                   inputs["short"].opened)

\* An accepted pair would be accepted again: signed files do not change.
VerdictOK ==
  verdict.accepted =>
    Forecast!Accepts(files["forecast"], files["short"], verdict.key, verdict.current,
                     verdict.minute)

ForecastInv == FileTypeOK /\ BuiltOK /\ VerdictOK

\* Before anything is built.
LEMMA ForecastInit == Forecast!Init => ForecastInv
  <1> SUFFICES ASSUME Forecast!Init PROVE ForecastInv
    OBVIOUS
  <1>1. /\ files["forecast"] = Forecast!NoFile /\ files["short"] = Forecast!NoFile
        /\ files = [f \in Forecast!Names |-> Forecast!NoFile]
        /\ inputs = [f \in Forecast!Names |-> None]
        /\ clock = 0 /\ verdict.minute = 0 /\ verdict.accepted = FALSE
    BY DEF Forecast!Init, Forecast!Names, Forecast!NoVerdict
  <1>2. files = [f \in Forecast!Names |-> [cells |-> files[f].cells, signer |-> files[f].signer]]
    BY <1>1 DEF Forecast!NoFile
  <1>3. inputs = [f \in Forecast!Names |-> inputs[f]]
    BY <1>1
  <1> QED BY <1>1, <1>2, <1>3 DEF ForecastInv, FileTypeOK, BuiltOK, VerdictOK

\* A file is built where there is none, so none that was accepted.
LEMMA BuiltStep ==
  ASSUME ForecastInv, NEW g \in Forecast!Names, files[g] = Forecast!NoFile, NEW input,
         NEW cells, Forecast!Built(g, input, cells)
  PROVE  /\ FileTypeOK' /\ VerdictOK'
         /\ files'[g].cells = cells /\ inputs'[g].content = input /\ inputs'[g].opened = clock
         /\ \A f \in Forecast!Names \ {g} : files'[f] = files[f] /\ inputs'[f] = inputs[f]
  <1> DEFINE new == [content |-> input, opened |-> clock]
  <1>1. new.content = input /\ new.opened = clock
    OBVIOUS
  <1> HIDE DEF new
  <1>2. /\ inputs' = [inputs EXCEPT ![g] = new] /\ files' = [files EXCEPT ![g].cells = cells]
        /\ clock' = clock /\ verdict' = verdict
    BY DEF Forecast!Built, new
  <1>3. /\ DOMAIN files = Forecast!Names /\ DOMAIN inputs = Forecast!Names
        /\ \A f \in Forecast!Names : files[f] = [cells |-> files[f].cells,
                                                 signer |-> files[f].signer]
    BY DEF ForecastInv, FileTypeOK
  <1>4. /\ files'[g] = [files[g] EXCEPT !.cells = cells] /\ inputs'[g] = new
        /\ \A f \in Forecast!Names \ {g} : files'[f] = files[f] /\ inputs'[f] = inputs[f]
        /\ DOMAIN files' = Forecast!Names /\ DOMAIN inputs' = Forecast!Names
        /\ files' = [f \in Forecast!Names |-> files'[f]]
        /\ inputs' = [f \in Forecast!Names |-> inputs'[f]]
    BY <1>2, <1>3
  <1>5. files'[g].cells = cells /\ files'[g] = [cells |-> files'[g].cells,
                                                signer |-> files'[g].signer]
    BY <1>3, <1>4
  <1>6. \A f \in Forecast!Names : files'[f] = [cells |-> files'[f].cells,
                                                signer |-> files'[f].signer]
    BY <1>3, <1>4, <1>5
  <1>7. FileTypeOK'
    BY <1>2, <1>4, <1>6 DEF ForecastInv, FileTypeOK
  <1>8. ~ verdict.accepted
    <2>1. files[g].signer = None
      BY DEF Forecast!NoFile
    <2> QED BY <2>1 DEF ForecastInv, VerdictOK, Forecast!Accepts, Forecast!Names
  <1> QED BY <1>1, <1>2, <1>4, <1>5, <1>7, <1>8 DEF VerdictOK

\* The builder of the full file.
LEMMA BuildFullStep == ForecastInv /\ Forecast!BuildFull => ForecastInv'
  <1> SUFFICES ASSUME ForecastInv, Forecast!BuildFull PROVE ForecastInv'
    OBVIOUS
  <1>1. PICK c \in Catalog : /\ Forecast!Buildable(c)
                             /\ Forecast!Built("forecast", c, Forecast!FullFile(c, clock))
    BY DEF Forecast!BuildFull
  <1> DEFINE cells == Forecast!FullFile(c, clock)
  <1> HIDE DEF cells
  <1>2. /\ FileTypeOK' /\ VerdictOK' /\ files'["forecast"].cells = cells
        /\ inputs'["forecast"].content = c /\ inputs'["forecast"].opened = clock
        /\ files'["short"] = files["short"] /\ inputs'["short"] = inputs["short"]
    <2>1. "forecast" \in Forecast!Names /\ "short" \in Forecast!Names \ {"forecast"}
          /\ files["forecast"] = Forecast!NoFile
      BY DEF Forecast!Names, Forecast!BuildFull
    <2>2. Forecast!Built("forecast", c, cells)
      BY <1>1 DEF cells
    <2> QED BY <2>1, <2>2, BuiltStep
  <1>3. BuiltOK'
    BY <1>1, <1>2 DEF ForecastInv, FileTypeOK, BuiltOK, cells
  <1> QED BY <1>2, <1>3 DEF ForecastInv

\* The builder of the short file.
LEMMA BuildShortStep == ForecastInv /\ Forecast!BuildShort => ForecastInv'
  <1> SUFFICES ASSUME ForecastInv, Forecast!BuildShort PROVE ForecastInv'
    OBVIOUS
  <1>1. PICK s \in Weather : Forecast!Built("short", s, Forecast!ShortFile(s, clock))
    BY DEF Forecast!BuildShort
  <1> DEFINE cells == Forecast!ShortFile(s, clock)
  <1> HIDE DEF cells
  <1>2. /\ FileTypeOK' /\ VerdictOK' /\ files'["short"].cells = cells
        /\ inputs'["short"].content = s /\ inputs'["short"].opened = clock
        /\ files'["forecast"] = files["forecast"] /\ inputs'["forecast"] = inputs["forecast"]
    <2>1. "short" \in Forecast!Names /\ "forecast" \in Forecast!Names \ {"short"}
          /\ files["short"] = Forecast!NoFile
      BY DEF Forecast!Names, Forecast!BuildShort
    <2>2. Forecast!Built("short", s, cells)
      BY <1>1 DEF cells
    <2> QED BY <2>1, <2>2, BuiltStep
  <1>3. BuiltOK'
    BY <1>1, <1>2 DEF ForecastInv, FileTypeOK, BuiltOK, cells
  <1> QED BY <1>2, <1>3 DEF ForecastInv

\* Signing changes no cells, and nothing that was signed before.
LEMMA SignStep ==
  ASSUME NEW g \in Forecast!Names, ForecastInv, Forecast!Sign(g)
  PROVE  ForecastInv'
  <1>1. PICK k \in Key : files' = [files EXCEPT ![g].signer = k]
    BY DEF Forecast!Sign
  <1>2. /\ files[g] # Forecast!NoFile /\ files[g].signer = None
        /\ clock' = clock /\ inputs' = inputs /\ verdict' = verdict
    BY DEF Forecast!Sign
  <1>3. /\ DOMAIN files = Forecast!Names
        /\ \A f \in Forecast!Names : files[f] = [cells |-> files[f].cells,
                                                 signer |-> files[f].signer]
    BY DEF ForecastInv, FileTypeOK
  <1>4. /\ files'[g] = [files[g] EXCEPT !.signer = k]
        /\ \A f \in Forecast!Names \ {g} : files'[f] = files[f]
        /\ files' = [f \in Forecast!Names |-> files'[f]]
    BY <1>1, <1>3
  <1>5. files'[g].cells = files[g].cells /\ files'[g] = [cells |-> files'[g].cells,
                                                        signer |-> files'[g].signer]
    BY <1>3, <1>4
  <1>6. \A f \in Forecast!Names : /\ files'[f].cells = files[f].cells
                                  /\ files'[f] # Forecast!NoFile => files[f] # Forecast!NoFile
                                  /\ files'[f] = [cells |-> files'[f].cells,
                                                  signer |-> files'[f].signer]
    BY <1>2, <1>3, <1>4, <1>5
  <1>7. FileTypeOK'
    BY <1>2, <1>4, <1>6 DEF ForecastInv, FileTypeOK
  <1>8. BuiltOK'
    BY <1>2, <1>6 DEF ForecastInv, BuiltOK, Forecast!Names
  <1>9. ~ verdict.accepted
    BY <1>2 DEF ForecastInv, VerdictOK, Forecast!Accepts, Forecast!Names
  <1> QED BY <1>2, <1>7, <1>8, <1>9 DEF ForecastInv, VerdictOK

\* A check remembers what it accepted.
LEMMA CheckStep == ForecastInv /\ Forecast!Check => ForecastInv'
  <1> SUFFICES ASSUME ForecastInv, Forecast!Check PROVE ForecastInv'
    OBVIOUS
  <1> DEFINE Fine(key, current) == Forecast!Accepts(files["forecast"], files["short"], key,
                                                     current, clock)
  <1>1. PICK key, current : verdict' = [accepted |-> Fine(key, current), key |-> key,
                                        current |-> current, minute |-> clock]
    BY DEF Forecast!Check
  <1>2. clock' = clock /\ files' = files /\ inputs' = inputs
    BY DEF Forecast!Check
  <1> HIDE DEF Fine
  <1>3. /\ verdict'.accepted = Fine(key, current) /\ verdict'.key = key
        /\ verdict'.current = current /\ verdict'.minute = clock
    BY <1>1
  <1>4. VerdictOK'
    BY <1>2, <1>3 DEF VerdictOK, Fine
  <1>5. FileTypeOK' /\ BuiltOK'
    BY <1>2, <1>3 DEF ForecastInv, FileTypeOK, BuiltOK
  <1> QED BY <1>4, <1>5 DEF ForecastInv

\* Every step of the tools keeps the invariant.
LEMMA ForecastStep ==
  ForecastInv /\ [Forecast!Next]_(Forecast!vars) => ForecastInv'
  <1> SUFFICES ASSUME ForecastInv, [Forecast!Next]_(Forecast!vars) PROVE ForecastInv'
    OBVIOUS
  <1>1. ASSUME Forecast!Tick \/ UNCHANGED Forecast!vars PROVE ForecastInv'
    <2>1. clock' \in Nat
      BY <1>1 DEF ForecastInv, FileTypeOK, Forecast!Tick, Forecast!vars
    <2>2. files' = files /\ inputs' = inputs /\ verdict' = verdict
      BY <1>1 DEF Forecast!Tick, Forecast!vars
    <2> QED BY <2>1, <2>2 DEF ForecastInv, FileTypeOK, BuiltOK, VerdictOK
  <1> QED BY <1>1, BuildFullStep, BuildShortStep, SignStep, CheckStep DEF Forecast!Next

\* What the invariant says of the file that there is.
LEMMA ReadsBack == ForecastInv => Forecast!FileReadsBack
  <1> SUFFICES ASSUME ForecastInv, files["forecast"] # Forecast!NoFile
               PROVE  LET c     == inputs["forecast"].content
                          cells == files["forecast"].cells
                          h     == Forecast!Header(cells)
                          known == Forecast!Of(c.conditions, "code") \cup {Missing} IN
                      /\ c = [locations |-> Forecast!ReadLocations(cells),
                              long |-> Forecast!Entries(cells, h.long),
                              compact |-> Forecast!Entries(cells, h.compact),
                              conditions |-> Forecast!Read(cells, h.conditions),
                              laundry |-> Forecast!Read(cells, h.laundry),
                              uv |-> Forecast!Read(cells, h.uv)]
                      /\ Forecast!ValidFull(cells) <=>
                           Forecast!Of(c.long, "code") \cup Forecast!Of(c.compact, "code")
                             \subseteq known
    BY DEF Forecast!FileReadsBack
  <1> DEFINE c     == inputs["forecast"].content
             o     == inputs["forecast"].opened
             cells == files["forecast"].cells
             h     == Forecast!Header(cells)
  <1>1. /\ c \in Catalog /\ o \in Nat /\ Forecast!Buildable(c)
        /\ cells = Forecast!FullFile(c, o)
    BY DEF ForecastInv, BuiltOK
  <1> HIDE DEF c, o, cells
  <1>2. /\ Forecast!ReadLocations(cells) = c.locations
        /\ Forecast!Entries(cells, h.long) = c.long
        /\ Forecast!Entries(cells, h.compact) = c.compact
        /\ Forecast!Read(cells, h.conditions) = c.conditions
        /\ Forecast!Read(cells, h.laundry) = c.laundry
        /\ Forecast!Read(cells, h.uv) = c.uv
    BY <1>1, FullIsRead
  <1>3. c = [locations |-> c.locations, long |-> c.long, compact |-> c.compact,
             conditions |-> c.conditions, laundry |-> c.laundry, uv |-> c.uv]
    BY <1>1, CatalogFacts
  <1>4. Forecast!ValidFull(cells) <=>
          Forecast!Of(c.long, "code") \cup Forecast!Of(c.compact, "code")
            \subseteq Forecast!Of(c.conditions, "code") \cup {Missing}
    BY <1>1, FullIsValid
  <1> QED BY <1>2, <1>3, <1>4 DEF c, cells

\* What it says of a pair that was accepted.
LEMMA PairIsUsable == ForecastInv => Forecast!AcceptedPairIsUsable
  <1> SUFFICES ASSUME ForecastInv, verdict.accepted PROVE Forecast!AcceptedPairIsUsable
    BY DEF Forecast!AcceptedPairIsUsable
  <1> DEFINE full  == inputs["forecast"]
             short == inputs["short"]
             c     == full.content
             s     == short.content
             m     == verdict.minute
             cells == files["forecast"].cells
             brief == files["short"].cells
  <1>1. Forecast!Accepts(files["forecast"], files["short"], verdict.key, verdict.current, m)
    BY DEF ForecastInv, VerdictOK
  <1>2. files["forecast"] # Forecast!NoFile /\ files["short"] # Forecast!NoFile
    BY <1>1 DEF Forecast!Accepts, Forecast!NoFile
  <1>3. /\ c \in Catalog /\ full.opened \in Nat /\ Forecast!Buildable(c)
        /\ cells = Forecast!FullFile(c, full.opened)
        /\ s \in Weather /\ short.opened \in Nat
        /\ brief = Forecast!ShortFile(s, short.opened)
        /\ m \in Nat
    BY <1>2 DEF ForecastInv, FileTypeOK, BuiltOK
  <1>4. /\ Forecast!RowsJoin(cells, brief)
        /\ verdict.current => Forecast!Covers(cells, m) /\ Forecast!Covers(brief, m)
        /\ verdict.key # None => \A f \in Forecast!Names : files[f].signer = verdict.key
    BY <1>1 DEF Forecast!Accepts, Forecast!Names
  <1> HIDE DEF full, short, c, s, m, cells, brief
  <1>5. /\ Forecast!Header(cells).opened = full.opened
        /\ Forecast!Header(cells).closed = full.opened + FullValidity
        /\ Forecast!ReadLocations(cells) = c.locations
        /\ Forecast!Dictionary(cells) = Forecast!Of(c.conditions, "code")
    BY <1>3, FullIsRead
  <1>6. /\ s \in ForecastRows /\ FullValidity \in Nat /\ ShortValidity \in Nat
    BY <1>3, CatalogAssumption
  <1>7. /\ Forecast!Current(brief) = s
        /\ Forecast!Header(brief).opened = short.opened
        /\ Forecast!Header(brief).closed = short.opened + ShortValidity
    BY <1>3, <1>6, ShortIsRead
  <1>8. /\ \A i, j \in DOMAIN s : s[i].key = s[j].key => s[i] = s[j]
        /\ Forecast!Keys(s) \subseteq Forecast!Keys(c.locations)
        /\ Forecast!Of(s, "code") \subseteq Forecast!Of(c.conditions, "code") \cup {Missing}
    BY <1>4, <1>5, <1>7 DEF Forecast!RowsJoin
  <1>9. ASSUME NEW i \in DOMAIN s
        PROVE  /\ \E l \in Forecast!Range(c.locations) : l.key = s[i].key /\ l.city # <<>>
               /\ {r \in Forecast!Range(s) : r.key = s[i].key} = {s[i]}
               /\ s[i].code = Missing \/ \E t \in Forecast!Range(c.conditions) :
                    t.code = s[i].code /\ t.text # <<>>
    <2>1. \E l \in Forecast!Range(c.locations) : l.key = s[i].key /\ l.city # <<>>
      <3>1. PICK j \in DOMAIN c.locations : c.locations[j].key = s[i].key
        BY <1>8 DEF Forecast!Keys, Forecast!Of
      <3>2. c.locations[j].city # <<>>
        BY <1>3 DEF Forecast!Buildable, Forecast!Of
      <3> QED BY <3>1, <3>2 DEF Forecast!Range
    <2>2. {r \in Forecast!Range(s) : r.key = s[i].key} = {s[i]}
      BY <1>8 DEF Forecast!Range
    <2>3. s[i].code = Missing \/ \E t \in Forecast!Range(c.conditions) :
            t.code = s[i].code /\ t.text # <<>>
      <3>1. CASE s[i].code # Missing
        <4>1. PICK j \in DOMAIN c.conditions : c.conditions[j].code = s[i].code
          BY <1>8, <3>1 DEF Forecast!Of
        <4>2. c.conditions[j].text # <<>>
          BY <1>3 DEF Forecast!Buildable, Forecast!Of
        <4> QED BY <4>1, <4>2 DEF Forecast!Range
      <3> QED BY <3>1
    <2> QED BY <2>1, <2>2, <2>3
  <1>10. verdict.current => /\ m \in full.opened .. full.opened + FullValidity - 1
                            /\ m \in short.opened .. short.opened + ShortValidity - 1
    BY <1>3, <1>4, <1>5, <1>6, <1>7 DEF Forecast!Covers
  <1> QED BY <1>4, <1>9, <1>10 DEF Forecast!AcceptedPairIsUsable, full, short, c, s, m

\* The invariant holds whenever the tools are the active part.
LEMMA ForecastInvariance == SuiteSpec => [](active = "forecast" => ForecastInv)
  <1>1. SuiteInit => (active = "forecast" => ForecastInv)
    BY ForecastInit, PartSteps
  <1>2. (active = "forecast" => ForecastInv) /\ [SuiteNext]_suite
          => (active = "forecast" => ForecastInv)'
    BY ForecastStep, PartSteps
  <1> QED BY <1>1, <1>2, PTL DEF SuiteSpec

\* For any catalog of locations, forecasts and texts that the builder takes, the
\* channel's reader finds every entry and text that was laid out by offsets, shared
\* names and six tables, and the validator accepts the file if and only if every
\* condition code has a text (forecast.py).
THEOREM ForecastReadsBack == SuiteSpec => []FileReadsBack
  <1>1. (active = "forecast" => ForecastInv) => FileReadsBack
    BY ReadsBack DEF FileReadsBack
  <1> QED BY <1>1, ForecastInvariance, PTL

\* For any catalogs, weathers and keys, a pair of files that the check accepted shows
\* a named location and a condition with a text for every row of weather, one row for
\* each location, in the time and with the key that the check was asked for
\* (forecast_bundle.py), whatever is built, signed or checked in between.
THEOREM AcceptedPairsAreUsable == SuiteSpec => []AcceptedPairIsUsable
  <1>1. (active = "forecast" => ForecastInv) => AcceptedPairIsUsable
    BY PairIsUsable DEF AcceptedPairIsUsable
  <1> QED BY <1>1, ForecastInvariance, PTL

------------------------------------------------------------------------------
(* What was compressed, and what is decoded (NintendoLz). *)

\* A quotient and a remainder.
LEMMA Quotient ==
  ASSUME NEW w \in Nat, w > 0, NEW k \in Nat, NEW r \in Nat, r < w
  PROVE  (k * w + r) \div w = k /\ (k * w + r) % w = r
  <1>1. (k * w + r) \div w = k
    BY SMTT(60)
  <1>2. (k * w + r) % w = r
    BY SMTT(60)
  <1> QED BY <1>1, <1>2

\* The remainders repeat.
LEMMA Remainders ==
  ASSUME NEW n \in Nat, n > 0, NEW k \in Nat
  PROVE  /\ k % n \in 0 .. n - 1
         /\ k < n => k % n = k
         /\ k >= n => (k - n) % n = k % n
  <1>1. k % n \in 0 .. n - 1
    OBVIOUS
  <1>2. k < n => k % n = k
    BY SMTT(60)
  <1>3. ASSUME k >= n PROVE (k - n) % n = k % n
    <2> DEFINE q == k \div n
               r == k % n
    <2>1. q \in Nat /\ r \in 0 .. n - 1 /\ k = q * n + r
      OBVIOUS
    <2> HIDE DEF q, r
    <2>2. q # 0
      BY <2>1, <1>3
    <2>3. q - 1 \in Nat /\ k - n = (q - 1) * n + r
      BY <2>1, <2>2
    <2>4. ((q - 1) * n + r) % n = r
      BY <2>1, <2>3, Quotient
    <2> QED BY <2>3, <2>4 DEF r
  <1> QED BY <1>1, <1>2, <1>3

\* A number with fewer than m whole parts.
LEMMA Bounded ==
  ASSUME NEW w \in Nat, NEW m \in Nat, NEW k \in Nat, k < m, NEW r \in Nat, r < w
  PROVE  k * w + r < m * w
  <1>1. (k + 1) * w <= m * w
    OBVIOUS
  <1>2. (k + 1) * w = k * w + w /\ k * w \in Nat
    OBVIOUS
  <1> QED BY <1>1, <1>2

\* The flags announce the cells from at on, a place before each: a reference makes more
\* than one byte; behind them a group begins or the output ends.
Announced(flags, at, from) ==
  /\ at + Len(flags) <= Len(from)
  /\ \A k \in at .. at + Len(flags) - 1 :
       from[k] < from[k + 1] /\ (flags[k - at + 1] <=> from[k + 1] # from[k] + 1)
  /\ at + Len(flags) < Len(from) => from[at + Len(flags) + 1] = from[at + Len(flags)]

\* A reference makes the bytes from first to the one before next.
Repeats(cell, first, next) ==
  /\ Compression!LengthOf(cell) = next - first
  /\ Compression!DistanceOf(cell) \in 1 .. first - 1
  /\ \A i \in first .. next - 1 : payload[i] = payload[i - Compression!DistanceOf(cell)]

\* What the cell k makes.
CellOK(k, from) ==
  /\ from[k] \in 1 .. Len(payload) /\ from[k + 1] \in from[k] .. Len(payload) + 1
  /\ from[k + 1] = from[k] + 1 => output[k].byte = payload[from[k]]
  /\ from[k + 1] > from[k] + 1 => Repeats(output[k], from[k], from[k + 1])

\* The flags of the group that begins in the cell k.
GroupOK(k, from) ==
  /\ from[k + 1] = from[k] => output[k].flags \in Seq(BOOLEAN)
  /\ from[k + 1] = from[k] /\ ~ (phase = "encode" /\ k = group.at) =>
       Announced(output[k].flags, k + 1, from)

\* The place in the payload before each cell of the output, and behind the last.
Places(from) ==
  /\ from \in Seq(Nat) /\ Len(from) = Len(output) + 1
  /\ from[1] = 1 /\ from[Len(from)] = cursor /\ Announced(<<>>, 1, from)
  /\ \A k \in 1 .. Len(output) : CellOK(k, from) /\ GroupOK(k, from)

\* The encoder's group is at the end of the output.
Encoding(from) ==
  /\ decoded = <<>> /\ decoderAt = 1
  /\ group.at = 0 => group = Compression!NoGroup
  /\ group.at # 0 =>
       /\ group.at \in 1 .. Len(output) /\ group.at + Len(group.flags) = Len(output)
       /\ from[group.at + 1] = from[group.at]
       /\ Announced(group.flags, group.at + 1, from)

\* The decoder has made what the cells before its place make.
Decoding(from) ==
  /\ cursor = Len(payload) + 1 /\ decoderAt \in 1 .. Len(from)
  /\ Len(decoded) + 1 = from[decoderAt] /\ Announced(group.flags, decoderAt, from)
  /\ \A i \in 1 .. Len(decoded) : decoded[i] = payload[i]

LzCell == [flags : Seq(BOOLEAN)] \cup [byte : Byte] \cup [marker : Nat, rest : Nat]

\* The types of the compression's variables.
LzTypeOK ==
  /\ format \in {"lz10", "lz11"} /\ payload \in Seq(Byte)
  /\ cursor \in 1 .. Len(payload) + 1
  /\ positions \in SUBSET (1 .. cursor - 1)
  /\ output \in Seq(LzCell) /\ group \in [at : Nat, flags : Seq(BOOLEAN)]
  /\ decoded \in Seq(Byte) /\ decoderAt \in Nat
  /\ phase \in {"encode", "decode", "done"}

LzInv ==
  /\ LzTypeOK
  /\ \E from : /\ Places(from)
               /\ phase = "encode" => Encoding(from)
               /\ phase # "encode" => Decoding(from)
  /\ phase = "done" => Len(decoded) >= Len(payload)

\* The longest that a reference makes.
LEMMA LongestFacts ==
  ASSUME LzTypeOK
  PROVE  Compression!Longest \in Nat /\ Compression!Longest >= 3
  BY CompressionAssumption
     DEF LzTypeOK, Compression!Longest, Compression!Shortest, Compression!LongBase

\* A position of the key at the cursor is one of an earlier match.
LEMMA CandidateFacts ==
  ASSUME LzTypeOK, NEW k \in Compression!Candidates
  PROVE  /\ k \in 1 .. cursor - 1 /\ cursor - k <= Reach /\ cursor + 2 <= Len(payload)
         /\ \A i \in 0 .. 2 : payload[k + i] = payload[cursor + i]
  <1>1. /\ k \in positions /\ cursor - k <= Reach /\ Compression!HasKey(cursor)
        /\ Compression!KeyOf(k) = Compression!KeyOf(cursor)
    BY DEF Compression!Candidates
  <1>2. k \in 1 .. cursor - 1 /\ cursor \in Nat /\ Len(payload) \in Nat
        /\ payload \in Seq(Byte)
    BY <1>1 DEF LzTypeOK
  <1>3. cursor + 2 <= Len(payload)
    BY <1>1, <1>2 DEF Compression!HasKey, Compression!Shortest
  <1>4. ASSUME NEW p \in 1 .. cursor, NEW i \in 0 .. 2
        PROVE  Compression!KeyOf(p)[i + 1] = payload[p + i]
    <2>1. p \in Nat /\ p + 2 \in Nat /\ p + 2 <= Len(payload)
      BY <1>2, <1>3
    <2>2. \A j \in p .. p + 2 : payload[j] \in Byte
      <3>1. \A j \in p .. p + 2 : j \in 1 .. Len(payload)
        BY <2>1
      <3> QED BY <3>1, <1>2, ElementOfSeq
    <2>3. \A j \in 1 .. (p + 2) - p + 1 : SubSeq(payload, p, p + 2)[j] = payload[p + j - 1]
      BY <2>1, <2>2, SubSeqProperties
    <2>4. i + 1 \in 1 .. (p + 2) - p + 1 /\ p + (i + 1) - 1 = p + i /\ p + 3 - 1 = p + 2
      BY <2>1
    <2>5. SubSeq(payload, p, p + 2)[i + 1] = payload[p + i]
      BY <2>3, <2>4
    <2> QED BY <2>4, <2>5 DEF Compression!KeyOf, Compression!Shortest
  <1>5. \A i \in 0 .. 2 : payload[k + i] = payload[cursor + i]
    <2> TAKE i \in 0 .. 2
    <2>1. Compression!KeyOf(k)[i + 1] = payload[k + i]
          /\ Compression!KeyOf(cursor)[i + 1] = payload[cursor + i]
      <3>1. k \in 1 .. cursor /\ cursor \in 1 .. cursor
        BY <1>2
      <3> QED BY <3>1, <1>4
    <2> QED BY <2>1, <1>1
  <1> QED BY <1>1, <1>2, <1>3, <1>5

\* The match at a candidate.
LEMMA MatchFacts ==
  ASSUME LzTypeOK, NEW k \in Compression!Candidates
  PROVE  LET n == Compression!MatchAt(k) IN
         /\ n \in 3 .. Compression!Longest /\ cursor + n <= Len(payload) + 1
         /\ \A i \in 0 .. n - 1 : payload[k + i] = payload[cursor + i]
  <1> DEFINE maximum == Compression!Smaller(Compression!Longest, Len(payload) - cursor + 1)
             Same(n) == \A i \in 0 .. n - 1 : payload[k + i] = payload[cursor + i]
             Good    == {n \in 3 .. maximum : Same(n)}
             Longest(n) == Same(n) /\ ~ (n < maximum /\ Same(n + 1))
  <1>1. /\ maximum \in Nat /\ maximum >= 3 /\ maximum <= Compression!Longest
        /\ cursor + maximum <= Len(payload) + 1
    <2>1. cursor \in Nat /\ Len(payload) \in Nat
      BY DEF LzTypeOK
    <2>2. cursor + 2 <= Len(payload)
      BY CandidateFacts
    <2> QED BY <2>1, <2>2, LongestFacts DEF Compression!Smaller
  <1>2. 3 \in Good
    <2>1. Same(3)
      BY CandidateFacts
    <2> HIDE DEF Same, maximum
    <2> QED BY <2>1, <1>1
  <1>3. Good \in SUBSET Nat /\ IsFiniteSet(Good)
    <2> HIDE DEF Same, maximum
    <2>1. IsFiniteSet(3 .. maximum)
      <3>1. 3 \in Int /\ maximum \in Int
        BY <1>1
      <3> QED BY <3>1, FS_Interval
    <2>2. Good \subseteq 3 .. maximum
      OBVIOUS
    <2>3. 3 .. maximum \subseteq Nat
      BY <1>1
    <2> HIDE DEF Good
    <2> QED BY <2>1, <2>2, <2>3, FS_Subset
  <1>4. PICK m \in Good : \A n \in Good : n <= m
    <2> HIDE DEF Good
    <2> QED BY <1>2, <1>3, GreatestNatural
  <1>5. m \in 3 .. maximum /\ Longest(m)
    <2> HIDE DEF maximum, Same
    <2>1. m \in 3 .. maximum /\ Same(m)
      BY DEF Good
    <2>2. m < maximum /\ Same(m + 1) => m + 1 \in Good
      BY <2>1, <1>1
    <2>3. ~ (m + 1 <= m)
      BY <2>1
    <2> QED BY <2>1, <2>2, <2>3, <1>4
  <1>6. Compression!MatchAt(k) = CHOOSE n \in 3 .. maximum : Longest(n)
    BY DEF Compression!MatchAt, Compression!Shortest
  <1>7. Compression!MatchAt(k) \in 3 .. maximum /\ Longest(Compression!MatchAt(k))
    <2> HIDE DEF maximum, Longest
    <2> QED BY <1>5, <1>6
  <1>8. Same(Compression!MatchAt(k))
    BY <1>7
  <1> HIDE DEF maximum
  <1> QED BY <1>1, <1>7, <1>8, LongestFacts DEF LzTypeOK

\* A longest and nearest candidate is one of the candidates.
LEMMA BestFacts ==
  ASSUME LzTypeOK, Compression!Candidates # {}
  PROVE  Compression!Best \in Compression!Candidates
  <1> DEFINE C       == Compression!Candidates
             M(k)    == Compression!MatchAt(k)
             Lengths == {M(k) : k \in C}
  <1>1. IsFiniteSet(C) /\ C \in SUBSET Nat
    <2>1. C \subseteq 1 .. cursor - 1
      BY CandidateFacts
    <2>2. cursor \in Nat
      BY DEF LzTypeOK
    <2>3. IsFiniteSet(1 .. cursor - 1)
      <3>1. 1 \in Int /\ cursor - 1 \in Int
        BY <2>2
      <3> QED BY <3>1, FS_Interval
    <2>4. 1 .. cursor - 1 \subseteq Nat
      BY <2>2
    <2> HIDE DEF C
    <2> QED BY <2>1, <2>3, <2>4, FS_Subset
  <1>2. \A k \in C : M(k) \in Nat
    BY MatchFacts, LongestFacts
  <1> HIDE DEF C, M
  <1>3. PICK m \in Lengths : \A n \in Lengths : n <= m
    <2>1. Lengths \in SUBSET Nat /\ Lengths # {}
      BY <1>2 DEF C
    <2>2. IsFiniteSet(Lengths)
      <3>1. [k \in C |-> M(k)] \in [C -> Nat]
        BY <1>2
      <3>2. IsFiniteSet({[k \in C |-> M(k)][x] : x \in C})
        BY <3>1, <1>1, FiniteImage
      <3>3. {[k \in C |-> M(k)][x] : x \in C} = Lengths
        OBVIOUS
      <3> HIDE DEF Lengths
      <3> QED BY <3>2, <3>3
    <2> HIDE DEF Lengths
    <2> QED BY <2>1, <2>2, GreatestNatural
  <1> DEFINE Longest == {k \in C : M(k) = m}
  <1>4. PICK k \in Longest : \A o \in Longest : o <= k
    <2>1. Longest \in SUBSET Nat /\ IsFiniteSet(Longest) /\ Longest # {}
      <3>1. Longest \subseteq C /\ Longest # {}
        BY <1>3
      <3> HIDE DEF Longest
      <3> QED BY <3>1, <1>1, FS_Subset
    <2> HIDE DEF Longest
    <2> QED BY <2>1, GreatestNatural
  <1>5. \A o \in C : M(o) < M(k) \/ (M(o) = M(k) /\ o <= k)
    <2> TAKE o \in C
    <2>1. M(o) <= m /\ M(k) = m /\ M(o) \in Nat /\ m \in Nat
      BY <1>2, <1>3, <1>4
    <2>2. M(o) = m => o <= k
      BY <1>4
    <2> QED BY <2>1, <2>2
  <1>6. Compression!Best = CHOOSE x \in C : \A o \in C : M(o) < M(x) \/ (M(o) = M(x) /\ o <= x)
    BY DEF Compression!Best, C, M
  <1>7. k \in C
    BY <1>4
  <1> QED BY <1>5, <1>6, <1>7 DEF C

\* What a reference says, the decoder reads.
LEMMA ReferenceFacts ==
  ASSUME format \in {"lz10", "lz11"}, NEW n \in 3 .. Compression!Longest,
         NEW p \in 0 .. Reach - 1, Compression!Longest \in Nat
  PROVE  LET cell == Compression!Reference(n, p) IN
         /\ cell \in [marker : Nat, rest : Nat]
         /\ Compression!LengthOf(cell) = n /\ Compression!DistanceOf(cell) = p + 1
  <1> DEFINE cell == Compression!Reference(n, p)
             Read(k, w) == [marker |-> (k * Reach + p) \div w, rest |-> (k * Reach + p) % w]
  <1>1. Reach \in Nat /\ Reach > 0 /\ p \in Nat /\ p < Reach /\ n \in Nat
    BY CompressionAssumption
  <1>2. ASSUME NEW k \in Nat
        PROVE  /\ Read(k, Reach) = [marker |-> k, rest |-> p]
               /\ (k * Reach + p) \div Reach = k /\ (k * Reach + p) % Reach = p
    BY <1>1, Quotient
  <1>3. p % Reach = p
    BY <1>1, Remainders
  <1>4. CASE format = "lz10"
    <2>1. n - 3 \in Nat
      OBVIOUS
    <2>2. cell = Read(n - 3, Reach)
      BY <1>4 DEF Compression!Reference, Compression!Shortest
    <2>3. cell = [marker |-> n - 3, rest |-> p]
      BY <2>1, <2>2, <1>2
    <2> HIDE DEF cell
    <2>4. cell.marker = n - 3 /\ cell.rest = p
      BY <2>3
    <2>5. Compression!LengthOf(cell) = n /\ Compression!DistanceOf(cell) = p + 1
      BY <2>4, <1>1, <1>3, <1>4
         DEF Compression!LengthOf, Compression!DistanceOf, Compression!Shortest
    <2>6. cell \in [marker : Nat, rest : Nat]
      BY <2>1, <2>3, <1>1
    <2> QED BY <2>5, <2>6 DEF cell
  <1>5. CASE format = "lz11" /\ n < Markers + 1
    <2>1. n - 1 \in Nat /\ n - 1 # 0 /\ format # "lz10" /\ ~ (n >= Markers + 1)
      BY <1>5, CompressionAssumption
    <2>2. cell = Read(n - 1, Reach)
      BY <2>1, <1>5 DEF Compression!Reference, Compression!LongBase
    <2>3. cell = [marker |-> n - 1, rest |-> p]
      BY <2>1, <2>2, <1>2
    <2> HIDE DEF cell
    <2>4. cell.marker = n - 1 /\ cell.rest = p
      BY <2>3
    <2>5. Compression!LengthOf(cell) = n /\ Compression!DistanceOf(cell) = p + 1
      BY <2>1, <2>4, <1>1, <1>3, <1>5 DEF Compression!LengthOf, Compression!DistanceOf
    <2>6. cell \in [marker : Nat, rest : Nat]
      BY <2>1, <2>3, <1>1
    <2> QED BY <2>5, <2>6 DEF cell
  <1>6. CASE format = "lz11" /\ ~ (n < Markers + 1)
    <2> DEFINE k == n - (Markers + 1)
    <2>1. k \in Nat /\ k < LongCodes /\ format # "lz10" /\ n >= Markers + 1
      BY <1>6, CompressionAssumption DEF Compression!Longest, Compression!LongBase
    <2>2. LongCodes \in Nat /\ Markers \in Nat
      BY CompressionAssumption
    <2>3. cell = Read(k, LongCodes * Reach)
      BY <2>1, <1>6 DEF Compression!Reference, Compression!LongBase
    <2> HIDE DEF k
    <2>4. k * Reach \in Nat /\ LongCodes * Reach \in Nat
      BY <2>1, <2>2, <1>1
    <2>5. k * Reach + p \in Nat /\ k * Reach + p < LongCodes * Reach
      BY <2>1, <2>2, <2>4, <1>1, Bounded
    <2>6. Read(k, LongCodes * Reach) = [marker |-> 0, rest |-> k * Reach + p]
      <3> DEFINE x == k * Reach + p
                 w == LongCodes * Reach
      <3>1. x \in Nat /\ w \in Nat /\ x < w
        BY <2>4, <2>5
      <3> HIDE DEF x, w
      <3>2. w > 0 /\ 0 * w + x = x
        BY <3>1
      <3>3. (0 * w + x) \div w = 0 /\ (0 * w + x) % w = x
        BY <3>1, <3>2, Quotient
      <3> QED BY <3>2, <3>3 DEF x, w
    <2>7. cell = [marker |-> 0, rest |-> k * Reach + p]
      BY <2>3, <2>6
    <2> HIDE DEF cell
    <2>8. cell.marker = 0 /\ cell.rest = k * Reach + p
      BY <2>7
    <2>9. cell.rest \div Reach = k /\ cell.rest % Reach = p
      BY <2>1, <2>8, <1>2
    <2>10. Compression!LengthOf(cell) = k + (Markers + 1)
      BY <2>1, <2>8, <2>9, <1>6 DEF Compression!LengthOf, Compression!LongBase
    <2>11. k + (Markers + 1) = n
      BY <2>2 DEF k
    <2>12. cell \in [marker : Nat, rest : Nat]
      BY <2>5, <2>7
    <2> QED BY <2>9, <2>10, <2>11, <2>12 DEF cell, Compression!DistanceOf
  <1> QED BY <1>4, <1>5, <1>6

\* What is announced stays when a cell is put behind it, or a group begins there.
LEMMA AnnouncedKept ==
  ASSUME NEW flags \in Seq(BOOLEAN), NEW at \in Nat, at > 0, NEW from \in Seq(Nat),
         NEW x \in Nat, Announced(flags, at, from),
         at + Len(flags) < Len(from) \/ x = from[Len(from)]
  PROVE  Announced(flags, at, Append(from, x))
  <1> DEFINE more == Append(from, x)
  <1>1. /\ Len(more) = Len(from) + 1 /\ more[Len(from) + 1] = x
        /\ \A i \in 1 .. Len(from) : more[i] = from[i]
    BY AppendProperties
  <1>2. Len(from) \in Nat /\ Len(flags) \in Nat
    OBVIOUS
  <1> HIDE DEF more
  <1>3. at + Len(flags) <= Len(more)
    BY <1>1, <1>2 DEF Announced
  <1>4. ASSUME NEW k \in at .. at + Len(flags) - 1
        PROVE  more[k] < more[k + 1] /\ (flags[k - at + 1] <=> more[k + 1] # more[k] + 1)
    <2>1. k \in 1 .. Len(from) /\ k + 1 \in 1 .. Len(from)
      BY <1>2 DEF Announced
    <2>2. more[k] = from[k] /\ more[k + 1] = from[k + 1]
      BY <2>1, <1>1
    <2>3. from[k] < from[k + 1] /\ (flags[k - at + 1] <=> from[k + 1] # from[k] + 1)
      BY DEF Announced
    <2> QED BY ONLY <2>2, <2>3
  <1>5. ASSUME at + Len(flags) < Len(more)
        PROVE  more[at + Len(flags) + 1] = more[at + Len(flags)]
    <2> DEFINE e == at + Len(flags)
    <2>1. e \in 1 .. Len(from) /\ (e < Len(from) => from[e + 1] = from[e])
      BY <1>2 DEF Announced
    <2>2. e < Len(from) \/ x = from[Len(from)]
      OBVIOUS
    <2> HIDE DEF e
    <2>3. CASE e < Len(from)
      <3>1. e + 1 \in 1 .. Len(from)
        BY <2>1, <2>3, <1>2
      <3>2. more[e] = from[e] /\ more[e + 1] = from[e + 1]
        BY <3>1, <2>1, <1>1
      <3> QED BY <3>2, <2>1, <2>3 DEF e
    <2>4. CASE ~ (e < Len(from))
      <3>1. e = Len(from)
        BY <2>1, <2>4, <1>2
      <3>2. more[e] = x /\ more[e + 1] = x
        BY <3>1, <2>1, <2>2, <2>4, <1>1
      <3> QED BY <3>2 DEF e
    <2> QED BY <2>3, <2>4
  <1> QED BY <1>3, <1>4, <1>5 DEF Announced, more

\* A group takes a further cell.
LEMMA AnnouncedMore ==
  ASSUME NEW flags \in Seq(BOOLEAN), NEW at \in Nat, at > 0, NEW from \in Seq(Nat),
         NEW x \in Nat, NEW flag \in BOOLEAN, Announced(flags, at, from),
         at + Len(flags) = Len(from), from[Len(from)] < x,
         flag <=> x # from[Len(from)] + 1
  PROVE  Announced(Append(flags, flag), at, Append(from, x))
  <1> DEFINE more == Append(from, x)
             all  == Append(flags, flag)
  <1>1. /\ Len(more) = Len(from) + 1 /\ more[Len(from) + 1] = x
        /\ \A i \in 1 .. Len(from) : more[i] = from[i]
    BY AppendProperties
  <1>2. /\ Len(all) = Len(flags) + 1 /\ all[Len(flags) + 1] = flag
        /\ \A i \in 1 .. Len(flags) : all[i] = flags[i]
    BY AppendProperties
  <1>3. Len(from) \in Nat /\ Len(flags) \in Nat
    OBVIOUS
  <1> HIDE DEF more, all
  <1>4. at + Len(all) = Len(more)
    BY <1>1, <1>2, <1>3
  <1>5. ASSUME NEW k \in at .. at + Len(all) - 1
        PROVE  more[k] < more[k + 1] /\ (all[k - at + 1] <=> more[k + 1] # more[k] + 1)
    <2>1. CASE k = Len(from)
      <3>1. k - at + 1 = Len(flags) + 1 /\ k \in 1 .. Len(from)
        BY <2>1, <1>3
      <3>2. all[k - at + 1] = flag
        BY <3>1, <1>2
      <3>3. more[k] = from[Len(from)] /\ more[k + 1] = x
        BY <3>1, <2>1, <1>1
      <3> QED BY <3>2, <3>3
    <2>2. CASE k # Len(from)
      <3>1. /\ k \in at .. at + Len(flags) - 1 /\ k - at + 1 \in 1 .. Len(flags)
            /\ k \in 1 .. Len(from) /\ k + 1 \in 1 .. Len(from)
        <4>1. /\ k \in Nat /\ at <= k /\ k <= at + Len(flags) /\ k # at + Len(flags)
              /\ at \in Nat /\ at + Len(flags) = Len(from)
          BY <2>2, <1>2, <1>3
        <4>2. k <= at + Len(flags) - 1 /\ k + 1 <= Len(from)
          BY ONLY <4>1, <1>3
        <4>3. k \in at .. at + Len(flags) - 1
          BY <4>1, <4>2, <1>3
        <4>4. k - at + 1 \in 1 .. Len(flags)
          BY <4>1, <4>2, <1>3
        <4>5. k \in 1 .. Len(from) /\ k + 1 \in 1 .. Len(from)
          BY <4>1, <4>2, <1>3
        <4> QED BY <4>3, <4>4, <4>5
      <3>2. all[k - at + 1] = flags[k - at + 1]
        BY <3>1, <1>2
      <3>3. more[k] = from[k] /\ more[k + 1] = from[k + 1]
        BY <3>1, <1>1
      <3>4. from[k] < from[k + 1] /\ (flags[k - at + 1] <=> from[k + 1] # from[k] + 1)
        BY <3>1 DEF Announced
      <3> QED BY ONLY <3>2, <3>3, <3>4
    <2> QED BY <2>1, <2>2
  <1> QED
    <2>1. at + Len(all) <= Len(more) /\ ~ (at + Len(all) < Len(more))
      BY <1>4, <1>1, <1>3
    <2> QED BY <2>1, <1>5 DEF Announced, more, all

\* The first of the cells that are announced, and the others.
LEMMA AnnouncedNext ==
  ASSUME NEW flags \in Seq(BOOLEAN), NEW at \in Nat, at > 0, NEW from \in Seq(Nat),
         Announced(flags, at, from), flags # <<>>
  PROVE  /\ at < Len(from) /\ from[at] < from[at + 1]
         /\ Head(flags) \in BOOLEAN /\ (Head(flags) <=> from[at + 1] # from[at] + 1)
         /\ Tail(flags) \in Seq(BOOLEAN) /\ Announced(Tail(flags), at + 1, from)
  <1>1. Len(flags) \in Nat /\ Len(flags) > 0 /\ Len(from) \in Nat
    BY EmptySeq
  <1>2. at < Len(from) /\ at \in at .. at + Len(flags) - 1 /\ at - at + 1 = 1
    BY <1>1 DEF Announced
  <1>3. from[at] < from[at + 1] /\ (flags[1] <=> from[at + 1] # from[at] + 1)
    <2>1. from[at] < from[at + 1] /\ (flags[at - at + 1] <=> from[at + 1] # from[at] + 1)
      BY <1>2 DEF Announced
    <2> QED BY ONLY <2>1, <1>2
  <1>4. Head(flags) = flags[1] /\ flags[1] \in BOOLEAN
    BY <1>1, ElementOfSeq, HeadTailProperties
  <1> DEFINE rest == Tail(flags)
  <1>5. /\ rest \in Seq(BOOLEAN) /\ Len(rest) = Len(flags) - 1
        /\ \A i \in 1 .. Len(rest) : rest[i] = flags[i + 1]
    BY <1>1, HeadTailProperties
  <1> HIDE DEF rest
  <1>6. (at + 1) + Len(rest) = at + Len(flags)
    BY <1>1, <1>5
  <1>7. ASSUME NEW k \in at + 1 .. (at + 1) + Len(rest) - 1
        PROVE  from[k] < from[k + 1] /\ (rest[k - (at + 1) + 1] <=> from[k + 1] # from[k] + 1)
    <2>1. /\ k \in at .. at + Len(flags) - 1 /\ k - (at + 1) + 1 \in 1 .. Len(rest)
          /\ (k - (at + 1) + 1) + 1 = k - at + 1
      BY <1>1, <1>5
    <2>2. rest[k - (at + 1) + 1] = flags[k - at + 1]
      <3> DEFINE j == k - (at + 1) + 1
      <3>1. j \in 1 .. Len(rest) /\ j + 1 = k - at + 1
        BY <2>1
      <3> HIDE DEF j
      <3>2. rest[j] = flags[j + 1]
        BY <3>1, <1>5
      <3> QED BY ONLY <3>1, <3>2 DEF j
    <2>3. from[k] < from[k + 1] /\ (flags[k - at + 1] <=> from[k + 1] # from[k] + 1)
      BY <2>1 DEF Announced
    <2> QED BY ONLY <2>2, <2>3
  <1>8. Announced(rest, at + 1, from)
    <2>1. at + Len(flags) <= Len(from)
          /\ (at + Len(flags) < Len(from) => from[at + Len(flags) + 1] = from[at + Len(flags)])
      BY DEF Announced
    <2>2. (at + 1) + Len(rest) <= Len(from)
          /\ ((at + 1) + Len(rest) < Len(from) =>
                from[(at + 1) + Len(rest) + 1] = from[(at + 1) + Len(rest)])
      BY ONLY <2>1, <1>6
    <2> QED BY <2>2, <1>7 DEF Announced
  <1> QED BY <1>2, <1>3, <1>4, <1>5, <1>8 DEF rest

\* Flags that announce nothing are before a group or the end.
LEMMA NothingAnnounced ==
  ASSUME NEW at \in Nat, NEW from \in Seq(Nat), at <= Len(from)
  PROVE  Announced(<<>>, at, from) <=> (at < Len(from) => from[at + 1] = from[at])
  <1>1. Len(<<>>) = 0 /\ at + 0 = at /\ Len(from) \in Nat
    OBVIOUS
  <1>2. at .. at + 0 - 1 = {}
    OBVIOUS
  <1> QED BY <1>1, <1>2 DEF Announced

\* The first cell begins a group, and nothing is encoded yet.
LEMMA LzInit == Compression!Init => LzInv
  <1> SUFFICES ASSUME Compression!Init PROVE LzInv
    OBVIOUS
  <1>1. PICK n \in 0 .. MaxLength : payload \in [1 .. n -> Byte]
    BY DEF Compression!Init
  <1>2. payload \in Seq(Byte) /\ Len(payload) \in Nat
    <2>1. n \in Nat
      BY CompressionAssumption
    <2>2. payload \in Seq(Byte)
      BY <1>1, <2>1
    <2> QED BY <2>2, LenProperties
  <1>3. /\ positions = {} /\ cursor = 1 /\ output = <<>> /\ group = [at |-> 0, flags |-> <<>>]
        /\ decoded = <<>> /\ decoderAt = 1 /\ phase = "encode" /\ format \in {"lz10", "lz11"}
    BY DEF Compression!Init, Compression!NoGroup
  <1>4. LzTypeOK
    <2>1. <<>> \in Seq(LzCell) /\ <<>> \in Seq(Byte) /\ <<>> \in Seq(BOOLEAN)
      BY EmptySeq
    <2>2. group \in [at : Nat, flags : Seq(BOOLEAN)]
      BY <2>1, <1>3
    <2> QED BY <2>1, <2>2, <1>2, <1>3 DEF LzTypeOK
  <1>5. Places(<<1>>)
    <2>1. <<1>> \in Seq(Nat) /\ Len(<<1>>) = 1 /\ <<1>>[1] = 1
      OBVIOUS
    <2>2. Announced(<<>>, 1, <<1>>)
      BY <2>1, NothingAnnounced
    <2>3. 1 .. Len(output) = {} /\ Len(output) = 0
      BY <1>3
    <2> QED BY <2>1, <2>2, <2>3, <1>3 DEF Places
  <1>6. Encoding(<<1>>)
    BY <1>3 DEF Encoding, Compression!NoGroup
  <1> QED BY <1>3, <1>4, <1>5, <1>6 DEF LzInv

\* What holds of the places before a cell is put behind them.
LEMMA PlacesFacts ==
  ASSUME LzTypeOK, NEW from, Places(from)
  PROVE  /\ Len(output) \in Nat /\ Len(from) = Len(output) + 1 /\ from \in Seq(Nat)
         /\ 1 \in 1 .. Len(from) /\ Len(from) \in 1 .. Len(from)
         /\ \A k \in 1 .. Len(from) : from[k] \in Nat
         /\ cursor \in Nat /\ Len(payload) \in Nat
  <1>1. Len(output) \in Nat
    BY DEF LzTypeOK
  <1>2. from \in Seq(Nat) /\ Len(from) = Len(output) + 1
    BY DEF Places
  <1>3. cursor \in Nat /\ Len(payload) \in Nat
    BY DEF LzTypeOK
  <1> QED BY <1>1, <1>2, <1>3, ElementOfSeq

\* A cell that was put there stays as it was.
LEMMA CellStays ==
  ASSUME LzTypeOK, NEW from, Places(from), NEW cell \in LzCell, NEW x \in Nat,
         output' = Append(output, cell), UNCHANGED <<format, payload>>,
         NEW k \in 1 .. Len(output)
  PROVE  CellOK(k, Append(from, x))'
  <1> DEFINE more == Append(from, x)
  <1>1. output'[k] = output[k]
    BY AppendProperties DEF LzTypeOK
  <1>2. k \in 1 .. Len(from) /\ k + 1 \in 1 .. Len(from)
    BY PlacesFacts
  <1>3. more[k] = from[k] /\ more[k + 1] = from[k + 1]
    BY <1>2, PlacesFacts, AppendProperties
  <1>4. CellOK(k, from)
    BY DEF Places
  <1> HIDE DEF more
  <1>5. ASSUME NEW token, NEW first, NEW next, Repeats(token, first, next)
        PROVE  Repeats(token, first, next)'
    BY <1>5 DEF Repeats, Compression!LengthOf, Compression!DistanceOf, Compression!Shortest,
               Compression!LongBase
  <1>6. CellOK(k, more)'
    BY <1>1, <1>3, <1>4, <1>5 DEF CellOK
  <1> QED BY <1>6 DEF more

\* A group is begun behind the others.
LEMMA OpenGroupStep == LzInv /\ Compression!OpenGroup => LzInv'
  <1> SUFFICES ASSUME LzInv, Compression!OpenGroup PROVE LzInv'
    OBVIOUS
  <1>1. PICK from : Places(from) /\ Encoding(from)
    BY DEF LzInv, Compression!OpenGroup
  <1> DEFINE cell == [flags |-> <<>>]
  <1>0. PICK x, more, last : x = cursor /\ more = Append(from, x) /\ last = Len(output) + 1
    OBVIOUS
  <1>2. /\ output' = Append(output, cell) /\ group' = [at |-> Len(output) + 1, flags |-> <<>>]
        /\ UNCHANGED <<format, payload, positions, cursor, decoded, decoderAt, phase>>
        /\ phase = "encode" /\ group.at = 0 /\ cursor <= Len(payload)
    BY DEF Compression!OpenGroup, Compression!task, Compression!decoder
  <1>3. LzTypeOK /\ cell \in LzCell
    BY DEF LzInv, LzCell
  <1>4. /\ Len(output) \in Nat /\ Len(from) = Len(output) + 1 /\ from \in Seq(Nat)
        /\ 1 \in 1 .. Len(from) /\ Len(from) \in 1 .. Len(from)
        /\ cursor \in Nat /\ Len(payload) \in Nat /\ from[Len(from)] = cursor
        /\ from[1] = 1 /\ Announced(<<>>, 1, from)
    BY <1>1, <1>3, PlacesFacts DEF Places
  <1>5. output' \in Seq(LzCell) /\ Len(output') = Len(output) + 1
        /\ output'[Len(output) + 1] = cell
    BY <1>2, <1>3, AppendProperties DEF LzTypeOK
  <1>6. LzTypeOK'
    <2>1. group' \in [at : Nat, flags : Seq(BOOLEAN)]
      <3>1. <<>> \in Seq(BOOLEAN) /\ Len(output) + 1 \in Nat
        BY <1>4
      <3> QED BY <3>1, <1>2
    <2> QED BY <2>1, <1>2, <1>3, <1>5 DEF LzTypeOK
  <1>7. /\ more \in Seq(Nat) /\ Len(more) = Len(from) + 1
        /\ more[Len(from) + 1] = x /\ \A i \in 1 .. Len(from) : more[i] = from[i]
    <2>1. x \in Nat
      BY <1>0, <1>4
    <2> QED BY <2>1, <1>0, <1>4, AppendProperties
  <1>8. ASSUME NEW flags \in Seq(BOOLEAN), NEW at \in Nat, at > 0, Announced(flags, at, from)
        PROVE  Announced(flags, at, more)
    <2>1. x \in Nat /\ x = from[Len(from)]
      BY <1>0, <1>4
    <2> QED BY <2>1, <1>0, <1>4, <1>8, AnnouncedKept
  <1>9. \A k \in 1 .. Len(output) : CellOK(k, more)'
    <2>1. x \in Nat
      BY <1>0, <1>4
    <2> QED BY <2>1, <1>0, <1>1, <1>2, <1>3, CellStays
  <1> HIDE DEF cell
  <1>10. ASSUME NEW k \in 1 .. Len(output) PROVE GroupOK(k, more)'
    <2>1. k # group.at /\ k + 1 \in Nat /\ k + 1 > 0 /\ k \in 1 .. Len(from)
          /\ k + 1 \in 1 .. Len(from)
      BY <1>2, <1>4
    <2>2. more[k] = from[k] /\ more[k + 1] = from[k + 1] /\ output'[k] = output[k]
      <3>1. output'[k] = output[k]
        BY <1>2, <1>3, AppendProperties DEF LzTypeOK
      <3> QED BY <3>1, <2>1, <1>7
    <2>3. GroupOK(k, from)
      BY <1>1 DEF Places
    <2>4. ASSUME from[k + 1] = from[k]
          PROVE  output[k].flags \in Seq(BOOLEAN) /\ Announced(output[k].flags, k + 1, more)
      <3>1. output[k].flags \in Seq(BOOLEAN) /\ Announced(output[k].flags, k + 1, from)
        BY <2>1, <2>3, <2>4 DEF GroupOK
      <3> QED BY <3>1, <2>1, <1>8
    <2> QED BY <2>2, <2>4 DEF GroupOK
  <1>11. CellOK(last, more)' /\ GroupOK(last, more)'
    <2>1. more[last] = cursor /\ more[last + 1] = cursor
      BY <1>0, <1>4, <1>7
    <2>2. cursor \in 1 .. Len(payload) /\ cursor \in cursor .. Len(payload) + 1
          /\ cursor # cursor + 1 /\ ~ (cursor > cursor + 1)
      BY <1>2, <1>3, <1>4 DEF LzTypeOK
    <2>3. CellOK(last, more)'
      BY <2>1, <2>2, <1>2 DEF CellOK
    <2>4. output'[last].flags \in Seq(BOOLEAN)
      BY <1>0, <1>5 DEF cell
    <2>5. group'.at = last /\ phase' = "encode"
      BY <1>0, <1>2
    <2> QED BY <2>3, <2>4, <2>5 DEF GroupOK
  <1>12. Places(more)'
    <2>1. Announced(<<>>, 1, more)
      <3>1. <<>> \in Seq(BOOLEAN) /\ 1 \in Nat /\ 1 > 0
        OBVIOUS
      <3> QED BY <3>1, <1>4, <1>8
    <2>2. more[1] = 1 /\ more[Len(more)] = cursor'
      BY <1>0, <1>2, <1>4, <1>7
    <2>3. \A k \in 1 .. Len(output') : k \in 1 .. Len(output) \/ k = last
      BY <1>0, <1>4, <1>5
    <2>4. \A k \in 1 .. Len(output') : CellOK(k, more)' /\ GroupOK(k, more)'
      BY <2>3, <1>9, <1>10, <1>11
    <2> QED BY <2>1, <2>2, <2>4, <1>4, <1>5, <1>7 DEF Places
  <1>13. Encoding(more)'
    <2>1. group'.at = Len(output) + 1 /\ group'.flags = <<>> /\ Len(<<>>) = 0
      BY <1>2
    <2>2. more[group'.at + 1] = more[group'.at]
      BY <2>1, <1>0, <1>4, <1>7
    <2>3. Announced(<<>>, group'.at + 1, more)
      <3>1. group'.at + 1 \in Nat /\ group'.at + 1 = Len(more)
        BY <2>1, <1>4, <1>7
      <3> QED BY <3>1, <1>7, NothingAnnounced
    <2>4. group'.at \in 1 .. Len(output') /\ group'.at + Len(group'.flags) = Len(output')
          /\ group'.at # 0
      BY <2>1, <1>4, <1>5
    <2>5. decoded' = <<>> /\ decoderAt' = 1
      BY <1>1, <1>2 DEF Encoding
    <2> QED BY <2>1, <2>2, <2>3, <2>4, <2>5 DEF Encoding
  <1> QED BY <1>2, <1>6, <1>12, <1>13 DEF LzInv

\* A group that is closed ends before the one that is open.
LEMMA GroupEnds ==
  ASSUME LzTypeOK, NEW from, Places(from), Encoding(from), group.at # 0,
         NEW k \in 1 .. Len(output), k # group.at, from[k + 1] = from[k],
         NEW flags \in Seq(BOOLEAN), Announced(flags, k + 1, from)
  PROVE  k + 1 + Len(flags) < Len(from)
  <1>1. /\ Len(output) \in Nat /\ Len(from) = Len(output) + 1 /\ Len(flags) \in Nat
        /\ \A i \in 1 .. Len(from) : from[i] \in Nat
    BY PlacesFacts
  <1>2. /\ group.at \in 1 .. Len(output) /\ group.at + Len(group.flags) = Len(output)
        /\ from[group.at + 1] = from[group.at] /\ Announced(group.flags, group.at + 1, from)
        /\ Len(group.flags) \in Nat
    BY DEF Encoding, LzTypeOK
  <1>3. k + 1 + Len(flags) <= Len(from) /\ k + 1 + Len(flags) \in Nat
    BY <1>1 DEF Announced
  <1>4. CASE k < group.at
    <2>1. ASSUME k + 1 + Len(flags) = Len(from) PROVE FALSE
      <3>1. group.at \in k + 1 .. k + 1 + Len(flags) - 1
        BY <2>1, <1>1, <1>2, <1>4
      <3>2. from[group.at] < from[group.at + 1]
        BY <3>1 DEF Announced
      <3>3. from[group.at] \in Nat
        BY <1>1, <1>2
      <3> QED BY <3>2, <3>3, <1>2
    <2>2. Len(from) \in Nat
      BY <1>1
    <2> QED BY <2>1, <2>2, <1>3
  <1>5. CASE k > group.at
    <2>1. k \in group.at + 1 .. group.at + 1 + Len(group.flags) - 1
      BY <1>1, <1>2, <1>5
    <2>2. from[k] < from[k + 1]
      BY <2>1, <1>2 DEF Announced
    <2>3. from[k] \in Nat
      BY <1>1
    <2> QED BY <2>2, <2>3
  <1> QED BY <1>2, <1>4, <1>5

\* The flags of the group that is open, and its cells, are one more.
LEMMA EmitStep ==
  ASSUME LzInv, phase = "encode", group.at # 0, NEW cell \in LzCell, NEW flag \in BOOLEAN,
         NEW n \in Nat, n > 0, cursor + n <= Len(payload) + 1, flag <=> n # 1,
         n = 1 => cell.byte = payload[cursor],
         n > 1 => Repeats(cell, cursor, cursor + n),
         Compression!Emit(cell, flag, n)
  PROVE  LzInv'
  <1>1. PICK from : Places(from) /\ Encoding(from)
    BY DEF LzInv
  <1>0. PICK x, more, last :
         x = cursor + n /\ more = Append(from, x) /\ last = Len(output) + 1
    OBVIOUS
  <1>2. /\ output' = Append(output, cell) /\ group'.at = group.at
        /\ group'.flags = Append(group.flags, flag) /\ cursor' = cursor + n
        /\ group' \in [at : Nat, flags : Seq(BOOLEAN)]
        /\ positions' = Compression!Remembered(cursor, cursor + n - 1)
        /\ UNCHANGED <<format, payload, decoded, decoderAt, phase>>
    <2>1. group \in [at : Nat, flags : Seq(BOOLEAN)]
      BY DEF LzInv, LzTypeOK
    <2>2. Append(group.flags, flag) \in Seq(BOOLEAN)
      BY <2>1, AppendProperties
    <2>3. group' = [group EXCEPT !.flags = Append(group.flags, flag)]
      BY DEF Compression!Emit
    <2>4. group'.at = group.at /\ group'.flags = Append(group.flags, flag)
          /\ group' \in [at : Nat, flags : Seq(BOOLEAN)]
      BY <2>1, <2>2, <2>3
    <2> QED BY <2>4 DEF Compression!Emit, Compression!task, Compression!decoder
  <1>3. LzTypeOK
    BY DEF LzInv
  <1>4. /\ Len(output) \in Nat /\ Len(from) = Len(output) + 1 /\ from \in Seq(Nat)
        /\ 1 \in 1 .. Len(from) /\ Len(from) \in 1 .. Len(from)
        /\ cursor \in Nat /\ Len(payload) \in Nat /\ from[Len(from)] = cursor
        /\ from[1] = 1 /\ Announced(<<>>, 1, from) /\ x \in Nat
    BY <1>0, <1>1, <1>3, PlacesFacts DEF Places
  <1>5. output' \in Seq(LzCell) /\ Len(output') = Len(output) + 1
        /\ output'[Len(output) + 1] = cell
    BY <1>2, <1>3, AppendProperties DEF LzTypeOK
  <1>6. LzTypeOK'
    <2>1. cursor' \in 1 .. Len(payload') + 1
      BY <1>2, <1>4 DEF LzInv, LzTypeOK
    <2>2. positions' \subseteq positions \cup (cursor .. cursor + n - 1)
      BY <1>2 DEF Compression!Remembered
    <2>3. positions \subseteq 1 .. cursor - 1 /\ cursor >= 1
      BY <1>3 DEF LzTypeOK
    <2>4. /\ 1 .. cursor - 1 \subseteq 1 .. x - 1
          /\ cursor .. cursor + n - 1 \subseteq 1 .. x - 1
      <3>1. x = cursor + n /\ cursor \in Nat /\ cursor >= 1 /\ n \in Nat
        BY <2>3, <1>0, <1>4
      <3>2. \A p \in 1 .. cursor - 1 : p \in 1 .. x - 1
        BY ONLY <3>1
      <3>3. \A p \in cursor .. cursor + n - 1 : p \in 1 .. x - 1
        BY ONLY <3>1
      <3> QED BY <3>2, <3>3
    <2>5. positions' \in SUBSET (1 .. cursor' - 1)
      BY ONLY <2>2, <2>3, <2>4, <1>0, <1>2
    <2> QED BY <2>1, <2>5, <1>2, <1>3, <1>5 DEF LzTypeOK
  <1>7. /\ more \in Seq(Nat) /\ Len(more) = Len(from) + 1
        /\ more[Len(from) + 1] = x /\ \A i \in 1 .. Len(from) : more[i] = from[i]
    BY <1>0, <1>4, AppendProperties
  <1>8. \A k \in 1 .. Len(output) : CellOK(k, more)'
    BY <1>0, <1>1, <1>2, <1>3, <1>4, CellStays
  <1>9. /\ group.at \in 1 .. Len(output) /\ group.at + Len(group.flags) = Len(output)
        /\ from[group.at + 1] = from[group.at] /\ Announced(group.flags, group.at + 1, from)
        /\ Len(group.flags) \in Nat /\ group.flags \in Seq(BOOLEAN)
        /\ decoded = <<>> /\ decoderAt = 1
    BY <1>1, <1>3 DEF Encoding, LzTypeOK
  <1>10. ASSUME NEW k \in 1 .. Len(output) PROVE GroupOK(k, more)'
    <2>1. k + 1 \in Nat /\ k + 1 > 0 /\ k \in 1 .. Len(from) /\ k + 1 \in 1 .. Len(from)
      BY <1>4
    <2>2. more[k] = from[k] /\ more[k + 1] = from[k + 1] /\ output'[k] = output[k]
      <3>1. output'[k] = output[k]
        BY <1>2, <1>3, AppendProperties DEF LzTypeOK
      <3> QED BY <3>1, <2>1, <1>7
    <2>3. GroupOK(k, from)
      BY <1>1 DEF Places
    <2>4. ASSUME from[k + 1] = from[k], k # group.at
          PROVE  Announced(output[k].flags, k + 1, more)
      <3>1. Announced(output[k].flags, k + 1, from) /\ output[k].flags \in Seq(BOOLEAN)
        BY <2>3, <2>4 DEF GroupOK
      <3>2. k + 1 + Len(output[k].flags) < Len(from)
        BY <3>1, <2>4, <1>1, <1>3, GroupEnds
      <3> QED BY <3>1, <3>2, <2>1, <1>0, <1>4, AnnouncedKept
    <2>5. from[k + 1] = from[k] => output[k].flags \in Seq(BOOLEAN)
      BY <2>3 DEF GroupOK
    <2> QED BY <2>2, <2>4, <2>5, <1>2 DEF GroupOK
  <1>11. CellOK(last, more)' /\ GroupOK(last, more)'
    <2>1. more[last] = cursor /\ more[last + 1] = x
      BY <1>0, <1>4, <1>7
    <2>2. /\ cursor \in 1 .. Len(payload) /\ x \in cursor .. Len(payload) + 1 /\ x # cursor
          /\ (x = cursor + 1 => n = 1) /\ (x > cursor + 1 => n > 1)
      BY <1>0, <1>3, <1>4 DEF LzTypeOK
    <2>3. n > 1 => Repeats(cell, from[Len(from)], x)'
      BY <1>0, <1>2, <1>4 DEF Repeats, Compression!LengthOf, Compression!DistanceOf,
                  Compression!Shortest, Compression!LongBase
    <2>4. output'[last] = cell
      BY <1>0, <1>5
    <2>5. CellOK(last, more)'
      <3>1. /\ more[last] \in 1 .. Len(payload') /\ more[last + 1] \in more[last] .. Len(payload') + 1
            /\ more[last + 1] = more[last] + 1 => output'[last].byte = payload'[more[last]]
        BY <2>1, <2>2, <2>4, <1>2
      <3>2. ASSUME more[last + 1] > more[last] + 1
            PROVE  Repeats(output[last], more[last], more[last + 1])'
        <4>1. Repeats(cell, from[Len(from)], x)'
          BY <3>2, <2>1, <2>2, <2>3
        <4>2. more[last] = from[Len(from)] /\ more[last + 1] = x
          BY <2>1, <1>4
        <4> QED BY <4>1, <4>2, <2>4
                DEF Repeats, Compression!LengthOf, Compression!DistanceOf,
                    Compression!Shortest, Compression!LongBase
      <3> QED BY <3>1, <3>2 DEF CellOK
    <2>6. GroupOK(last, more)'
      BY <2>1, <2>2 DEF GroupOK
    <2> QED BY <2>5, <2>6
  <1>12. Places(more)'
    <2>1. Announced(<<>>, 1, more)
      <3>1. <<>> \in Seq(BOOLEAN) /\ 1 \in Nat /\ 1 > 0 /\ Len(<<>>) = 0
        OBVIOUS
      <3>2. 1 + Len(<<>>) < Len(from)
        BY <3>1, <1>4, <1>9
      <3> QED BY <3>1, <3>2, <1>0, <1>4, AnnouncedKept
    <2>2. more[1] = 1 /\ more[Len(more)] = cursor'
      BY <1>0, <1>2, <1>4, <1>7
    <2>3. \A k \in 1 .. Len(output') : k \in 1 .. Len(output) \/ k = last
      BY <1>0, <1>4, <1>5
    <2>4. \A k \in 1 .. Len(output') : CellOK(k, more)' /\ GroupOK(k, more)'
      BY <2>3, <1>8, <1>10, <1>11
    <2> QED BY <2>1, <2>2, <2>4, <1>4, <1>5, <1>7 DEF Places
  <1>13. Encoding(more)'
    <2>1. group'.at + 1 \in 1 .. Len(from) /\ group'.at \in 1 .. Len(from)
      <3>1. group.at \in 1 .. Len(output) /\ Len(from) = Len(output) + 1 /\ Len(output) \in Nat
        BY <1>4, <1>9
      <3>2. group.at + 1 \in 1 .. Len(from) /\ group.at \in 1 .. Len(from)
        BY ONLY <3>1
      <3> QED BY <3>2, <1>2
    <2>2. more[group'.at + 1] = more[group'.at]
      BY <2>1, <1>2, <1>7, <1>9
    <2>3. Announced(group'.flags, group'.at + 1, more)
      <3>1. /\ (group.at + 1) + Len(group.flags) = Len(from) /\ group.at + 1 \in Nat
            /\ group.at + 1 > 0
        <4>1. /\ group.at \in 1 .. Len(output) /\ group.at + Len(group.flags) = Len(output)
              /\ Len(from) = Len(output) + 1 /\ Len(output) \in Nat /\ Len(group.flags) \in Nat
          BY <1>4, <1>9
        <4> QED BY ONLY <4>1
      <3>2. from[Len(from)] < x /\ (x # from[Len(from)] + 1 <=> n # 1)
        BY <1>0, <1>4
      <3>3. flag <=> x # from[Len(from)] + 1
        BY ONLY <3>2, flag <=> n # 1
      <3> QED BY <3>1, <3>2, <3>3, <1>0, <1>2, <1>4, <1>9, AnnouncedMore
    <2>4. Len(group'.flags) = Len(group.flags) + 1
      BY <1>2, <1>9, AppendProperties
    <2>5. group'.at \in 1 .. Len(output') /\ group'.at + Len(group'.flags) = Len(output')
      <3>1. /\ group.at \in 1 .. Len(output) /\ group.at + Len(group.flags) = Len(output)
            /\ Len(output') = Len(output) + 1 /\ Len(output) \in Nat
            /\ Len(group.flags) \in Nat
        BY <1>4, <1>5, <1>9
      <3>2. /\ group.at \in 1 .. Len(output')
            /\ group.at + (Len(group.flags) + 1) = Len(output')
        BY ONLY <3>1
      <3> QED BY <3>2, <2>4, <1>2
    <2>6. decoded' = <<>> /\ decoderAt' = 1 /\ group'.at # 0
      BY <1>2, <1>9
    <2> QED BY <2>2, <2>3, <2>5, <2>6 DEF Encoding
  <1> QED BY <1>2, <1>6, <1>12, <1>13 DEF LzInv

\* A literal or a reference is encoded: the reference repeats what is before it.
LEMMA EncodeStep == LzInv /\ Compression!Encode => LzInv'
  <1> SUFFICES ASSUME LzInv, Compression!Encode PROVE LzInv'
    OBVIOUS
  <1>1. /\ LzTypeOK /\ phase = "encode" /\ group.at # 0 /\ cursor <= Len(payload)
        /\ cursor \in Nat /\ cursor >= 1 /\ Len(payload) \in Nat
    BY DEF LzInv, LzTypeOK, Compression!Encode
  <1>2. CASE Compression!Candidates = {}
    <2>1. PICK byte : byte = payload[cursor]
      OBVIOUS
    <2>2. byte \in Byte
      BY <2>1, <1>1, ElementOfSeq DEF LzTypeOK
    <2>3. [byte |-> byte] \in LzCell
      BY <2>2 DEF LzCell
    <2>4. Compression!Emit([byte |-> byte], FALSE, 1)
      BY <2>1, <1>2 DEF Compression!Encode
    <2>5. cursor + 1 <= Len(payload) + 1 /\ [byte |-> byte].byte = payload[cursor]
      BY <2>1, <1>1
    <2>6. FALSE \in BOOLEAN /\ 1 \in Nat /\ 1 > 0 /\ (FALSE <=> 1 # 1) /\ ~ (1 > 1)
      OBVIOUS
    <2>7. PICK cell, flag, n : cell = [byte |-> byte] /\ flag = FALSE /\ n = 1
      OBVIOUS
    <2> QED BY <2>3, <2>4, <2>5, <2>6, <2>7, <1>1, EmitStep
  <1>3. CASE Compression!Candidates # {}
    <2>1. PICK k, n, cell : /\ k = Compression!Best /\ n = Compression!MatchAt(k)
                            /\ cell = Compression!Reference(n, cursor - k - 1)
      OBVIOUS
    <2>2. k \in Compression!Candidates
      BY <2>1, <1>1, <1>3, BestFacts
    <2>3. k \in 1 .. cursor - 1 /\ cursor - k <= Reach
      BY <2>2, <1>1, CandidateFacts
    <2>4. /\ n \in 3 .. Compression!Longest /\ cursor + n <= Len(payload) + 1
          /\ \A i \in 0 .. n - 1 : payload[k + i] = payload[cursor + i]
      BY <2>1, <2>2, <1>1, MatchFacts
    <2>5. cursor - k - 1 \in 0 .. Reach - 1 /\ (cursor - k - 1) + 1 = cursor - k
      BY <2>3, <1>1, CompressionAssumption
    <2>6. /\ cell \in [marker : Nat, rest : Nat]
          /\ Compression!LengthOf(cell) = n /\ Compression!DistanceOf(cell) = cursor - k
      <3>1. PICK p : p = cursor - k - 1
        OBVIOUS
      <3>2. Compression!Longest \in Nat /\ format \in {"lz10", "lz11"}
        BY <1>1, LongestFacts DEF LzTypeOK
      <3> QED BY <3>1, <3>2, <2>1, <2>4, <2>5, ReferenceFacts
    <2>7. n \in Nat /\ n > 1
      BY <2>4, <1>1, LongestFacts
    <2>8. Repeats(cell, cursor, cursor + n)
      <3>1. (cursor + n) - cursor = n /\ cursor - k \in 1 .. cursor - 1
        BY <2>3, <2>7, <1>1
      <3>2. ASSUME NEW i \in cursor .. (cursor + n) - 1
            PROVE  payload[i] = payload[i - (cursor - k)]
        <4>1. i - cursor \in 0 .. n - 1 /\ cursor + (i - cursor) = i
              /\ k + (i - cursor) = i - (cursor - k)
          BY <2>3, <2>7, <1>1
        <4>2. payload[k + (i - cursor)] = payload[cursor + (i - cursor)]
          BY <4>1, <2>4
        <4> QED BY <4>1, <4>2
      <3>3. Compression!DistanceOf(cell) \in 1 .. cursor - 1
            /\ Compression!LengthOf(cell) = (cursor + n) - cursor
        BY <3>1, <2>6
      <3>4. \A i \in cursor .. (cursor + n) - 1 :
              payload[i] = payload[i - Compression!DistanceOf(cell)]
        BY <3>2, <2>6
      <3> QED BY <3>3, <3>4 DEF Repeats
    <2>9. Compression!Emit(cell, TRUE, n)
      BY <2>1, <1>3 DEF Compression!Encode
    <2>10. cell \in LzCell /\ n # 1 /\ n > 0
      BY <2>6, <2>7 DEF LzCell
    <2> QED BY <2>4, <2>7, <2>8, <2>9, <2>10, <1>1, EmitStep
  <1> QED BY <1>2, <1>3

\* The flags of a group take their place.
LEMMA CloseGroupStep == LzInv /\ Compression!CloseGroup => LzInv'
  <1> SUFFICES ASSUME LzInv, Compression!CloseGroup PROVE LzInv'
    OBVIOUS
  <1>1. PICK from : Places(from) /\ Encoding(from)
    BY DEF LzInv, Compression!CloseGroup
  <1>2. PICK at, flags : at = group.at /\ flags = group.flags
    OBVIOUS
  <1>3. /\ output' = [output EXCEPT ![at] = [flags |-> flags]]
        /\ group' = [at |-> 0, flags |-> <<>>]
        /\ UNCHANGED <<format, payload, positions, cursor, decoded, decoderAt, phase>>
        /\ phase = "encode" /\ at # 0
    BY <1>2 DEF Compression!CloseGroup, Compression!task, Compression!decoder,
                Compression!NoGroup
  <1>4. LzTypeOK /\ output \in Seq(LzCell) /\ Len(output) \in Nat
    BY DEF LzInv, LzTypeOK
  <1>5. /\ at \in 1 .. Len(output) /\ from[at + 1] = from[at] /\ Announced(flags, at + 1, from)
        /\ flags \in Seq(BOOLEAN) /\ decoded = <<>> /\ decoderAt = 1
    BY <1>1, <1>2, <1>3, <1>4 DEF Encoding, LzTypeOK
  <1>6. [flags |-> flags] \in LzCell
    BY <1>5 DEF LzCell
  <1>7. /\ output' \in Seq(LzCell) /\ Len(output') = Len(output)
        /\ output'[at] = [flags |-> flags]
        /\ \A k \in 1 .. Len(output) : k # at => output'[k] = output[k]
    BY <1>3, <1>4, <1>5, <1>6, ExceptSeq
  <1>8. LzTypeOK'
    <2>1. group' \in [at : Nat, flags : Seq(BOOLEAN)]
      <3>1. <<>> \in Seq(BOOLEAN)
        OBVIOUS
      <3> QED BY <3>1, <1>3
    <2> QED BY <2>1, <1>3, <1>4, <1>7 DEF LzTypeOK
  <1>9. ASSUME NEW k \in 1 .. Len(output) PROVE CellOK(k, from)' /\ GroupOK(k, from)'
    <2>1. CellOK(k, from) /\ GroupOK(k, from)
      BY <1>1 DEF Places
    <2>2. CASE k = at
      <3>1. from[k] \in Nat /\ from[k + 1] = from[k]
        <4>1. at \in 1 .. Len(from)
          BY <1>1, <1>4, <1>5, PlacesFacts
        <4> QED BY <4>1, <2>2, <1>1, <1>4, <1>5, PlacesFacts
      <3>2. CellOK(k, from)'
        BY <3>1, <2>1, <1>3 DEF CellOK
      <3>3. output'[k].flags = flags
        BY <2>2, <1>7
      <3> QED BY <3>2, <3>3, <2>2, <1>5 DEF GroupOK
    <2>3. CASE k # at
      <3>1. output'[k] = output[k]
        BY <2>3, <1>7
      <3>2. CellOK(k, from)'
        BY <3>1, <2>1, <1>3 DEF CellOK, Repeats, Compression!LengthOf, Compression!DistanceOf,
                                Compression!Shortest, Compression!LongBase
      <3>3. GroupOK(k, from)'
        BY <3>1, <2>1, <2>3, <1>2, <1>3 DEF GroupOK
      <3> QED BY <3>2, <3>3
    <2> QED BY <2>2, <2>3
  <1>10. Places(from)'
    BY <1>1, <1>3, <1>7, <1>9 DEF Places
  <1>11. Encoding(from)'
    BY <1>3, <1>5 DEF Encoding, Compression!NoGroup
  <1> QED BY <1>3, <1>8, <1>10, <1>11 DEF LzInv

\* The decoder starts where the output does.
LEMMA EncodedStep == LzInv /\ Compression!Encoded => LzInv'
  <1> SUFFICES ASSUME LzInv, Compression!Encoded PROVE LzInv'
    OBVIOUS
  <1>1. PICK from : Places(from) /\ Encoding(from)
    BY DEF LzInv, Compression!Encoded
  <1>2. /\ UNCHANGED <<format, payload, positions, cursor, output, group, decoded, decoderAt>>
        /\ phase' = "decode" /\ group.at = 0 /\ cursor > Len(payload)
    BY DEF Compression!Encoded, Compression!task, Compression!encoder, Compression!decoder
  <1>3. LzTypeOK /\ LzTypeOK'
    BY <1>2 DEF LzInv, LzTypeOK
  <1>4. /\ group.flags = <<>> /\ decoded = <<>> /\ decoderAt = 1 /\ Len(decoded) = 0
    BY <1>1, <1>2 DEF Encoding, Compression!NoGroup
  <1>5. cursor = Len(payload) + 1
    BY <1>2, <1>3 DEF LzTypeOK
  <1>6. ASSUME NEW k \in 1 .. Len(output) PROVE CellOK(k, from)' /\ GroupOK(k, from)'
    <2>1. CellOK(k, from) /\ GroupOK(k, from) /\ k # group.at
      BY <1>1, <1>2 DEF Places
    <2>2. CellOK(k, from)'
      BY <2>1, <1>2 DEF CellOK, Repeats, Compression!LengthOf, Compression!DistanceOf,
                        Compression!Shortest, Compression!LongBase
    <2>3. GroupOK(k, from)'
      BY <2>1, <1>2 DEF GroupOK
    <2> QED BY <2>2, <2>3
  <1>7. Places(from)'
    BY <1>1, <1>2, <1>6 DEF Places
  <1>8. Decoding(from)'
    <2>1. from[1] = 1 /\ Announced(<<>>, 1, from) /\ 1 \in 1 .. Len(from)
      BY <1>1, <1>3, PlacesFacts DEF Places
    <2>2. 1 .. 0 = {}
      OBVIOUS
    <2> QED BY <2>1, <2>2, <1>2, <1>4, <1>5 DEF Decoding
  <1> QED BY <1>2, <1>3, <1>7, <1>8 DEF LzInv

\* What a decoding step begins with.
LEMMA DecodingFacts ==
  ASSUME LzInv, phase = "decode", ~ Compression!Whole
  PROVE  \E from : /\ Places(from) /\ Decoding(from) /\ decoderAt \in 1 .. Len(output)
                   /\ from[decoderAt] = Len(decoded) + 1
                   /\ CellOK(decoderAt, from) /\ GroupOK(decoderAt, from)
  <1>1. PICK from : Places(from) /\ Decoding(from)
    BY DEF LzInv
  <1>2. /\ LzTypeOK /\ Len(decoded) \in Nat /\ Len(payload) \in Nat
        /\ Len(decoded) < Len(payload)
    BY DEF LzInv, LzTypeOK, Compression!Whole
  <1>3. /\ Len(from) = Len(output) + 1 /\ Len(output) \in Nat
        /\ from[Len(from)] = cursor /\ cursor = Len(payload) + 1
        /\ decoderAt \in 1 .. Len(from) /\ from[decoderAt] = Len(decoded) + 1
    BY <1>1, <1>2, PlacesFacts DEF Places, Decoding
  <1>4. decoderAt # Len(from)
    BY <1>2, <1>3
  <1>5. decoderAt \in 1 .. Len(output)
    BY <1>3, <1>4
  <1> QED BY <1>1, <1>3, <1>5 DEF Places

\* What the decoder does not change: the cells and their places.
LEMMA PlacesStay ==
  ASSUME NEW from, Places(from), UNCHANGED <<format, payload, cursor, output>>,
         phase = "decode", phase' # "encode"
  PROVE  Places(from)'
  <1>1. ASSUME NEW k \in 1 .. Len(output) PROVE CellOK(k, from)' /\ GroupOK(k, from)'
    <2>1. CellOK(k, from) /\ GroupOK(k, from)
      BY DEF Places
    <2>2. CellOK(k, from)'
      BY <2>1 DEF CellOK, Repeats, Compression!LengthOf, Compression!DistanceOf,
                  Compression!Shortest, Compression!LongBase
    <2>3. GroupOK(k, from)'
      BY <2>1 DEF GroupOK
    <2> QED BY <2>2, <2>3
  <1> QED BY <1>1 DEF Places

\* The decoder takes the flags of a group.
LEMMA DecodeFlagsStep == LzInv /\ Compression!DecodeFlags => LzInv'
  <1> SUFFICES ASSUME LzInv, Compression!DecodeFlags PROVE LzInv'
    OBVIOUS
  <1>1. PICK from : /\ Places(from) /\ Decoding(from) /\ decoderAt \in 1 .. Len(output)
                    /\ from[decoderAt] = Len(decoded) + 1
                    /\ CellOK(decoderAt, from) /\ GroupOK(decoderAt, from)
    BY DecodingFacts DEF Compression!DecodeFlags
  <1>2. LzTypeOK /\ phase = "decode" /\ group.flags = <<>> /\ ~ (decoderAt > Len(output))
    BY <1>1 DEF LzInv, LzTypeOK, Compression!DecodeFlags
  <1>3. /\ group' = [group EXCEPT !.flags = output[decoderAt].flags]
        /\ decoderAt' = decoderAt + 1
        /\ UNCHANGED <<format, payload, positions, cursor, output, decoded, phase>>
    BY <1>2 DEF Compression!DecodeFlags, Compression!task, Compression!encoder
  <1>4. /\ Len(from) = Len(output) + 1 /\ Len(output) \in Nat /\ from \in Seq(Nat)
    BY <1>1, <1>2, PlacesFacts
  <1>5. from[decoderAt + 1] = from[decoderAt]
    <2>1. Announced(<<>>, decoderAt, from) /\ decoderAt \in Nat /\ decoderAt < Len(from)
          /\ decoderAt <= Len(from)
      BY <1>1, <1>2, <1>4 DEF Decoding
    <2> QED BY <2>1, <1>4, NothingAnnounced
  <1>6. output[decoderAt].flags \in Seq(BOOLEAN)
        /\ Announced(output[decoderAt].flags, decoderAt + 1, from)
    BY <1>1, <1>2, <1>5 DEF GroupOK
  <1>7. group' \in [at : Nat, flags : Seq(BOOLEAN)] /\ group'.flags = output[decoderAt].flags
    BY <1>2, <1>3, <1>6 DEF LzTypeOK
  <1>8. LzTypeOK'
    <2>1. decoderAt' \in Nat
      BY <1>2, <1>3 DEF LzTypeOK
    <2> QED BY <2>1, <1>2, <1>3, <1>7 DEF LzTypeOK
  <1>9. Places(from)'
    BY <1>1, <1>2, <1>3, PlacesStay
  <1>10. Decoding(from)'
    <2>1. decoderAt' \in 1 .. Len(from)
      BY <1>1, <1>3, <1>4
    <2>2. Announced(group'.flags, decoderAt', from)
      BY <1>3, <1>6, <1>7
    <2>3. Len(decoded') + 1 = from[decoderAt']
      BY <1>1, <1>3, <1>5
    <2>4. cursor' = Len(payload') + 1 /\ \A i \in 1 .. Len(decoded') : decoded'[i] = payload'[i]
      BY <1>1, <1>3 DEF Decoding
    <2> QED BY <2>1, <2>2, <2>3, <2>4 DEF Decoding
  <1> QED BY <1>2, <1>3, <1>8, <1>9, <1>10 DEF LzInv

\* Bytes that repeat at a distance are those of the first turn.
LEMMA RepeatedBytes ==
  ASSUME NEW V, NEW s \in Seq(V), NEW done \in Nat, NEW n \in Nat, NEW far \in 1 .. done,
         \A i \in done + 1 .. done + n : s[i] = s[i - far]
  PROVE  \A i \in 1 .. n : s[done + i] = s[done - far + 1 + ((i - 1) % far)]
  <1> DEFINE Same(i) == s[done + i] = s[done - far + 1 + ((i - 1) % far)]
             Bad     == {i \in 1 .. n : ~ Same(i)}
  <1> SUFFICES ASSUME Bad # {} PROVE FALSE
    OBVIOUS
  <1>1. PICK k \in Bad : \A i \in Bad : k <= i
    <2>1. Bad \in SUBSET Nat
      OBVIOUS
    <2> HIDE DEF Bad
    <2> QED BY <2>1, LeastNatural
  <1>2. k \in 1 .. n /\ ~ Same(k) /\ k - 1 \in Nat /\ far \in Nat /\ far > 0
    BY <1>1
  <1>3. s[done + k] = s[done + k - far]
    <2>1. done + k \in done + 1 .. done + n
      BY <1>2
    <2> QED BY <2>1
  <1>4. CASE k - 1 < far
    <2>1. (k - 1) % far = k - 1
      BY <1>2, <1>4, Remainders
    <2>2. done - far + 1 + (k - 1) = done + k - far
      BY <1>2
    <2> QED BY <2>1, <2>2, <1>2, <1>3
  <1>5. CASE ~ (k - 1 < far)
    <2> DEFINE j == k - far
    <2>1. j \in 1 .. n /\ j < k /\ j - 1 = (k - 1) - far /\ done + j = done + k - far
      BY <1>2, <1>5
    <2>2. (j - 1) % far = (k - 1) % far
      <3>1. k - 1 >= far /\ k - 1 \in Nat /\ far \in Nat /\ far > 0
        BY <1>2, <1>5
      <3>2. ((k - 1) - far) % far = (k - 1) % far
        BY <3>1, Remainders
      <3> QED BY <3>2, <2>1
    <2> HIDE DEF j
    <2>3. Same(j)
      <3>1. j \notin Bad
        <4> HIDE DEF Bad
        <4>1. j \in Nat /\ k \in Nat
          BY <2>1, <1>2
        <4> QED BY <4>1, <2>1, <1>1
      <3> QED BY <3>1, <2>1
    <2> QED BY <2>1, <2>2, <2>3, <1>2, <1>3
  <1> QED BY <1>4, <1>5

\* A literal, or the bytes that a reference repeats, as the payload has them.
LEMMA TokenBytes ==
  ASSUME LzInv, NEW from, Decoding(from), decoderAt \in 1 .. Len(output), NEW flag \in BOOLEAN,
         CellOK(decoderAt, from), from \in Seq(Nat), from[decoderAt] = Len(decoded) + 1,
         from[decoderAt] < from[decoderAt + 1], from[decoderAt + 1] \in Nat,
         flag <=> from[decoderAt + 1] # from[decoderAt] + 1,
         NEW made, made = IF flag
                            THEN Compression!Copy(Compression!DistanceOf(output[decoderAt]),
                                                  Compression!LengthOf(output[decoderAt]))
                            ELSE Append(decoded, output[decoderAt].byte)
  PROVE  /\ made \in Seq(Byte) /\ Len(made) + 1 = from[decoderAt + 1]
         /\ \A i \in 1 .. Len(made) : made[i] = payload[i]
         /\ flag => ~ (Compression!DistanceOf(output[decoderAt]) > Len(decoded))
  <1> DEFINE done == Len(decoded)
             next == from[decoderAt + 1]
             cell == output[decoderAt]
  <1>1. /\ payload \in Seq(Byte) /\ decoded \in Seq(Byte) /\ done \in Nat
        /\ Len(payload) \in Nat /\ \A i \in 1 .. done : decoded[i] = payload[i]
    BY DEF LzInv, LzTypeOK, Decoding
  <1>2. /\ from[decoderAt] = done + 1 /\ next \in Nat /\ done + 1 < next
        /\ done + 1 \in 1 .. Len(payload) /\ next <= Len(payload) + 1
        /\ (next = done + 2 => cell.byte = payload[done + 1])
        /\ (next > done + 2 => Repeats(cell, done + 1, next))
    <2>1. /\ from[decoderAt] \in 1 .. Len(payload)
          /\ next \in from[decoderAt] .. Len(payload) + 1
          /\ from[decoderAt] < next /\ next \in Nat
          /\ next = from[decoderAt] + 1 => cell.byte = payload[from[decoderAt]]
          /\ next > from[decoderAt] + 1 => Repeats(cell, from[decoderAt], next)
      BY DEF CellOK
    <2>2. (done + 1) + 1 = done + 2 /\ from[decoderAt] = done + 1
      BY <1>1
    <2> HIDE DEF next, cell, done
    <2> QED BY <2>1, <2>2, <1>1
  <1>3. CASE flag = FALSE
    <2>1. next = done + 2
      BY <1>1, <1>2, <1>3
    <2>2. made = Append(decoded, cell.byte) /\ cell.byte = payload[done + 1]
      BY <2>1, <1>2, <1>3
    <2>3. payload[done + 1] \in Byte
      BY <1>1, <1>2, ElementOfSeq
    <2> HIDE DEF cell, next
    <2>4. /\ made \in Seq(Byte) /\ Len(made) = done + 1 /\ made[done + 1] = payload[done + 1]
          /\ \A i \in 1 .. done : made[i] = decoded[i]
      <3>1. PICK byte : byte = payload[done + 1]
        OBVIOUS
      <3>2. made = Append(decoded, byte) /\ byte \in Byte
        BY <3>1, <2>2, <2>3
      <3>3. /\ Append(decoded, byte) \in Seq(Byte) /\ Len(Append(decoded, byte)) = done + 1
            /\ Append(decoded, byte)[done + 1] = byte
            /\ \A i \in 1 .. done : Append(decoded, byte)[i] = decoded[i]
        BY <3>2, <1>1, AppendProperties
      <3> QED BY <3>1, <3>2, <3>3
    <2>5. \A i \in 1 .. Len(made) : made[i] = payload[i]
      <3> TAKE i \in 1 .. Len(made)
      <3>1. i \in 1 .. done \/ i = done + 1
        BY <2>4, <1>1
      <3> QED BY <3>1, <2>4, <1>1
    <2>6. Len(made) + 1 = next
      BY <2>1, <2>4, <1>1
    <2> QED BY <2>4, <2>5, <2>6, <1>3
  <1>4. CASE flag = TRUE
    <2> DEFINE far == Compression!DistanceOf(cell)
               n   == Compression!LengthOf(cell)
    <2>1. next > done + 2
      BY <1>1, <1>2, <1>4
    <2>2. n = next - (done + 1) /\ far \in 1 .. (done + 1) - 1
          /\ \A i \in done + 1 .. next - 1 : payload[i] = payload[i - far]
      BY <2>1, <1>2 DEF Repeats
    <2>3. made = Compression!Copy(far, n)
      BY <1>4
    <2> HIDE DEF far, n, cell, next, done
    <2>4. n \in Nat /\ far \in 1 .. done /\ done + n = next - 1 /\ n <= Len(payload) - done
      BY <2>1, <2>2, <1>1, <1>2
    <2>5. Compression!Smaller(n, Len(payload) - done) = n
      <3>1. n \in Nat /\ Len(payload) - done \in Int /\ n <= Len(payload) - done
        BY <2>4, <1>1
      <3> QED BY ONLY <3>1 DEF Compression!Smaller
    <2> DEFINE more == [i \in 1 .. n |-> decoded[done - far + 1 + ((i - 1) % far)]]
    <2>6. made = decoded \o more
      BY <2>3, <2>5 DEF Compression!Copy, done
    <2>7. \A i \in 1 .. n : payload[done + i] = payload[done - far + 1 + ((i - 1) % far)]
      <3>1. \A i \in done + 1 .. done + n : payload[i] = payload[i - far]
        BY <2>2, <2>4
      <3> QED BY <3>1, <2>4, <1>1, RepeatedBytes
    <2>8. ASSUME NEW i \in 1 .. n
          PROVE  more[i] = payload[done + i] /\ payload[done + i] \in Byte
      <3>1. (i - 1) % far \in 0 .. far - 1
        <4>1. i - 1 \in Nat /\ far \in Nat /\ far > 0
          BY <2>4
        <4> QED BY <4>1, Remainders
      <3>2. done - far + 1 + ((i - 1) % far) \in 1 .. done
        <4>1. PICK m : m = (i - 1) % far
          OBVIOUS
        <4>2. m \in 0 .. far - 1 /\ far \in 1 .. done /\ done \in Nat
          BY <4>1, <3>1, <2>4, <1>1
        <4>3. done - far + 1 + m \in 1 .. done
          BY ONLY <4>2
        <4> QED BY <4>1, <4>3
      <3>3. done + i \in 1 .. Len(payload)
        BY <2>4, <1>1
      <3>4. payload[done + i] \in Byte
        BY <3>3, <1>1, ElementOfSeq
      <3> QED BY <3>2, <3>4, <2>7, <1>1
    <2>9. more \in Seq(Byte) /\ Len(more) = n
      <3>1. \A i \in 1 .. n : more[i] \in Byte
        BY <2>8
      <3>2. more \in [1 .. n -> Byte]
        BY <3>1
      <3> HIDE DEF more
      <3>3. more \in Seq(Byte)
        BY <3>2, <2>4
      <3> QED BY <3>2, <3>3, <2>4
    <2> HIDE DEF more
    <2>10. /\ made \in Seq(Byte) /\ Len(made) = done + n
           /\ \A i \in 1 .. done + n :
                made[i] = IF i <= done THEN decoded[i] ELSE more[i - done]
      <3>1. /\ decoded \o more \in Seq(Byte)
            /\ Len(decoded \o more) = Len(decoded) + Len(more)
            /\ \A i \in 1 .. Len(decoded) + Len(more) :
                 (decoded \o more)[i] = IF i <= Len(decoded) THEN decoded[i]
                                         ELSE more[i - Len(decoded)]
        BY <2>9, <1>1, ConcatProperties
      <3> QED BY <3>1, <2>6, <2>9 DEF done
    <2>11. \A i \in 1 .. Len(made) : made[i] = payload[i]
      <3> TAKE i \in 1 .. Len(made)
      <3>1. i \in 1 .. done + n
        BY <2>10
      <3>2. CASE i <= done
        BY <3>1, <3>2, <2>10, <1>1
      <3>3. CASE ~ (i <= done)
        <4>1. i - done \in 1 .. n /\ done + (i - done) = i
          BY <3>1, <3>3, <2>4, <1>1
        <4>2. made[i] = more[i - done]
          BY <3>1, <3>3, <2>10
        <4> QED BY <4>1, <4>2, <2>8
      <3> QED BY <3>2, <3>3
    <2>12. Len(made) + 1 = next /\ ~ (far > done)
      <3>1. /\ Len(made) = done + n /\ done + n = next - 1 /\ far \in 1 .. done
            /\ next \in Nat /\ done \in Nat /\ n \in Nat
        BY <2>4, <2>10, <1>1, <1>2
      <3> QED BY ONLY <3>1
    <2> QED BY <2>10, <2>11, <2>12 DEF far, cell, next, done
  <1> QED BY <1>3, <1>4

\* A literal or a reference is decoded.
LEMMA DecodeTokenStep == LzInv /\ Compression!DecodeToken => LzInv'
  <1> SUFFICES ASSUME LzInv, Compression!DecodeToken PROVE LzInv'
    OBVIOUS
  <1>1. PICK from : /\ Places(from) /\ Decoding(from) /\ decoderAt \in 1 .. Len(output)
                    /\ from[decoderAt] = Len(decoded) + 1
                    /\ CellOK(decoderAt, from) /\ GroupOK(decoderAt, from)
    BY DecodingFacts DEF Compression!DecodeToken
  <1>2. LzTypeOK /\ phase = "decode" /\ group.flags # <<>> /\ ~ (decoderAt > Len(output))
        /\ group.flags \in Seq(BOOLEAN)
    <2>1. LzTypeOK /\ phase = "decode" /\ group.flags # <<>>
      BY DEF LzInv, Compression!DecodeToken
    <2>2. Len(output) \in Nat /\ group.flags \in Seq(BOOLEAN)
      BY <2>1 DEF LzTypeOK
    <2> QED BY <2>1, <2>2, <1>1
  <1>3. /\ Len(from) = Len(output) + 1 /\ Len(output) \in Nat /\ from \in Seq(Nat)
        /\ \A k \in 1 .. Len(from) : from[k] \in Nat
    BY <1>1, <1>2, PlacesFacts
  <1>4. Announced(group.flags, decoderAt, from) /\ decoderAt \in Nat /\ decoderAt > 0
    BY <1>1, <1>3 DEF Decoding
  <1>5. PICK flag, rest : flag = Head(group.flags) /\ rest = Tail(group.flags)
    OBVIOUS
  <1>6. /\ from[decoderAt] < from[decoderAt + 1] /\ flag \in BOOLEAN
        /\ (flag <=> from[decoderAt + 1] # from[decoderAt] + 1)
        /\ rest \in Seq(BOOLEAN) /\ Announced(rest, decoderAt + 1, from)
    BY <1>2, <1>3, <1>4, <1>5, AnnouncedNext
  <1>7. PICK made : made = IF flag
                             THEN Compression!Copy(Compression!DistanceOf(output[decoderAt]),
                                                   Compression!LengthOf(output[decoderAt]))
                             ELSE Append(decoded, output[decoderAt].byte)
    OBVIOUS
  <1>8. from[decoderAt + 1] \in Nat /\ decoderAt + 1 \in 1 .. Len(from)
    BY <1>1, <1>3
  <1>9. /\ made \in Seq(Byte) /\ Len(made) + 1 = from[decoderAt + 1]
        /\ \A i \in 1 .. Len(made) : made[i] = payload[i]
        /\ flag => ~ (Compression!DistanceOf(output[decoderAt]) > Len(decoded))
    BY <1>1, <1>3, <1>6, <1>7, <1>8, TokenBytes
  <1>10. /\ group' = [group EXCEPT !.flags = rest] /\ decoderAt' = decoderAt + 1
         /\ decoded' = made
         /\ UNCHANGED <<format, payload, positions, cursor, output, phase>>
    BY <1>2, <1>5, <1>7, <1>9
       DEF Compression!DecodeToken, Compression!task, Compression!encoder
  <1>11. group' \in [at : Nat, flags : Seq(BOOLEAN)] /\ group'.flags = rest
    BY <1>2, <1>6, <1>10 DEF LzTypeOK
  <1>12. LzTypeOK'
    <2>1. decoderAt' \in Nat
      BY <1>4, <1>10
    <2> QED BY <2>1, <1>2, <1>9, <1>10, <1>11 DEF LzTypeOK
  <1>13. Places(from)'
    BY <1>1, <1>2, <1>10, PlacesStay
  <1>14. Decoding(from)'
    BY <1>1, <1>6, <1>8, <1>9, <1>10, <1>11 DEF Decoding
  <1> QED BY <1>2, <1>10, <1>12, <1>13, <1>14 DEF LzInv

\* The payload is whole.
LEMMA DecodedStep == LzInv /\ Compression!Decoded => LzInv'
  <1> SUFFICES ASSUME LzInv, Compression!Decoded PROVE LzInv'
    OBVIOUS
  <1>1. /\ UNCHANGED <<format, payload, positions, cursor, output, group, decoded, decoderAt>>
        /\ phase = "decode" /\ phase' = "done" /\ Len(decoded) >= Len(payload)
    BY DEF Compression!Decoded, Compression!task, Compression!encoder, Compression!decoder,
           Compression!Whole
  <1>2. PICK from : Places(from) /\ Decoding(from)
    BY <1>1 DEF LzInv
  <1>3. Places(from)' /\ Decoding(from)'
    BY <1>1, <1>2, PlacesStay DEF Decoding
  <1>4. LzTypeOK'
    BY <1>1 DEF LzInv, LzTypeOK
  <1> QED BY <1>1, <1>3, <1>4 DEF LzInv

\* Nothing changes for a part that rests.
LEMMA LzRest == LzInv /\ UNCHANGED Compression!vars => LzInv'
  <1> SUFFICES ASSUME LzInv, UNCHANGED Compression!vars PROVE LzInv'
    OBVIOUS
  <1>1. UNCHANGED <<format, payload, positions, cursor, output, group, decoded, decoderAt, phase>>
    BY DEF Compression!vars, Compression!task, Compression!encoder, Compression!decoder
  <1>2. LzTypeOK'
    BY <1>1 DEF LzInv, LzTypeOK
  <1>3. PICK from : /\ Places(from) /\ (phase = "encode" => Encoding(from))
                    /\ (phase # "encode" => Decoding(from))
    BY DEF LzInv
  <1>4. ASSUME NEW k \in 1 .. Len(output) PROVE CellOK(k, from)' /\ GroupOK(k, from)'
    <2>1. CellOK(k, from) /\ GroupOK(k, from)
      BY <1>3 DEF Places
    <2>2. CellOK(k, from)'
      BY <2>1, <1>1 DEF CellOK, Repeats, Compression!LengthOf, Compression!DistanceOf,
                        Compression!Shortest, Compression!LongBase
    <2>3. GroupOK(k, from)'
      BY <2>1, <1>1 DEF GroupOK
    <2> QED BY <2>2, <2>3
  <1>5. Places(from)'
    BY <1>1, <1>3, <1>4 DEF Places
  <1>6. /\ phase' = "encode" => Encoding(from)'
        /\ phase' # "encode" => Decoding(from)'
    BY <1>1, <1>3 DEF Encoding, Decoding, Compression!NoGroup
  <1>7. phase' = "done" => Len(decoded') >= Len(payload')
    BY <1>1 DEF LzInv
  <1> QED BY <1>2, <1>5, <1>6, <1>7 DEF LzInv

\* Each step of the compression keeps its invariant.
LEMMA LzStep == LzInv /\ [Compression!Next]_(Compression!vars) => LzInv'
  BY OpenGroupStep, EncodeStep, CloseGroupStep, EncodedStep, DecodeFlagsStep,
     DecodeTokenStep, DecodedStep, LzRest
     DEF Compression!Next

\* What the invariant says of the decoder.
LEMMA LzReadsBack == LzInv => Compression!EncodedReadsBack
  <1> SUFFICES ASSUME LzInv PROVE Compression!EncodedReadsBack
    OBVIOUS
  <1>1. /\ payload \in Seq(Byte) /\ decoded \in Seq(Byte) /\ phase # "error"
        /\ Len(payload) \in Nat /\ Len(decoded) \in Nat /\ LzTypeOK
    BY DEF LzInv, LzTypeOK
  <1>2. PICK from : /\ Places(from) /\ (phase = "encode" => Encoding(from))
                    /\ (phase # "encode" => Decoding(from))
    BY DEF LzInv
  <1>3. /\ Len(decoded) <= Len(payload)
        /\ \A i \in 1 .. Len(decoded) : decoded[i] = payload[i]
        /\ phase = "done" => Len(decoded) = Len(payload) /\ decoderAt = Len(output) + 1
    <2>1. CASE phase = "encode"
      <3>1. decoded = <<>> /\ Len(decoded) = 0
        BY <2>1, <1>2 DEF Encoding
      <3> QED BY <3>1, <2>1, <1>1
    <2>2. CASE phase # "encode"
      <3>1. /\ cursor = Len(payload) + 1 /\ decoderAt \in 1 .. Len(from)
            /\ Len(decoded) + 1 = from[decoderAt]
            /\ \A i \in 1 .. Len(decoded) : decoded[i] = payload[i]
        BY <2>2, <1>2 DEF Decoding
      <3>2. /\ Len(from) = Len(output) + 1 /\ Len(output) \in Nat
            /\ from[Len(from)] = cursor
            /\ \A k \in 1 .. Len(output) : from[k] \in 1 .. Len(payload)
        BY <1>1, <1>2, PlacesFacts DEF Places, CellOK
      <3>3. decoderAt \in 1 .. Len(output) \/ decoderAt = Len(output) + 1
        BY <3>1, <3>2
      <3>4. Len(decoded) <= Len(payload)
            /\ (decoderAt # Len(output) + 1 => Len(decoded) < Len(payload))
        BY <3>1, <3>2, <3>3, <1>1
      <3>5. phase = "done" => Len(decoded) >= Len(payload)
        BY DEF LzInv
      <3> QED BY <3>1, <3>4, <3>5, <1>1
    <2> QED BY <2>1, <2>2
  <1>4. decoded = SubSeq(payload, 1, Len(decoded))
    <2>1. Len(decoded) \in 0 .. Len(payload)
      BY <1>1, <1>3
    <2>2. /\ SubSeq(payload, 1, Len(decoded)) \in Seq(Byte)
          /\ Len(SubSeq(payload, 1, Len(decoded))) = Len(decoded)
          /\ \A i \in 1 .. Len(decoded) : SubSeq(payload, 1, Len(decoded))[i] = payload[i]
      BY <2>1, <1>1, FrontFacts
    <2> QED BY <2>2, <1>1, <1>3, SeqEqual
  <1>5. phase = "done" => decoded = payload
    BY <1>1, <1>3, SeqEqual
  <1> QED BY <1>1, <1>3, <1>4, <1>5 DEF Compression!EncodedReadsBack

\* The invariant of the compression while that is the active part.
LEMMA LzInvariance == SuiteSpec => [](active = "compression" => LzInv)
  <1>1. SuiteInit => LzInv
    BY LzInit DEF SuiteInit
  <1>2. (active = "compression" => LzInv) /\ [SuiteNext]_suite
          => (active = "compression" => LzInv)'
    <2>1. [SuiteNext]_suite =>
            active' = active /\ (active = "compression" => [Compression!Next]_(Compression!vars))
      BY DEF SuiteNext, suite, compression, Compression!vars, Compression!task,
             Compression!encoder, Compression!decoder
    <2> QED BY <2>1, LzStep
  <1> QED BY <1>1, <1>2, PTL DEF SuiteSpec

\* What is encoded is decoded to the same bytes, to the last cell, whatever the
\* payload and the widths of the formats (encode_lz10 and decode_lz10 of
\* jwc24/forecast.py, encode_lz11 and decode_lz11 of jwc24/lz11.py).
THEOREM CompressionReadsBack == SuiteSpec => []EncodedReadsBack
  <1>1. (active = "compression" => LzInv) => EncodedReadsBack
    BY LzReadsBack DEF EncodedReadsBack
  <1> QED BY <1>1, LzInvariance, PTL

------------------------------------------------------------------------------
(* What News snapshots are made of, and what is read from them (NewsBundle). *)

\* The News builder joins sequences as the forecast builder does.
LEMMA SameFlatten == \A ss : News!FlattenSeq(ss) = Forecast!FlattenSeq(ss)
  BY DEF News!FlattenSeq, Forecast!FlattenSeq

\* Each of the joined sequences lies behind the ones before it.
LEMMA PartsLie ==
  ASSUME NEW V, NEW ss \in Seq(Seq(V)), NEW i \in 1 .. Len(ss)
  PROVE  Lies(News!FlattenSeq(ss), Len(News!FlattenSeq(SubSeq(ss, 1, i - 1))), ss[i])
  <1> DEFINE Upto(m) == Forecast!FlattenSeq(SubSeq(ss, 1, m))
             p == Len(Upto(i - 1))
             c == ss[i]
             Bad == {m \in i .. Len(ss) : ~ Lies(Upto(m), p, c)}
  <1>0. Len(ss) \in Nat /\ c \in Seq(V) /\ Len(c) \in Nat
    BY LenProperties, ElementOfSeq
  <1>1. ASSUME NEW m \in 1 .. Len(ss)
        PROVE  /\ Upto(m - 1) \in Seq(V) /\ Upto(m) = Upto(m - 1) \o ss[m]
               /\ ss[m] \in Seq(V)
    <2> DEFINE r == SubSeq(ss, 1, m)
    <2>1. m \in 0 .. Len(ss) /\ m - 1 \in 0 .. m /\ m - 1 \in 0 .. Len(ss) /\ m \in 1 .. m
      BY <1>0
    <2>2. r \in Seq(Seq(V)) /\ Len(r) = m /\ r[m] = ss[m] /\ SubSeq(r, 1, m - 1) = SubSeq(ss, 1, m - 1)
      BY <2>1, FrontFacts, FrontOfFront
    <2>3. SubSeq(ss, 1, m - 1) \in Seq(Seq(V))
      BY <2>1, FrontFacts
    <2>4. ss[m] \in Seq(V)
      BY ElementOfSeq
    <2> HIDE DEF r
    <2>5. r # <<>>
      BY <2>2, EmptySeq
    <2>6. Forecast!FlattenSeq(r) = Forecast!FlattenSeq(SubSeq(r, 1, m - 1)) \o r[m]
      BY <2>2, <2>5, FlattenFacts
    <2> QED BY <2>2, <2>3, <2>4, <2>6, FlattenType DEF r
  <1>3. Lies(Upto(i), p, c)
    BY <1>1, LiesRight
  <1>4. Bad = {}
    <2> SUFFICES ASSUME Bad # {} PROVE FALSE
      OBVIOUS
    <2>1. PICK m \in Bad : \A k \in Bad : m <= k
      <3>1. Bad \in SUBSET Nat
        BY <1>0
      <3> HIDE DEF Bad
      <3> QED BY <3>1, LeastNatural
    <2>2. m # i /\ m \in 1 .. Len(ss) /\ m - 1 \in i .. Len(ss)
      BY <1>0, <1>3, <2>1
    <2>3. Lies(Upto(m - 1), p, c)
      BY <2>1, <2>2
    <2>4. Lies(Upto(m), p, c)
      <3> HIDE DEF Upto, c, p
      <3>1. /\ Upto(m - 1) \in Seq(V) /\ Upto(m) = Upto(m - 1) \o ss[m]
            /\ ss[m] \in Seq(V)
        BY <1>1, <2>2
      <3> QED BY <1>0, <2>3, <3>1, LiesLeft
    <2> QED BY <2>1, <2>4
  <1>5. SubSeq(ss, 1, Len(ss)) = ss /\ Len(ss) \in i .. Len(ss)
    <2>1. Len(ss) \in 0 .. Len(ss) /\ Len(ss) \in i .. Len(ss)
      BY <1>0
    <2> QED BY <2>1, FrontOfFront
  <1>6. Lies(Upto(Len(ss)), p, c)
    BY <1>4, <1>5
  <1>7. News!FlattenSeq(ss) = Upto(Len(ss)) /\ Len(News!FlattenSeq(SubSeq(ss, 1, i - 1))) = p
    BY <1>5, SameFlatten
  <1> QED BY <1>6, <1>7

\* An element of one of the sequences is one of the joined sequence.
LEMMA PartsAreIn ==
  ASSUME NEW V, NEW ss \in Seq(Seq(V))
  PROVE  /\ News!FlattenSeq(ss) \in Seq(V)
         /\ \A i \in 1 .. Len(ss) : News!Range(ss[i]) \subseteq News!Range(News!FlattenSeq(ss))
  <1>1. News!FlattenSeq(ss) \in Seq(V)
    BY SameFlatten, FlattenType
  <1>2. ASSUME NEW i \in 1 .. Len(ss), NEW k \in DOMAIN ss[i]
        PROVE  \E n \in DOMAIN News!FlattenSeq(ss) : News!FlattenSeq(ss)[n] = ss[i][k]
    <2>1. ss[i] \in Seq(V)
      BY ElementOfSeq
    <2>2. k \in 1 .. Len(ss[i]) /\ Len(ss[i]) \in Nat
      BY <2>1, LenProperties
    <2>3. PICK at : Lies(News!FlattenSeq(ss), at, ss[i])
      BY PartsLie
    <2>4. /\ at \in Nat /\ at + Len(ss[i]) <= Len(News!FlattenSeq(ss))
          /\ News!FlattenSeq(ss)[at + k] = ss[i][k]
      BY <2>2, <2>3 DEF Lies
    <2>5. at + k \in 1 .. Len(News!FlattenSeq(ss))
      BY <1>1, <2>2, <2>4, LenProperties
    <2>6. DOMAIN News!FlattenSeq(ss) = 1 .. Len(News!FlattenSeq(ss))
      BY <1>1, LenProperties
    <2> QED BY <2>4, <2>5, <2>6
  <1> QED BY <1>1, <1>2 DEF News!Range

\* Joined pairs: the second of each has an even place.
LEMMA PairsAreJoined ==
  ASSUME NEW V, NEW ss \in Seq(Seq(V)), \A i \in 1 .. Len(ss) : Len(ss[i]) = 2
  PROVE  /\ Len(News!FlattenSeq(ss)) = 2 * Len(ss)
         /\ \A i \in 1 .. Len(ss) : News!FlattenSeq(ss)[2 * i] = ss[i][2]
  <1> DEFINE Upto(m) == News!FlattenSeq(SubSeq(ss, 1, m))
             Bad == {m \in 0 .. Len(ss) : Len(Upto(m)) # 2 * m}
  <1>0. Len(ss) \in Nat /\ \A i \in 1 .. Len(ss) : ss[i] \in Seq(V)
    BY LenProperties, ElementOfSeq
  <1>1. Bad = {}
    <2> SUFFICES ASSUME Bad # {} PROVE FALSE
      OBVIOUS
    <2>1. PICK m \in Bad : \A k \in Bad : m <= k
      <3>1. Bad \in SUBSET Nat
        BY <1>0
      <3> HIDE DEF Bad
      <3> QED BY <3>1, LeastNatural
    <2>2. m # 0
      <3>1. SubSeq(ss, 1, 0) = <<>>
        BY SubSeqEmpty
      <3>2. News!FlattenSeq(<<>>) = <<>>
        BY ONLY SameFlatten, FlattenFacts, Zenon
      <3>3. Upto(0) = <<>>
        BY ONLY <3>1, <3>2, Zenon
      <3>4. Len(<<>>) = 0 /\ 2 * 0 = 0
        OBVIOUS
      <3> HIDE DEF Upto
      <3>5. Len(Upto(0)) = 2 * 0
        BY ONLY <3>3, <3>4, Zenon
      <3> QED BY <2>1, <3>5
    <2>3. m \in 1 .. Len(ss) /\ m - 1 \in 0 .. Len(ss) /\ m - 1 \in 0 .. m /\ m \in 0 .. Len(ss)
      BY <1>0, <2>1, <2>2
    <2>4. Len(Upto(m - 1)) = 2 * (m - 1)
      <3>1. m - 1 \notin Bad
        BY <2>1, <2>3
      <3> QED BY <2>3, <3>1
    <2> DEFINE r == SubSeq(ss, 1, m)
    <2>5. r \in Seq(Seq(V)) /\ Len(r) = m /\ r[m] = ss[m] /\ SubSeq(r, 1, m - 1) = SubSeq(ss, 1, m - 1)
      BY <2>3, FrontFacts, FrontOfFront
    <2>6. SubSeq(ss, 1, m - 1) \in Seq(Seq(V))
      BY <2>3, FrontFacts
    <2> HIDE DEF r
    <2>7. r # <<>>
      BY <2>3, <2>5, EmptySeq
    <2>8. Forecast!FlattenSeq(r) = Forecast!FlattenSeq(SubSeq(r, 1, m - 1)) \o r[m]
      BY <2>5, <2>7, FlattenFacts
    <2>9. Upto(m) = Upto(m - 1) \o ss[m]
      BY <2>5, <2>8, SameFlatten DEF r
    <2>10. Upto(m - 1) \in Seq(V) /\ ss[m] \in Seq(V)
      BY <2>6, <2>3, <1>0, PartsAreIn
    <2>11. Len(Upto(m)) = Len(Upto(m - 1)) + Len(ss[m])
      BY <2>9, <2>10, ConcatProperties
    <2>12. Len(Upto(m)) = 2 * m
      <3>1. Len(ss[m]) = 2 /\ m \in Nat
        BY <1>0, <2>3
      <3>2. 2 * (m - 1) + 2 = 2 * m
        BY <3>1
      <3> QED BY ONLY <2>4, <2>11, <3>1, <3>2
    <2> QED BY <2>1, <2>12
  <1>2. \A m \in 0 .. Len(ss) : Len(Upto(m)) = 2 * m
    BY <1>1
  <1>3. SubSeq(ss, 1, Len(ss)) = ss
    <2>1. Len(ss) \in 0 .. Len(ss)
      BY <1>0
    <2> QED BY <2>1, FrontOfFront
  <1>4. Len(News!FlattenSeq(ss)) = 2 * Len(ss)
    <2>1. Len(ss) \in 0 .. Len(ss)
      BY <1>0
    <2> QED BY <2>1, <1>2, <1>3
  <1>5. ASSUME NEW i \in 1 .. Len(ss)
        PROVE  News!FlattenSeq(ss)[2 * i] = ss[i][2]
    <2>1. i - 1 \in 0 .. Len(ss)
      BY <1>0
    <2>2. Lies(News!FlattenSeq(ss), Len(Upto(i - 1)), ss[i])
      BY PartsLie
    <2>3. Len(Upto(i - 1)) = 2 * (i - 1)
      BY <1>2, <2>1
    <2>4. Len(ss[i]) = 2 /\ 2 \in 1 .. 2
      OBVIOUS
    <2>5. News!FlattenSeq(ss)[2 * (i - 1) + 2] = ss[i][2]
      BY <2>2, <2>3, <2>4 DEF Lies
    <2>6. 2 * (i - 1) + 2 = 2 * i
      BY <1>0
    <2> QED BY <2>5, <2>6
  <1> QED BY <1>4, <1>5

\* The cells behind the tables of a snapshot.
NewsCells == Character \cup {News!End} \cup Image \cup (Nat \X ArticleId)

\* What the parts of a document are.
LEMMA SnapshotFacts ==
  ASSUME NEW d \in NewsDocument
  PROVE  /\ d.updated \in Nat
         /\ d.sources \in Seq(Seq(Character)) /\ DOMAIN d.sources = 1 .. Len(d.sources)
         /\ d.images \in Seq(Image) /\ DOMAIN d.images = 1 .. Len(d.images)
         /\ d.articles \in Seq(NewsArticles) /\ DOMAIN d.articles = 1 .. Len(d.articles)
         /\ d.topics \in Seq(NewsTopics) /\ DOMAIN d.topics = 1 .. Len(d.topics)
         /\ Len(d.sources) \in Nat /\ Len(d.images) \in Nat
         /\ Len(d.articles) \in Nat /\ Len(d.topics) \in Nat
  <1>1. /\ d.updated \in Nat /\ d.sources \in Seq(Seq(Character)) /\ d.images \in Seq(Image)
        /\ d.articles \in Seq(NewsArticles) /\ d.topics \in Seq(NewsTopics)
    BY NewsAssumption
  <1>2. \A V : \A s \in Seq(V) : Len(s) \in Nat /\ DOMAIN s = 1 .. Len(s)
    BY LenProperties
  <1>3. /\ Len(d.sources) \in Nat /\ DOMAIN d.sources = 1 .. Len(d.sources)
        /\ Len(d.images) \in Nat /\ DOMAIN d.images = 1 .. Len(d.images)
    BY ONLY <1>1, <1>2, Zenon
  <1>4. /\ Len(d.articles) \in Nat /\ DOMAIN d.articles = 1 .. Len(d.articles)
        /\ Len(d.topics) \in Nat /\ DOMAIN d.topics = 1 .. Len(d.topics)
    BY ONLY <1>1, <1>2, Zenon
  <1> QED BY <1>1, <1>3, <1>4

\* A text that is stored, and one that is absent or empty.
LEMMA NewsText ==
  /\ \A t \in Seq(Character) \cup {None} : News!Chars(t) \in Seq(NewsCells)
  /\ \A t \in Seq(Character) : IF t = <<>> THEN News!Chars(t) = <<>>
                               ELSE News!Chars(t) # <<>> /\ Lies(News!Chars(t), 0, t)
  <1>1. ASSUME NEW t \in Seq(Character), t # <<>>
        PROVE  /\ News!Chars(t) \in Seq(NewsCells) /\ News!Chars(t) # <<>>
               /\ Lies(News!Chars(t), 0, t)
    <2>1. t # None
      BY CatalogAssumption
    <2>2. News!Chars(t) = Append(t, News!End)
      BY <1>1, <2>1 DEF News!Chars
    <2>3. t \in Seq(NewsCells) /\ News!End \in NewsCells
      <3>1. Character \subseteq NewsCells /\ News!End \in NewsCells
        BY DEF NewsCells
      <3> QED BY <3>1, SeqMonotonic
    <2> DEFINE c == Append(t, News!End)
    <2>4. /\ c \in Seq(NewsCells) /\ Len(c) = Len(t) + 1 /\ Len(t) \in Nat
          /\ \A k \in 1 .. Len(t) : c[k] = t[k]
      BY <2>3, AppendProperties, LenProperties
    <2> HIDE DEF c
    <2>5. Lies(c, 0, t)
      <3>1. \A k \in 1 .. Len(t) : 0 + k = k
        BY <2>4
      <3> QED BY <2>4, <3>1 DEF Lies
    <2>6. c # <<>>
      BY <2>4, EmptySeq
    <2> QED BY <2>2, <2>4, <2>5, <2>6 DEF c
  <1>2. \A t \in {None, <<>>} : News!Chars(t) = <<>>
    BY DEF News!Chars
  <1>3. <<>> \in Seq(NewsCells)
    BY EmptySeq
  <1> QED BY <1>1, <1>2, <1>3

\* Four sequences in one.
LEMMA FourLie ==
  ASSUME NEW V, NEW s1 \in Seq(V), NEW s2 \in Seq(V), NEW s3 \in Seq(V), NEW s4 \in Seq(V)
  PROVE  LET all == s1 \o s2 \o s3 \o s4 IN
         /\ all \in Seq(V) /\ Len(all) = Len(s1) + Len(s2) + Len(s3) + Len(s4)
         /\ Lies(all, Len(s1), s2) /\ Lies(all, Len(s1) + Len(s2), s3)
         /\ Lies(all, Len(s1) + Len(s2) + Len(s3), s4)
  <1> DEFINE f2 == s1 \o s2
             f3 == f2 \o s3
             f4 == f3 \o s4
  <1>1. f2 \in Seq(V) /\ Len(f2) = Len(s1) + Len(s2) /\ Lies(f2, Len(s1), s2)
    BY JoinFacts
  <1> HIDE DEF f2
  <1>2. /\ f3 \in Seq(V) /\ Len(f3) = Len(f2) + Len(s3) /\ Lies(f3, Len(f2), s3)
        /\ Lies(f3, Len(s1), s2)
    BY <1>1, JoinFacts
  <1> HIDE DEF f3
  <1>3. /\ f4 \in Seq(V) /\ Len(f4) = Len(f3) + Len(s4) /\ Lies(f4, Len(f3), s4)
        /\ Lies(f4, Len(f2), s3) /\ Lies(f4, Len(s1), s2)
    BY <1>2, JoinFacts
  <1>4. f4 = s1 \o s2 \o s3 \o s4
    BY DEF f2, f3
  <1> HIDE DEF f4
  <1> QED BY <1>1, <1>2, <1>3, <1>4

\* The pieces behind the tables, in the order of the builder.
LEMMA BlobsFacts ==
  ASSUME NEW d \in NewsDocument
  PROVE  LET B == News!Blobs(d)
             s == Len(d.sources)
             m == Len(d.images)
             n == Len(d.articles)
             t == Len(d.topics)
         IN  /\ B \in Seq(Seq(NewsCells)) /\ Len(B) = s + m + n + 2 * t
             /\ \A i \in 1 .. m : B[s + i] = <<d.images[i]>>
             /\ \A i \in 1 .. n : B[s + m + i] = News!Chars(d.articles[i].title)
             /\ \A i \in 1 .. t : B[s + m + n + 2 * i] = d.topics[i].links
  <1> DEFINE B  == News!Blobs(d)
             s  == Len(d.sources)
             m  == Len(d.images)
             n  == Len(d.articles)
             t  == Len(d.topics)
             b1 == [i \in DOMAIN d.sources |-> News!Chars(d.sources[i])]
             b2 == [i \in DOMAIN d.images |-> <<d.images[i]>>]
             b3 == [i \in DOMAIN d.articles |-> News!Chars(d.articles[i].title)]
             pairs == [i \in DOMAIN d.topics |->
                         <<News!Chars(d.topics[i].name), d.topics[i].links>>]
             b4 == News!FlattenSeq(pairs)
             X  == Seq(NewsCells)
  <1>1. /\ s \in Nat /\ m \in Nat /\ n \in Nat /\ t \in Nat
        /\ DOMAIN d.sources = 1 .. s /\ DOMAIN d.images = 1 .. m
        /\ DOMAIN d.articles = 1 .. n /\ DOMAIN d.topics = 1 .. t
    BY SnapshotFacts
  <1>2. /\ \A i \in 1 .. s : d.sources[i] \in Seq(Character)
        /\ \A i \in 1 .. m : d.images[i] \in Image
        /\ \A i \in 1 .. n : d.articles[i] \in NewsArticles
        /\ \A i \in 1 .. t : d.topics[i] \in NewsTopics
    <2>1. \A V : \A q \in Seq(V) : \A i \in 1 .. Len(q) : q[i] \in V
      BY ElementOfSeq
    <2>2. /\ d.sources \in Seq(Seq(Character)) /\ d.images \in Seq(Image)
          /\ d.articles \in Seq(NewsArticles) /\ d.topics \in Seq(NewsTopics)
      BY SnapshotFacts
    <2> QED BY ONLY <2>1, <2>2, Zenon DEF s, m, n, t
  <1>3. B = b1 \o b2 \o b3 \o b4
    BY DEF News!Blobs
  <1> HIDE DEF s, m, n, t
  <1>4. /\ b1 \in Seq(X) /\ Len(b1) = s
    <2>1. \A i \in 1 .. s : News!Chars(d.sources[i]) \in X
      BY <1>2, NewsText
    <2> HIDE DEF X
    <2> QED BY ONLY <1>1, <2>1 DEF b1
  <1>5. /\ b2 \in Seq(X) /\ Len(b2) = m /\ \A i \in 1 .. m : b2[i] = <<d.images[i]>>
    <2>1. \A i \in 1 .. m : <<d.images[i]>> \in X
      <3>1. \A i \in 1 .. m : d.images[i] \in NewsCells
        BY <1>2 DEF NewsCells
      <3> QED BY <3>1
    <2> HIDE DEF X
    <2>2. b2 = [i \in 1 .. m |-> <<d.images[i]>>]
      BY <1>1
    <2> HIDE DEF b2
    <2>3. \A i \in 1 .. m : b2[i] = <<d.images[i]>>
      BY ONLY <2>2, Zenon
    <2>4. \A i \in 1 .. m : b2[i] \in X
      BY ONLY <2>1, <2>3, Zenon
    <2>5. b2 = [i \in 1 .. m |-> b2[i]]
      BY ONLY <2>2, Zenon
    <2>6. b2 \in Seq(X) /\ Len(b2) = m
      BY ONLY <1>1, <2>4, <2>5
    <2> QED BY <2>3, <2>6
  <1>6. /\ b3 \in Seq(X) /\ Len(b3) = n
        /\ \A i \in 1 .. n : b3[i] = News!Chars(d.articles[i].title)
    <2>1. \A i \in 1 .. n : News!Chars(d.articles[i].title) \in X
      <3>1. \A i \in 1 .. n : d.articles[i].title \in Seq(Character)
        BY <1>2 DEF NewsArticles
      <3> QED BY <3>1, NewsText
    <2> HIDE DEF X
    <2> QED BY ONLY <1>1, <2>1 DEF b3
  <1>7. /\ pairs \in Seq(Seq(X)) /\ Len(pairs) = t
        /\ \A i \in 1 .. t : Len(pairs[i]) = 2 /\ pairs[i][2] = d.topics[i].links
    <2>1. \A i \in 1 .. t : News!Chars(d.topics[i].name) \in X /\ d.topics[i].links \in X
      <3> TAKE i \in 1 .. t
      <3>1. /\ d.topics[i].name \in Seq(Character) \cup {None}
            /\ d.topics[i].links \in Seq(Nat \X ArticleId)
        BY <1>2 DEF NewsTopics
      <3>2. Nat \X ArticleId \subseteq NewsCells
        BY DEF NewsCells
      <3> QED BY <3>1, <3>2, NewsText, SeqMonotonic
    <2> HIDE DEF X
    <2>2. \A i \in 1 .. t : <<News!Chars(d.topics[i].name), d.topics[i].links>> \in Seq(X)
      BY <2>1
    <2> QED BY ONLY <1>1, <2>2 DEF pairs
  <1> HIDE DEF b1, b2, b3, pairs, X
  <1>8. b4 \in Seq(X) /\ Len(b4) = 2 * t /\ \A i \in 1 .. t : b4[2 * i] = d.topics[i].links
    BY <1>7, PartsAreIn, PairsAreJoined
  <1> HIDE DEF b4, B
  <1>9. /\ B \in Seq(X) /\ Len(B) = s + m + n + 2 * t
        /\ Lies(B, s, b2) /\ Lies(B, s + m, b3) /\ Lies(B, s + m + n, b4)
    <2> DEFINE all == b1 \o b2 \o b3 \o b4
    <2>1. /\ all \in Seq(X) /\ Len(all) = Len(b1) + Len(b2) + Len(b3) + Len(b4)
          /\ Lies(all, Len(b1), b2) /\ Lies(all, Len(b1) + Len(b2), b3)
          /\ Lies(all, Len(b1) + Len(b2) + Len(b3), b4)
      BY <1>4, <1>5, <1>6, <1>8, FourLie
    <2> HIDE DEF all
    <2>2. B = all
      BY <1>3 DEF all
    <2> QED BY ONLY <1>4, <1>5, <1>6, <1>8, <2>1, <2>2
  <1>10. \A i \in 1 .. m : B[s + i] = <<d.images[i]>>
    BY <1>5, <1>9 DEF Lies
  <1>11. \A i \in 1 .. n : B[s + m + i] = News!Chars(d.articles[i].title)
    BY <1>6, <1>9 DEF Lies
  <1>12. \A i \in 1 .. t : B[s + m + n + 2 * i] = d.topics[i].links
    <2> TAKE i \in 1 .. t
    <2>1. 2 * i \in 1 .. 2 * t
      BY <1>1
    <2>2. B[s + m + n + 2 * i] = b4[2 * i]
      BY <1>8, <1>9, <2>1 DEF Lies
    <2> QED BY <1>8, <2>2
  <1> QED BY <1>9, <1>10, <1>11, <1>12 DEF B, s, m, n, t, X

\* The parts of a snapshot, as the encoder lays them out.
FirstCell(d) ==
  LET sources  == Len(d.sources)
      images   == Len(d.images)
      articles == Len(d.articles)
      topics   == Len(d.topics)
      Table(count, at) == [count |-> count, at |-> at]
  IN [updated |-> d.updated, locale |-> d.locale,
      topics |-> Table(topics, 1), articles |-> Table(articles, 1 + topics),
      sources |-> Table(sources, 1 + topics + articles),
      images |-> Table(images, 1 + topics + articles + sources)]

TopicTable(d) ==
  [i \in 1 .. Len(d.topics) |->
     LET n == Len(d.sources) + Len(d.images) + Len(d.articles) + 2 * i IN
     [name |-> News!BlobAt(d, n - 1), links |-> News!Sized(d, n, Len(d.topics[i].links))]]

ArticleTable(d) ==
  [i \in 1 .. Len(d.articles) |->
     [d.articles[i] EXCEPT
        !.title = News!Sized(d, Len(d.sources) + Len(d.images) + i, Len(d.articles[i].title))]]

SourceTable(d) == [i \in 1 .. Len(d.sources) |-> News!Sized(d, i, Len(d.sources[i]))]

ImageTable(d) == [i \in 1 .. Len(d.images) |-> News!Sized(d, Len(d.sources) + i, 1)]

\* They are what the encoder writes.
LEMMA EncodedParts ==
  \A d : News!Encoded(d) =
           <<FirstCell(d)>> \o TopicTable(d) \o ArticleTable(d) \o SourceTable(d)
           \o ImageTable(d) \o News!FlattenSeq(News!Blobs(d))
  BY DEF News!Encoded, FirstCell, TopicTable, ArticleTable, SourceTable, ImageTable

\* A function of the first numbers is a sequence.
LEMMA NumberedIsSequence ==
  ASSUME NEW n \in Nat, NEW f, f = [i \in 1 .. n |-> f[i]]
  PROVE  Len(f) = n /\ \E W : f \in Seq(W)
  <1> DEFINE W == {f[i] : i \in 1 .. n}
  <1>1. f \in [1 .. n -> W]
    OBVIOUS
  <1> HIDE DEF W
  <1>2. f \in Seq(W) /\ Len(f) = n
    BY <1>1
  <1> QED BY <1>2

\* The parts lie in the snapshot behind each other.
LEMMA SnapshotParts ==
  ASSUME NEW d \in NewsDocument
  PROVE  LET cells == News!Encoded(d)
             t == Len(d.topics)
             n == Len(d.articles)
             s == Len(d.sources)
         IN  /\ Len(cells) \in Nat /\ cells[1] = FirstCell(d)
             /\ Lies(cells, 1, TopicTable(d)) /\ Lies(cells, 1 + t, ArticleTable(d))
             /\ Lies(cells, 1 + t + n + s, ImageTable(d))
             /\ Lies(cells, News!DataAt(d), News!FlattenSeq(News!Blobs(d)))
             /\ Len(TopicTable(d)) = t /\ Len(ArticleTable(d)) = n
             /\ Len(ImageTable(d)) = Len(d.images)
             /\ \E W : TopicTable(d) \in Seq(W)
             /\ \E W : ArticleTable(d) \in Seq(W)
             /\ \E W : ImageTable(d) \in Seq(W)
  <1> DEFINE cells == News!Encoded(d)
             t  == Len(d.topics)
             n  == Len(d.articles)
             s  == Len(d.sources)
             m  == Len(d.images)
             s1 == <<FirstCell(d)>>
             s2 == TopicTable(d)
             s3 == ArticleTable(d)
             s4 == SourceTable(d)
             s5 == ImageTable(d)
             s6 == News!FlattenSeq(News!Blobs(d))
  <1>1. t \in Nat /\ n \in Nat /\ s \in Nat /\ m \in Nat
    BY SnapshotFacts
  <1>2. /\ Len(s2) = t /\ Len(s3) = n /\ Len(s4) = s /\ Len(s5) = m
        /\ (\E W : s2 \in Seq(W)) /\ (\E W : s3 \in Seq(W))
        /\ (\E W : s4 \in Seq(W)) /\ (\E W : s5 \in Seq(W))
    <2>1. s2 = [i \in 1 .. t |-> s2[i]]
      BY DEF TopicTable
    <2>2. s3 = [i \in 1 .. n |-> s3[i]]
      BY DEF ArticleTable
    <2>3. s4 = [i \in 1 .. s |-> s4[i]]
      BY DEF SourceTable
    <2>4. s5 = [i \in 1 .. m |-> s5[i]]
      BY DEF ImageTable
    <2> HIDE DEF s2, s3, s4, s5
    <2>5. Len(s2) = t /\ \E W : s2 \in Seq(W)
      BY ONLY <1>1, <2>1, NumberedIsSequence
    <2>6. Len(s3) = n /\ \E W : s3 \in Seq(W)
      BY ONLY <1>1, <2>2, NumberedIsSequence
    <2>7. Len(s4) = s /\ \E W : s4 \in Seq(W)
      BY ONLY <1>1, <2>3, NumberedIsSequence
    <2>8. Len(s5) = m /\ \E W : s5 \in Seq(W)
      BY ONLY <1>1, <2>4, NumberedIsSequence
    <2> QED BY <2>5, <2>6, <2>7, <2>8
  <1>3. PICK V2 : s2 \in Seq(V2)
    BY <1>2
  <1>4. PICK V3 : s3 \in Seq(V3)
    BY <1>2
  <1>5. PICK V4 : s4 \in Seq(V4)
    BY <1>2
  <1>6. PICK V5 : s5 \in Seq(V5)
    BY <1>2
  <1>7. s6 \in Seq(NewsCells)
    <2>1. News!Blobs(d) \in Seq(Seq(NewsCells))
      BY BlobsFacts
    <2> QED BY <2>1, PartsAreIn
  <1>8. PICK V6 : s6 \in Seq(V6)
    BY <1>7
  <1>9. s1 \in Seq({FirstCell(d)}) /\ Len(s1) = 1 /\ s1[1] = FirstCell(d)
    OBVIOUS
  <1>10. cells = s1 \o s2 \o s3 \o s4 \o s5 \o s6
    BY EncodedParts
  <1>d. News!DataAt(d) = 1 + t + n + s + m
    BY DEF News!DataAt
  <1> HIDE DEF cells, s1, s2, s3, s4, s5, s6, t, n, s, m
  <1> DEFINE V == {FirstCell(d)} \cup V2 \cup V3 \cup V4 \cup V5 \cup V6
  <1>11. /\ s1 \in Seq(V) /\ s2 \in Seq(V) /\ s3 \in Seq(V) /\ s4 \in Seq(V)
         /\ s5 \in Seq(V) /\ s6 \in Seq(V)
    <2>1. /\ {FirstCell(d)} \subseteq V /\ V2 \subseteq V /\ V3 \subseteq V
          /\ V4 \subseteq V /\ V5 \subseteq V /\ V6 \subseteq V
      OBVIOUS
    <2> HIDE DEF V
    <2>2. s1 \in Seq(V) /\ s2 \in Seq(V)
      BY <1>9, <1>3, <2>1, SeqMonotonic
    <2>3. s3 \in Seq(V) /\ s4 \in Seq(V)
      BY <1>4, <1>5, <2>1, SeqMonotonic
    <2>4. s5 \in Seq(V) /\ s6 \in Seq(V)
      BY <1>6, <1>8, <2>1, SeqMonotonic
    <2> QED BY <2>2, <2>3, <2>4
  <1> HIDE DEF V
  <1>12. /\ Len(cells) \in Nat
         /\ Lies(cells, 0, s1) /\ Lies(cells, Len(s1), s2)
         /\ Lies(cells, Len(s1) + Len(s2), s3)
         /\ Lies(cells, Len(s1) + Len(s2) + Len(s3) + Len(s4), s5)
         /\ Lies(cells, Len(s1) + Len(s2) + Len(s3) + Len(s4) + Len(s5), s6)
    <2> DEFINE e == <<>>
               all == s1 \o s2 \o s3 \o s4 \o s5 \o s6 \o e \o e
    <2>1. e \in Seq(V)
      BY EmptySeq
    <2> HIDE DEF e
    <2>2. Sequences(V, s1, s2, s3, s4, s5, s6, e, e)
      BY <1>11, <2>1 DEF Sequences
    <2>3. InTurn(s1, s2, s3, s4, s5, s6, e, e)
      BY ONLY <2>2, EightLie
    <2>4. /\ Len(all) \in Nat
          /\ Lies(all, 0, s1) /\ Lies(all, Len(s1), s2)
          /\ Lies(all, Len(s1) + Len(s2), s3)
          /\ Lies(all, Len(s1) + Len(s2) + Len(s3) + Len(s4), s5)
          /\ Lies(all, Len(s1) + Len(s2) + Len(s3) + Len(s4) + Len(s5), s6)
      BY ONLY <2>3 DEF InTurn
    <2>5. s1 \o s2 \o s3 \o s4 \o s5 \o s6 \in Seq(V)
      BY ONLY <1>11, ConcatProperties
    <2>6. all = cells
      <3> DEFINE six == s1 \o s2 \o s3 \o s4 \o s5 \o s6
      <3>1. six \in Seq(V)
        BY <2>5
      <3> HIDE DEF six
      <3>2. six \o e = six
        BY <3>1, ConcatEmptySeq DEF e
      <3> QED BY <1>10, <3>2 DEF six
    <2> QED BY ONLY <2>4, <2>6
  <1>13. cells[1] = FirstCell(d)
    <2>1. cells[0 + 1] = s1[1]
      BY <1>9, <1>12 DEF Lies
    <2> QED BY <1>9, <2>1
  <1>14. /\ Lies(cells, 1, s2) /\ Lies(cells, 1 + t, s3) /\ Lies(cells, 1 + t + n + s, s5)
         /\ Lies(cells, 1 + t + n + s + m, s6)
    BY ONLY <1>2, <1>9, <1>12
  <1> QED BY ONLY <1>2, <1>12, <1>13, <1>14, <1>d
          DEF cells, t, n, s, m, s2, s3, s5, s6

\* Each piece lies where the tables say.
LEMMA BlobLies ==
  ASSUME NEW d \in NewsDocument, NEW n \in 1 .. Len(News!Blobs(d)),
         News!Blobs(d)[n] # <<>>
  PROVE  Lies(News!Encoded(d), News!BlobAt(d, n), News!Blobs(d)[n])
  <1> DEFINE B   == News!Blobs(d)
             all == News!FlattenSeq(B)
             p   == Len(News!FlattenSeq(SubSeq(B, 1, n - 1)))
  <1>1. B \in Seq(Seq(NewsCells)) /\ all \in Seq(NewsCells)
    <2>1. B \in Seq(Seq(NewsCells))
      BY BlobsFacts
    <2> QED BY <2>1, PartsAreIn
  <1>2. Lies(News!Encoded(d), News!DataAt(d), all) /\ Len(News!Encoded(d)) \in Nat
    BY SnapshotParts
  <1>3. News!BlobAt(d, n) = News!DataAt(d) + p
    BY DEF News!BlobAt
  <1>4. n \in 1 .. Len(B)
    OBVIOUS
  <1> HIDE DEF B
  <1>5. Lies(all, p, B[n])
    BY <1>1, <1>4, PartsLie
  <1>6. B[n] \in Seq(NewsCells) /\ Len(B[n]) \in Nat /\ Len(all) \in Nat
    BY <1>1, <1>4, ElementOfSeq, LenProperties
  <1> HIDE DEF all, p
  <1>7. Lies(News!Encoded(d), News!DataAt(d) + p, B[n])
    BY <1>2, <1>5, <1>6, LiesInside
  <1> QED BY <1>3, <1>7 DEF B

\* What begins a piece is read from where the tables say.
LEMMA PieceIsRead ==
  ASSUME NEW d \in NewsDocument, NEW n \in 1 .. Len(News!Blobs(d)), NEW V, NEW x \in Seq(V),
         IF News!Blobs(d)[n] = <<>> THEN x = <<>> ELSE Lies(News!Blobs(d)[n], 0, x)
  PROVE  News!Data(News!Encoded(d), News!Sized(d, n, Len(x))) = x
  <1> DEFINE cells == News!Encoded(d)
             at    == News!BlobAt(d, n)
  <1>1. News!Data(cells, News!Sized(d, n, Len(x))) = SubSeq(cells, at + 1, at + Len(x))
    BY DEF News!Data, News!Sized
  <1>2. CASE News!Blobs(d)[n] = <<>>
    <2>1. at = 0
      BY <1>2 DEF News!BlobAt
    <2>2. x = <<>> /\ Len(x) = 0
      BY <1>2
    <2>3. SubSeq(cells, 0 + 1, 0 + 0) = <<>>
      BY SubSeqEmpty
    <2> HIDE DEF at, cells
    <2> QED BY ONLY <1>1, <2>1, <2>2, <2>3 DEF cells
  <1>3. CASE News!Blobs(d)[n] # <<>>
    <2> DEFINE b == News!Blobs(d)[n]
    <2>1. b \in Seq(NewsCells)
      <3> DEFINE all == News!Blobs(d)
      <3>1. all \in Seq(Seq(NewsCells)) /\ n \in 1 .. Len(all)
        BY BlobsFacts
      <3> HIDE DEF all
      <3>2. all[n] \in Seq(NewsCells)
        BY <3>1, ElementOfSeq
      <3> QED BY <3>2 DEF all
    <2>2. Lies(cells, at, b)
      BY <1>3, BlobLies
    <2>3. Lies(b, 0, x)
      BY <1>3
    <2>4. Len(cells) \in Nat
      BY SnapshotParts
    <2> HIDE DEF cells, at, b
    <2>5. Len(b) \in Nat /\ Len(x) \in Nat
      BY <2>1, LenProperties
    <2>6. Lies(cells, at + 0, x)
      BY <2>2, <2>3, <2>4, <2>5, LiesInside
    <2>7. at + 0 = at
      BY <2>2 DEF Lies
    <2>8. SubSeq(cells, at + 1, at + Len(x)) = x
      BY <2>6, <2>7, LiesRead
    <2> QED BY <1>1, <2>8 DEF cells, at
  <1> QED BY <1>2, <1>3

\* The tables are read back.
LEMMA TablesAreRead ==
  ASSUME NEW d \in NewsDocument
  PROVE  LET cells == News!Encoded(d) IN
         /\ News!Header(cells) = FirstCell(d)
         /\ News!Topics(cells) = TopicTable(d)
         /\ News!Articles(cells) = ArticleTable(d)
         /\ News!Entries(cells, News!Header(cells).images) = ImageTable(d)
  <1> DEFINE cells == News!Encoded(d)
             h  == FirstCell(d)
             t  == Len(d.topics)
             n  == Len(d.articles)
             s  == Len(d.sources)
             m  == Len(d.images)
  <1>1. /\ Len(cells) \in Nat /\ cells[1] = h
        /\ Lies(cells, 1, TopicTable(d)) /\ Lies(cells, 1 + t, ArticleTable(d))
        /\ Lies(cells, 1 + t + n + s, ImageTable(d))
        /\ Len(TopicTable(d)) = t /\ Len(ArticleTable(d)) = n
        /\ Len(ImageTable(d)) = Len(d.images)
    BY SnapshotParts
  <1>2. PICK V2 : TopicTable(d) \in Seq(V2)
    BY SnapshotParts
  <1>3. PICK V3 : ArticleTable(d) \in Seq(V3)
    BY SnapshotParts
  <1>4. PICK V5 : ImageTable(d) \in Seq(V5)
    BY SnapshotParts
  <1>5. /\ h.topics.count = t /\ h.topics.at = 1
        /\ h.articles.count = n /\ h.articles.at = 1 + t
        /\ h.images.count = m /\ h.images.at = 1 + t + n + s
    BY DEF FirstCell
  <1>6. News!Header(cells) = h
    BY <1>1 DEF News!Header
  <1> HIDE DEF cells, h, t, n, s, m
  <1>7. SubSeq(cells, 1 + 1, 1 + t) = TopicTable(d)
    BY <1>1, <1>2, LiesRead
  <1>8. SubSeq(cells, (1 + t) + 1, (1 + t) + n) = ArticleTable(d)
    BY <1>1, <1>3, LiesRead
  <1>9. SubSeq(cells, (1 + t + n + s) + 1, (1 + t + n + s) + m) = ImageTable(d)
    BY <1>1, <1>4, LiesRead DEF m
  <1>10. News!Topics(cells) = TopicTable(d)
    BY <1>5, <1>6, <1>7 DEF News!Topics, News!Entries
  <1>11. News!Articles(cells) = ArticleTable(d)
    BY <1>5, <1>6, <1>8 DEF News!Articles, News!Entries
  <1>12. News!Entries(cells, h.images) = ImageTable(d)
    BY <1>5, <1>9 DEF News!Entries
  <1> QED BY <1>6, <1>10, <1>11, <1>12 DEF cells, h

\* What an editor gave is found in the snapshot.
LEMMA SnapshotIsRead ==
  ASSUME NEW d \in NewsDocument
  PROVE  LET cells    == News!Encoded(d)
             articles == News!Articles(cells)
         IN
         /\ News!Header(cells).updated = d.updated
         /\ News!Header(cells).images.count = Len(d.images)
         /\ DOMAIN articles = 1 .. Len(d.articles) /\ Len(articles) = Len(d.articles)
         /\ \A i \in 1 .. Len(d.articles) :
              /\ articles[i].id = d.articles[i].id
              /\ articles[i].pictureTime = d.articles[i].pictureTime
              /\ articles[i].picture = d.articles[i].picture
              /\ News!Data(cells, articles[i].title) = d.articles[i].title
         /\ \A i \in 1 .. Len(d.images) :
              News!Data(cells, News!Entries(cells, News!Header(cells).images)[i])
                = <<d.images[i]>>
         /\ \A i \in 1 .. Len(d.topics) :
              News!Range(d.topics[i].links) \subseteq News!Range(News!LinksOf(cells))
  <1> DEFINE cells    == News!Encoded(d)
             articles == News!Articles(cells)
             images   == News!Entries(cells, News!Header(cells).images)
             B  == News!Blobs(d)
             t  == Len(d.topics)
             n  == Len(d.articles)
             s  == Len(d.sources)
             m  == Len(d.images)
  <1>1. /\ News!Header(cells) = FirstCell(d) /\ News!Topics(cells) = TopicTable(d)
        /\ articles = ArticleTable(d) /\ images = ImageTable(d)
    BY TablesAreRead
  <1>2. t \in Nat /\ n \in Nat /\ s \in Nat /\ m \in Nat
    BY SnapshotFacts
  <1>3. /\ Len(B) = s + m + n + 2 * t
        /\ \A i \in 1 .. m : B[s + i] = <<d.images[i]>>
        /\ \A i \in 1 .. n : B[s + m + i] = News!Chars(d.articles[i].title)
        /\ \A i \in 1 .. t : B[s + m + n + 2 * i] = d.topics[i].links
    BY BlobsFacts
  <1>4. News!Header(cells).updated = d.updated /\ News!Header(cells).images.count = m
    BY <1>1 DEF FirstCell
  <1>5. /\ \A i \in 1 .. n : d.articles[i] \in NewsArticles
        /\ \A i \in 1 .. m : d.images[i] \in Image
        /\ \A i \in 1 .. t : d.topics[i] \in NewsTopics
    <2>1. \A V : \A q \in Seq(V) : \A i \in 1 .. Len(q) : q[i] \in V
      BY ElementOfSeq
    <2>2. /\ d.images \in Seq(Image) /\ d.articles \in Seq(NewsArticles)
          /\ d.topics \in Seq(NewsTopics)
      BY SnapshotFacts
    <2> QED BY ONLY <2>1, <2>2, Zenon
  <1>6. DOMAIN articles = 1 .. n /\ Len(articles) = n
    <2>1. DOMAIN ArticleTable(d) = 1 .. n
      BY DEF ArticleTable
    <2>2. Len(ArticleTable(d)) = n
      BY SnapshotParts
    <2> QED BY <1>1, <2>1, <2>2
  <1>7. ASSUME NEW i \in 1 .. n
        PROVE  /\ articles[i].id = d.articles[i].id
               /\ articles[i].pictureTime = d.articles[i].pictureTime
               /\ articles[i].picture = d.articles[i].picture
               /\ News!Data(cells, articles[i].title) = d.articles[i].title
    <2> DEFINE a == d.articles[i]
               z == News!Sized(d, s + m + i, Len(a.title))
    <2>1. ArticleTable(d)[i] = [a EXCEPT !.title = z]
      BY DEF ArticleTable
    <2>2. a \in NewsArticles
      BY <1>5
    <2>3. News!Data(cells, z) = a.title
      <3>1. s + m + i \in 1 .. Len(B)
        <4> HIDE DEF s, m, n, t, B
        <4> QED BY <1>2, <1>3
      <3>2. B[s + m + i] = News!Chars(a.title)
        BY <1>3
      <3>3. a.title \in Seq(Character)
        BY <2>2 DEF NewsArticles
      <3>4. IF B[s + m + i] = <<>> THEN a.title = <<>> ELSE Lies(B[s + m + i], 0, a.title)
        BY <3>2, <3>3, NewsText
      <3> QED BY <3>1, <3>3, <3>4, PieceIsRead
    <2> HIDE DEF a, z
    <2>4. LET b == [a EXCEPT !.title = z] IN
          /\ b.id = a.id /\ b.pictureTime = a.pictureTime /\ b.picture = a.picture
          /\ b.title = z
      BY <2>2 DEF NewsArticles
    <2>5. articles[i] = [a EXCEPT !.title = z]
      BY <1>1, <2>1
    <2> HIDE DEF articles
    <2> QED BY <2>3, <2>4, <2>5 DEF a
  <1>8. ASSUME NEW i \in 1 .. m
        PROVE  News!Data(cells, images[i]) = <<d.images[i]>>
    <2>1. ImageTable(d)[i] = News!Sized(d, s + i, 1)
      BY DEF ImageTable
    <2> DEFINE x == <<d.images[i]>>
    <2>2. x \in Seq(Image) /\ Len(x) = 1 /\ x # <<>>
      BY <1>5
    <2>3. B[s + i] = x
      BY <1>3
    <2>4. s + i \in 1 .. Len(B)
      <3> HIDE DEF s, m, n, t, B
      <3> QED BY <1>2, <1>3
    <2> HIDE DEF x
    <2>5. Lies(x, 0, x)
      BY <2>2 DEF Lies
    <2>6. News!Data(cells, News!Sized(d, s + i, Len(x))) = x
      BY <2>2, <2>3, <2>4, <2>5, PieceIsRead
    <2> QED BY <1>1, <2>1, <2>2, <2>6 DEF x
  <1>9. ASSUME NEW i \in 1 .. t
        PROVE  News!Data(cells, TopicTable(d)[i].links) = d.topics[i].links
    <2> DEFINE j == s + m + n + 2 * i
               x == d.topics[i].links
    <2>1. TopicTable(d)[i].links = News!Sized(d, j, Len(x))
      BY DEF TopicTable
    <2>2. x \in Seq(Nat \X ArticleId)
      BY <1>5 DEF NewsTopics
    <2>3. j \in 1 .. Len(B)
      <3> HIDE DEF s, m, n, t, B
      <3> QED BY <1>2, <1>3
    <2>4. B[j] = x
      BY <1>3
    <2> HIDE DEF x, j
    <2>5. x # <<>> => Lies(x, 0, x)
      BY <2>2, LenProperties DEF Lies
    <2>6. News!Data(cells, News!Sized(d, j, Len(x))) = x
      BY <2>2, <2>3, <2>4, <2>5, PieceIsRead
    <2> QED BY <2>1, <2>6 DEF x
  <1>10. ASSUME NEW i \in 1 .. t
         PROVE  News!Range(d.topics[i].links) \subseteq News!Range(News!LinksOf(cells))
    <2> DEFINE L == [k \in 1 .. t |-> d.topics[k].links]
               X == Nat \X ArticleId
    <2>1. DOMAIN TopicTable(d) = 1 .. t
      BY DEF TopicTable
    <2>2. [k \in DOMAIN News!Topics(cells) |-> News!Data(cells, News!Topics(cells)[k].links)]
            = L
      BY ONLY <1>1, <1>9, <2>1
    <2>3. News!LinksOf(cells) = News!FlattenSeq(L)
      BY <2>2 DEF News!LinksOf
    <2>4. L \in Seq(Seq(X)) /\ Len(L) = t /\ L[i] = d.topics[i].links
      <3>1. \A k \in 1 .. t : d.topics[k].links \in Seq(X)
        BY <1>5 DEF NewsTopics
      <3> HIDE DEF X
      <3> QED BY <1>2, <3>1
    <2> HIDE DEF L, X
    <2>5. News!Range(L[i]) \subseteq News!Range(News!FlattenSeq(L))
      BY <2>4, PartsAreIn
    <2> QED BY <2>3, <2>4, <2>5
  <1> HIDE DEF cells, articles, images
  <1> QED BY <1>4, <1>6, <1>7, <1>8, <1>10 DEF cells, articles, images

\* The article that a reader finds has the title that its editor gave.
LEMMA TitleIsRead ==
  ASSUME NEW d \in NewsDocument, News!Inspected(News!Encoded(d)),
         NEW id \in News!Ids(News!Encoded(d))
  PROVE  {x.title : x \in {y \in News!Range(d.articles) : y.id = id}}
           = {News!TitleIn(News!Encoded(d), id)}
  <1> DEFINE cells == News!Encoded(d)
             n     == Len(d.articles)
             q     == News!Articles(cells)
             ids   == News!Ids(cells)
             f     == [i \in 1 .. n |-> d.articles[i].id]
  <1>1. /\ DOMAIN q = 1 .. n /\ Len(q) = n
        /\ \A i \in 1 .. n : /\ q[i].id = d.articles[i].id
                             /\ News!Data(cells, q[i].title) = d.articles[i].title
    BY SnapshotIsRead
  <1>2. n \in Nat /\ DOMAIN d.articles = 1 .. n
    BY SnapshotFacts
  <1>3. Cardinality(ids) = n
    <2>1. News!Inspected(cells)
      OBVIOUS
    <2> HIDE DEF cells
    <2>2. News!Cardinality(News!Ids(cells)) = Len(News!Articles(cells))
      BY <2>1, Zenon DEF News!Inspected
    <2>3. Cardinality(ids) = News!Cardinality(ids)
      BY DEF Cardinality, News!Cardinality
    <2> QED BY ONLY <1>1, <2>2, <2>3
  <1>4. ids = {d.articles[i].id : i \in 1 .. n}
    BY <1>1 DEF News!Ids
  <1>5. id \in ids
    OBVIOUS
  <1>6. News!TitleIn(cells, id) =
          News!Data(cells, (CHOOSE x \in News!Range(q) : x.id = id).title)
    BY DEF News!TitleIn
  <1> HIDE DEF cells, n, q, ids
  <1>7. f \in Injection(1 .. n, ids)
    <2>1. f \in Surjection(1 .. n, ids)
      BY <1>4 DEF Surjection
    <2>2. IsFiniteSet(1 .. n) /\ Cardinality(1 .. n) = n
      <3>1. 1 \in Int /\ n \in Int
        BY <1>2
      <3>2. IsFiniteSet(1 .. n) /\ Cardinality(1 .. n) = IF 1 > n THEN 0 ELSE n - 1 + 1
        BY <3>1, FS_Interval
      <3> QED BY <3>2, <1>2
    <2> HIDE DEF f
    <2> QED BY <1>3, <2>1, <2>2, FS_Surjection
  <1>8. \A i, j \in 1 .. n : d.articles[i].id = d.articles[j].id => i = j
    <2>1. \A i \in 1 .. n : f[i] = d.articles[i].id
      OBVIOUS
    <2> HIDE DEF f
    <2>2. \A i, j \in 1 .. n : f[i] = f[j] => i = j
      BY <1>7 DEF Injection, IsInjective
    <2> QED BY <2>1, <2>2
  <1> HIDE DEF f
  <1>9. PICK i \in 1 .. n : d.articles[i].id = id
    BY <1>4, <1>5
  <1>10. {y \in News!Range(d.articles) : y.id = id} = {d.articles[i]}
    BY <1>2, <1>8, <1>9 DEF News!Range
  <1>11. (CHOOSE x \in News!Range(q) : x.id = id) = q[i]
    <2>1. q[i] \in News!Range(q) /\ q[i].id = id
      BY <1>1, <1>9 DEF News!Range
    <2>2. ASSUME NEW x \in News!Range(q), x.id = id PROVE x = q[i]
      <3>1. PICK j \in 1 .. n : x = q[j]
        BY <1>1 DEF News!Range
      <3>2. d.articles[j].id = id
        BY <1>1, <2>2, <3>1
      <3> QED BY <1>8, <1>9, <3>1, <3>2
    <2> QED BY <2>1, <2>2
  <1>12. News!TitleIn(cells, id) = d.articles[i].title
    BY <1>1, <1>6, <1>11
  <1> QED BY <1>10, <1>12 DEF cells

------------------------------------------------------------------------------
(* The slots of a bundle. *)

\* The slots of a bundle, from the documents of the builds that are named.
Buffers(docs, slots) == [i \in 1 .. Slots |-> News!Encoded(docs[slots[i]])]

\* The builds are of documents, and an accepted bundle is of such builds.
NewsInv ==
  /\ documents \in Seq(NewsDocument)
  /\ snapshots = [i \in 1 .. Len(documents) |-> News!Encoded(documents[i])]
  /\ checked.accepted =>
       /\ checked.slots \in [1 .. Slots -> 1 .. Len(documents)]
       /\ News!BundleInspected(Buffers(documents, checked.slots))

\* Before anything is built.
LEMMA NewsInit == News!Init => NewsInv
  <1> SUFFICES ASSUME News!Init PROVE NewsInv
    OBVIOUS
  <1>1. documents = <<>> /\ snapshots = <<>> /\ checked.accepted = FALSE
    BY DEF News!Init
  <1>2. documents \in Seq(NewsDocument) /\ Len(documents) = 0
    BY <1>1
  <1>3. snapshots = [i \in 1 .. 0 |-> News!Encoded(documents[i])]
    BY <1>1
  <1> QED BY <1>1, <1>2, <1>3 DEF NewsInv

\* A build is added, and no slot of a bundle changes.
LEMMA NewsBuildStep == NewsInv /\ (\E d \in NewsDocument : News!Build(d)) => NewsInv'
  <1> SUFFICES ASSUME NewsInv, NEW d \in NewsDocument, News!Build(d) PROVE NewsInv'
    OBVIOUS
  <1>1. /\ snapshots' = Append(snapshots, News!Encoded(d))
        /\ documents' = Append(documents, d) /\ checked' = checked
    BY DEF News!Build
  <1>2. PICK n \in Nat : n = Len(documents)
    BY LenProperties DEF NewsInv
  <1>3. /\ documents' \in Seq(NewsDocument) /\ Len(documents') = n + 1
        /\ \A i \in 1 .. n : documents'[i] = documents[i]
        /\ documents'[n + 1] = d
    BY <1>1, <1>2, AppendProperties DEF NewsInv
  <1>4. snapshots = [i \in 1 .. n |-> News!Encoded(documents[i])]
    BY <1>2 DEF NewsInv
  <1>5. snapshots = [i \in 1 .. n |-> snapshots[i]]
    BY <1>4
  <1>6. PICK W : snapshots \in Seq(W) /\ Len(snapshots) = n
    BY <1>5, NumberedIsSequence
  <1>7. PICK e : e = News!Encoded(d)
    OBVIOUS
  <1>8. /\ snapshots' \in Seq(W \cup {e}) /\ Len(snapshots') = n + 1
        /\ \A i \in 1 .. n : snapshots'[i] = snapshots[i]
        /\ snapshots'[n + 1] = e
    <2>1. snapshots \in Seq(W \cup {e}) /\ e \in W \cup {e}
      BY <1>6, SeqMonotonic
    <2>2. snapshots' = Append(snapshots, e)
      BY <1>1, <1>7
    <2> QED BY <1>6, <2>1, <2>2, AppendProperties
  <1>9. DOMAIN snapshots' = 1 .. n + 1 /\ snapshots' = [i \in 1 .. n + 1 |-> snapshots'[i]]
    BY <1>8, LenProperties
  <1>10. ASSUME NEW i \in 1 .. n + 1 PROVE snapshots'[i] = News!Encoded(documents'[i])
    <2>1. CASE i = n + 1
      BY <1>3, <1>7, <1>8, <2>1
    <2>2. CASE i # n + 1
      <3>1. i \in 1 .. n
        BY <1>2, <2>2
      <3>2. snapshots[i] = News!Encoded(documents[i])
        BY <1>4, <3>1
      <3> QED BY <1>3, <1>8, <3>1, <3>2
    <2> QED BY <2>1, <2>2
  <1>11. snapshots' = [i \in 1 .. n + 1 |-> News!Encoded(documents'[i])]
    BY <1>9, <1>10
  <1>12. ASSUME checked'.accepted
         PROVE  /\ checked'.slots \in [1 .. Slots -> 1 .. n + 1]
                /\ News!BundleInspected(Buffers(documents', checked'.slots))
    <2>1. PICK q : q = checked.slots /\ q = checked'.slots
      BY <1>1
    <2>2. q \in [1 .. Slots -> 1 .. n] /\ News!BundleInspected(Buffers(documents, q))
      BY <1>1, <1>2, <1>12, <2>1 DEF NewsInv
    <2>3. Buffers(documents', q) = Buffers(documents, q)
      <3>1. \A i \in 1 .. Slots : documents'[q[i]] = documents[q[i]]
        BY <1>3, <2>2
      <3> QED BY <3>1 DEF Buffers
    <2>4. q \in [1 .. Slots -> 1 .. n + 1]
      <3>1. \A i \in 1 .. n : i \in 1 .. n + 1
        BY <1>2
      <3> QED BY <2>2, <3>1
    <2> QED BY <2>1, <2>2, <2>3, <2>4
  <1> QED BY <1>3, <1>11, <1>12 DEF NewsInv

\* What is inspected is what the slots name.
LEMMA NewsInspectStep == NewsInv /\ News!InspectBundle => NewsInv'
  <1> SUFFICES ASSUME NewsInv, News!InspectBundle PROVE NewsInv'
    OBVIOUS
  <1>1. PICK q \in [1 .. Slots -> DOMAIN snapshots] :
          checked' = [slots |-> q,
                      accepted |-> News!BundleInspected([i \in 1 .. Slots |-> snapshots[q[i]]])]
    BY DEF News!InspectBundle
  <1>2. snapshots' = snapshots /\ documents' = documents
    BY DEF News!InspectBundle
  <1>3. checked'.slots = q
    BY <1>1
  <1>4. checked'.accepted = News!BundleInspected([i \in 1 .. Slots |-> snapshots[q[i]]])
    BY <1>1
  <1>5. q \in [1 .. Slots -> 1 .. Len(documents)]
    BY <1>1 DEF NewsInv
  <1>6. [i \in 1 .. Slots |-> snapshots[q[i]]] = Buffers(documents, q)
    <2>1. \A i \in 1 .. Slots : snapshots[q[i]] = News!Encoded(documents[q[i]])
      BY <1>5 DEF NewsInv
    <2> QED BY <2>1 DEF Buffers
  <1>7. checked'.accepted => News!BundleInspected(Buffers(documents, q))
    BY <1>4, <1>6
  <1> QED BY <1>2, <1>3, <1>5, <1>7 DEF NewsInv

\* Each step of the News tools keeps the invariant.
LEMMA NewsStep == NewsInv /\ [News!Next]_(News!vars) => NewsInv'
  <1>1. NewsInv /\ UNCHANGED News!vars => NewsInv'
    BY DEF NewsInv, News!vars
  <1> QED BY <1>1, NewsBuildStep, NewsInspectStep DEF News!Next

\* In a bundle without conflicts each buffer is the one that its timestamp stands for.
LEMMA BuffersAreSnapshots ==
  ASSUME NEW b, NEW W, b \in [1 .. Slots -> W], News!Undisputed(b)
  PROVE  News!Range(b) = News!Snapshots(b)
  <1> DEFINE Time(x) == News!Header(x).updated
             Later(j) == {k \in DOMAIN b : Time(b[k]) = Time(b[j])}
  <1>1. Slots \in Nat /\ DOMAIN b = 1 .. Slots
    BY NewsAssumption
  <1>2. b \in Seq(W) /\ Len(b) = Slots
    BY <1>1
  <1>3. \A x, y \in News!Range(b) : Time(x) = Time(y) => x = y
    BY Zenon DEF News!Undisputed
  <1>4. News!Snapshots(b) =
          {b[i] : i \in {j \in DOMAIN b : \A k \in j + 1 .. Len(b) : Time(b[k]) # Time(b[j])}}
    BY Zenon DEF News!Snapshots
  <1> HIDE DEF Time
  <1>5. News!Snapshots(b) \subseteq News!Range(b)
    BY <1>4 DEF News!Range
  <1>6. ASSUME NEW x \in News!Range(b) PROVE x \in News!Snapshots(b)
    <2>1. PICK i \in DOMAIN b : x = b[i]
      BY DEF News!Range
    <2>2. PICK S : S = Later(i)
      OBVIOUS
    <2>3. S \in SUBSET Nat /\ S # {} /\ IsFiniteSet(S)
      <3>1. S \subseteq 1 .. Slots /\ i \in S
        BY <1>1, <2>1, <2>2
      <3>2. IsFiniteSet(1 .. Slots)
        <4>1. 1 \in Int /\ Slots \in Int
          BY <1>1
        <4> QED BY <4>1, FS_Interval
      <3>3. IsFiniteSet(S)
        BY ONLY <3>1, <3>2, FS_Subset
      <3> QED BY <1>1, <3>1, <3>3
    <2>4. PICK m \in S : \A n \in S : n <= m
      BY <2>3, GreatestNatural
    <2>5. m \in DOMAIN b /\ Time(b[m]) = Time(b[i]) /\ m \in Nat
      BY <2>2, <2>3, <2>4
    <2>6. ASSUME NEW k \in m + 1 .. Len(b) PROVE Time(b[k]) # Time(b[m])
      <3>1. k \in DOMAIN b /\ ~ (k <= m)
        BY <1>1, <1>2, <2>5
      <3>2. k \notin S
        BY <2>4, <3>1
      <3> QED BY <2>2, <2>5, <3>1, <3>2
    <2>7. b[m] \in News!Snapshots(b)
      BY <1>4, <2>5, <2>6
    <2>8. b[m] = x
      <3>1. b[m] \in News!Range(b) /\ b[i] \in News!Range(b)
        BY <2>1, <2>5 DEF News!Range
      <3> QED BY <1>3, <2>1, <2>5, <3>1
    <2> QED BY <2>7, <2>8
  <1> QED BY <1>5, <1>6

\* What a bundle that was inspected says of the slots, for any documents in them.
BundleSound(docs, q) ==
  /\ \A b \in News!Range(q) : News!Inspected(News!Encoded(docs[b]))
  /\ \A b, c \in News!Range(q) : docs[b].updated = docs[c].updated =>
       News!Encoded(docs[b]) = News!Encoded(docs[c])
  /\ \A b \in News!Range(q) :
       /\ \A link \in News!Range(News!LinksOf(News!Encoded(docs[b]))) :
            \E c \in News!Range(q) : docs[c].updated = link[1]
                                     /\ link[2] \in News!Ids(News!Encoded(docs[c]))
       /\ \A a \in News!Range(News!Articles(News!Encoded(docs[b]))) :
            a.pictureTime # 0 /\ a.picture # None =>
              \E c \in News!Range(q) : docs[c].updated = a.pictureTime
                                       /\ a.picture < Len(docs[c].images)

\* An inspected bundle is sound.
LEMMA InspectedIsSound ==
  ASSUME NEW docs \in Seq(NewsDocument), NEW q \in [1 .. Slots -> 1 .. Len(docs)],
         News!BundleInspected(Buffers(docs, q))
  PROVE  BundleSound(docs, q)
  <1> DEFINE b    == Buffers(docs, q)
             Of(i) == News!Encoded(docs[i])
             used == News!Range(q)
             all  == News!Range(b)
  <1>1. /\ \A x \in all : News!Inspected(x)
        /\ News!Undisputed(b)
        /\ \A x \in News!Snapshots(b) : News!Resolved(x, News!Snapshots(b))
    BY Zenon DEF News!BundleInspected
  <1>2. /\ \A i \in used : i \in 1 .. Len(docs) /\ docs[i] \in NewsDocument
        /\ DOMAIN q = 1 .. Slots
    <2>1. \A i \in used : i \in 1 .. Len(docs)
      BY DEF News!Range
    <2> QED BY <2>1, ElementOfSeq
  <1>3. \A i \in used : /\ News!Header(Of(i)).updated = docs[i].updated
                        /\ News!Header(Of(i)).images.count = Len(docs[i].images)
    BY <1>2, SnapshotIsRead
  <1>4. b = [i \in 1 .. Slots |-> Of(q[i])] /\ DOMAIN b = 1 .. Slots
    BY DEF Buffers
  <1> HIDE DEF b, Of
  <1>5. all = {Of(i) : i \in used}
    BY <1>2, <1>4 DEF News!Range
  <1>6. all = News!Snapshots(b)
    <2>1. b \in [1 .. Slots -> all]
      BY <1>4 DEF News!Range
    <2> QED BY <1>1, <2>1, BuffersAreSnapshots
  <1>7. \A x, y \in all : News!Header(x).updated = News!Header(y).updated => x = y
    BY <1>1, Zenon DEF News!Undisputed
  <1>8. \A x \in all :
          /\ \A link \in News!Range(News!LinksOf(x)) :
               \E y \in all : News!Header(y).updated = link[1] /\ link[2] \in News!Ids(y)
          /\ \A a \in News!Range(News!Articles(x)) :
               a.pictureTime # 0 /\ a.picture # None =>
                 \E y \in all : News!Header(y).updated = a.pictureTime
                                /\ a.picture < News!Header(y).images.count
    <2>1. \A x \in all : News!Resolved(x, all)
      BY ONLY <1>1, <1>6, Zenon
    <2> QED BY ONLY <2>1, Zenon DEF News!Resolved
  <1> HIDE DEF all, used
  <1>9. \A i \in used : News!Inspected(Of(i))
    BY <1>1, <1>5
  <1>10. \A i, j \in used : docs[i].updated = docs[j].updated => Of(i) = Of(j)
    <2> TAKE i \in used, j \in used
    <2>1. Of(i) \in all /\ Of(j) \in all
      BY <1>5
    <2> QED BY <1>3, <1>7, <2>1
  <1>11. ASSUME NEW i \in used
         PROVE  /\ \A link \in News!Range(News!LinksOf(Of(i))) :
                     \E j \in used : docs[j].updated = link[1] /\ link[2] \in News!Ids(Of(j))
                /\ \A a \in News!Range(News!Articles(Of(i))) :
                     a.pictureTime # 0 /\ a.picture # None =>
                       \E j \in used : docs[j].updated = a.pictureTime
                                       /\ a.picture < Len(docs[j].images)
    <2>1. Of(i) \in all
      BY <1>5
    <2>2. ASSUME NEW link \in News!Range(News!LinksOf(Of(i)))
          PROVE  \E j \in used : docs[j].updated = link[1] /\ link[2] \in News!Ids(Of(j))
      <3>1. PICK y \in all : News!Header(y).updated = link[1] /\ link[2] \in News!Ids(y)
        BY ONLY <1>8, <2>1, <2>2, Zenon
      <3>2. PICK j \in used : y = Of(j)
        BY <1>5
      <3> QED BY <1>3, <3>1, <3>2
    <2>3. ASSUME NEW a \in News!Range(News!Articles(Of(i))), a.pictureTime # 0, a.picture # None
          PROVE  \E j \in used : docs[j].updated = a.pictureTime
                                 /\ a.picture < Len(docs[j].images)
      <3>1. PICK y \in all : /\ News!Header(y).updated = a.pictureTime
                             /\ a.picture < News!Header(y).images.count
        BY ONLY <1>8, <2>1, <2>3, Zenon
      <3>2. PICK j \in used : y = Of(j)
        BY <1>5
      <3> QED BY <1>3, <3>1, <3>2
    <2> QED BY <2>2, <2>3
  <1> QED BY <1>9, <1>10, <1>11 DEF BundleSound, used, Of

\* A link of a sound bundle finds its article, with the title that its editor gave.
LEMMA LinkIsResolved ==
  ASSUME NEW docs \in Seq(NewsDocument), NEW q \in [1 .. Slots -> 1 .. Len(docs)],
         BundleSound(docs, q), NEW b \in News!Range(q), NEW topic \in News!Range(docs[b].topics),
         NEW link \in News!Range(topic.links)
  PROVE  LET At == {c \in News!Range(q) : docs[c].updated = link[1]} IN
         /\ At # {}
         /\ \A c \in At : {a.title : a \in {x \in News!Range(docs[c].articles) : x.id = link[2]}}
                            = {News!TitleIn(News!Encoded(docs[c]), link[2])}
  <1>1. \A i \in News!Range(q) : docs[i] \in NewsDocument
    <2>1. \A i \in News!Range(q) : i \in 1 .. Len(docs)
      BY DEF News!Range
    <2> QED BY <2>1, ElementOfSeq
  <1>2. link \in News!Range(News!LinksOf(News!Encoded(docs[b])))
    <2>1. PICK d \in NewsDocument : d = docs[b]
      BY <1>1
    <2>2. DOMAIN d.topics = 1 .. Len(d.topics)
      BY SnapshotFacts
    <2>3. PICK i \in 1 .. Len(d.topics) : topic = d.topics[i]
      BY <2>1, <2>2 DEF News!Range
    <2>4. News!Range(d.topics[i].links) \subseteq News!Range(News!LinksOf(News!Encoded(d)))
      BY SnapshotIsRead
    <2> QED BY <2>1, <2>3, <2>4
  <1>3. PICK c \in News!Range(q) : /\ docs[c].updated = link[1]
                                   /\ link[2] \in News!Ids(News!Encoded(docs[c]))
    BY <1>2, Zenon DEF BundleSound
  <1>4. ASSUME NEW e \in News!Range(q), docs[e].updated = link[1]
        PROVE  {a.title : a \in {x \in News!Range(docs[e].articles) : x.id = link[2]}}
                 = {News!TitleIn(News!Encoded(docs[e]), link[2])}
    <2>1. News!Encoded(docs[e]) = News!Encoded(docs[c])
      BY <1>3, <1>4, Zenon DEF BundleSound
    <2>2. link[2] \in News!Ids(News!Encoded(docs[e]))
      BY <1>3, <2>1
    <2>3. News!Inspected(News!Encoded(docs[e]))
      BY Zenon DEF BundleSound
    <2>4. docs[e] \in NewsDocument
      BY <1>1
    <2> QED BY ONLY <2>2, <2>3, <2>4, TitleIsRead
  <1> QED BY <1>3, <1>4

\* A picture of a sound bundle is the image that its editor gave.
LEMMA PictureIsResolved ==
  ASSUME NEW docs \in Seq(NewsDocument), NEW q \in [1 .. Slots -> 1 .. Len(docs)],
         BundleSound(docs, q), NEW b \in News!Range(q), NEW a \in News!Range(docs[b].articles),
         a.pictureTime # 0, a.picture # None
  PROVE  LET At == {c \in News!Range(q) : docs[c].updated = a.pictureTime} IN
         /\ At # {}
         /\ \A c \in At :
              /\ a.picture < Len(docs[c].images)
              /\ News!ImageIn(News!Encoded(docs[c]), a.picture) = <<docs[c].images[a.picture + 1]>>
  <1>1. \A i \in News!Range(q) : docs[i] \in NewsDocument
    <2>1. \A i \in News!Range(q) : i \in 1 .. Len(docs)
      BY DEF News!Range
    <2> QED BY <2>1, ElementOfSeq
  <1>2. /\ a.picture \in Nat
        /\ \E x \in News!Range(News!Articles(News!Encoded(docs[b]))) :
             x.pictureTime = a.pictureTime /\ x.picture = a.picture
    <2>1. PICK d \in NewsDocument : d = docs[b]
      BY <1>1
    <2>2. DOMAIN d.articles = 1 .. Len(d.articles) /\ d.articles \in Seq(NewsArticles)
      BY SnapshotFacts
    <2>3. PICK i \in 1 .. Len(d.articles) : a = d.articles[i]
      BY <2>1, <2>2 DEF News!Range
    <2>4. a \in NewsArticles
      BY <2>2, <2>3, ElementOfSeq
    <2>5. a.picture \in Nat
      BY <2>4 DEF NewsArticles
    <2> DEFINE s == News!Articles(News!Encoded(d))
    <2>6. /\ DOMAIN s = 1 .. Len(d.articles)
          /\ s[i].pictureTime = d.articles[i].pictureTime
          /\ s[i].picture = d.articles[i].picture
      BY SnapshotIsRead
    <2> HIDE DEF s
    <2>7. s[i] \in News!Range(s) /\ s[i].pictureTime = a.pictureTime /\ s[i].picture = a.picture
      BY <2>3, <2>6 DEF News!Range
    <2> QED BY <2>1, <2>5, <2>7 DEF s
  <1>3. PICK c \in News!Range(q) : /\ docs[c].updated = a.pictureTime
                                   /\ a.picture < Len(docs[c].images)
    <2>1. PICK x \in News!Range(News!Articles(News!Encoded(docs[b]))) :
            x.pictureTime = a.pictureTime /\ x.picture = a.picture
      BY <1>2
    <2>2. x.pictureTime # 0 /\ x.picture # None
      BY <2>1
    <2>3. PICK c \in News!Range(q) : /\ docs[c].updated = x.pictureTime
                                     /\ x.picture < Len(docs[c].images)
      BY <2>2, Zenon DEF BundleSound
    <2> QED BY <2>1, <2>3
  <1>4. ASSUME NEW e \in News!Range(q), docs[e].updated = a.pictureTime
        PROVE  /\ a.picture < Len(docs[e].images)
               /\ News!ImageIn(News!Encoded(docs[e]), a.picture)
                    = <<docs[e].images[a.picture + 1]>>
    <2>1. PICK d \in NewsDocument : d = docs[e]
      BY <1>1
    <2>2. PICK g \in NewsDocument : g = docs[c]
      BY <1>1
    <2>3. News!Encoded(d) = News!Encoded(g)
      BY <1>3, <1>4, <2>1, <2>2, Zenon DEF BundleSound
    <2>4. Len(d.images) = Len(g.images)
      <3>1. News!Header(News!Encoded(d)).images.count = Len(d.images)
        BY SnapshotIsRead
      <3>2. News!Header(News!Encoded(g)).images.count = Len(g.images)
        BY SnapshotIsRead
      <3> QED BY <2>3, <3>1, <3>2
    <2>5. a.picture < Len(d.images)
      BY <1>3, <2>2, <2>4
    <2>6. a.picture + 1 \in 1 .. Len(d.images)
      <3>1. Len(d.images) \in Nat
        BY SnapshotFacts
      <3> QED BY <1>2, <2>5, <3>1
    <2>7. News!ImageIn(News!Encoded(d), a.picture) = <<d.images[a.picture + 1]>>
      BY <2>6, SnapshotIsRead DEF News!ImageIn
    <2> QED BY <2>1, <2>5, <2>7
  <1> QED BY <1>3, <1>4

\* What the invariant says of the references.
LEMMA BundleResolves == NewsInv => News!AcceptedBundleResolves
  <1> SUFFICES ASSUME NewsInv, checked.accepted PROVE News!AcceptedBundleResolves
    BY DEF News!AcceptedBundleResolves
  <1>1. PICK docs \in Seq(NewsDocument) : docs = documents
    BY DEF NewsInv
  <1>2. PICK q \in [1 .. Slots -> 1 .. Len(docs)] : q = checked.slots
    BY <1>1 DEF NewsInv
  <1>3. BundleSound(docs, q)
    <2>1. News!BundleInspected(Buffers(docs, q))
      BY <1>1, <1>2 DEF NewsInv
    <2> QED BY <2>1, InspectedIsSound
  <1>4. \A b \in News!Range(q) : snapshots[b] = News!Encoded(docs[b])
    <2>1. \A b \in News!Range(q) : b \in 1 .. Len(docs)
      BY DEF News!Range
    <2> QED BY <1>1, <2>1 DEF NewsInv
  <1> DEFINE Used == News!Range(checked.slots)
             At(time) == {b \in Used : documents[b].updated = time}
             Written(b, id) == {a \in News!Range(documents[b].articles) : a.id = id}
  <1>5. ASSUME NEW b \in Used, NEW topic \in News!Range(documents[b].topics),
               NEW link \in News!Range(topic.links)
        PROVE  /\ At(link[1]) # {}
               /\ \A c \in At(link[1]) :
                    /\ Written(c, link[2]) # {}
                    /\ {a.title : a \in Written(c, link[2])}
                         = {News!TitleIn(snapshots[c], link[2])}
    <2> DEFINE There == {c \in News!Range(q) : docs[c].updated = link[1]}
    <2>1. b \in News!Range(q) /\ topic \in News!Range(docs[b].topics)
      BY <1>1, <1>2
    <2>2. /\ There # {}
          /\ \A c \in There :
               {a.title : a \in {x \in News!Range(docs[c].articles) : x.id = link[2]}}
                 = {News!TitleIn(News!Encoded(docs[c]), link[2])}
      BY <1>3, <1>5, <2>1, LinkIsResolved, ZenonT(60)
    <2>3. At(link[1]) = There
      BY <1>1, <1>2
    <2>4. ASSUME NEW c \in There
          PROVE  /\ Written(c, link[2]) = {x \in News!Range(docs[c].articles) : x.id = link[2]}
                 /\ snapshots[c] = News!Encoded(docs[c])
      BY <1>1, <1>4
    <2> HIDE DEF There, At, Written
    <2>5. \A c \in At(link[1]) :
            {a.title : a \in Written(c, link[2])} = {News!TitleIn(snapshots[c], link[2])}
      BY <2>2, <2>3, <2>4
    <2>6. \A c \in At(link[1]) : Written(c, link[2]) # {}
      BY ONLY <2>5
    <2> QED BY ONLY <2>2, <2>3, <2>5, <2>6
  <1>6. ASSUME NEW b \in Used, NEW a \in News!Range(documents[b].articles),
               a.pictureTime # 0, a.picture # None
        PROVE  /\ At(a.pictureTime) # {}
               /\ \A c \in At(a.pictureTime) :
                    /\ a.picture < Len(documents[c].images)
                    /\ News!ImageIn(snapshots[c], a.picture)
                         = <<documents[c].images[a.picture + 1]>>
    <2> DEFINE There == {c \in News!Range(q) : docs[c].updated = a.pictureTime}
    <2>1. b \in News!Range(q) /\ a \in News!Range(docs[b].articles)
      BY <1>1, <1>2
    <2>2. /\ There # {}
          /\ \A c \in There :
               /\ a.picture < Len(docs[c].images)
               /\ News!ImageIn(News!Encoded(docs[c]), a.picture)
                    = <<docs[c].images[a.picture + 1]>>
      BY <1>3, <1>6, <2>1, PictureIsResolved
    <2>3. At(a.pictureTime) = There
      BY <1>1, <1>2
    <2>4. \A c \in There : snapshots[c] = News!Encoded(docs[c]) /\ documents[c] = docs[c]
      BY <1>1, <1>4
    <2> HIDE DEF There, At
    <2> QED BY <2>2, <2>3, <2>4
  <1> HIDE DEF At, Written
  <1>7. \A b \in Used :
          /\ \A topic \in News!Range(documents[b].topics) :
               \A link \in News!Range(topic.links) :
                 /\ At(link[1]) # {}
                 /\ \A c \in At(link[1]) :
                      /\ Written(c, link[2]) # {}
                      /\ {a.title : a \in Written(c, link[2])}
                           = {News!TitleIn(snapshots[c], link[2])}
          /\ \A a \in News!Range(documents[b].articles) :
               a.pictureTime # 0 /\ a.picture # None =>
                 /\ At(a.pictureTime) # {}
                 /\ \A c \in At(a.pictureTime) :
                      /\ a.picture < Len(documents[c].images)
                      /\ News!ImageIn(snapshots[c], a.picture)
                           = <<documents[c].images[a.picture + 1]>>
    BY <1>5, <1>6
  <1> QED BY ONLY <1>7, Zenon DEF News!AcceptedBundleResolves, At, Written

\* The invariant of the News tools while those are the active part.
LEMMA NewsInvariance == SuiteSpec => [](active = "news" => NewsInv)
  <1>1. SuiteInit => NewsInv
    BY NewsInit DEF SuiteInit
  <1>2. (active = "news" => NewsInv) /\ [SuiteNext]_suite => (active = "news" => NewsInv)'
    <2>1. [SuiteNext]_suite =>
            active' = active /\ (active = "news" => [News!Next]_(News!vars))
      BY DEF SuiteNext, suite, news, News!vars
    <2> QED BY <2>1, NewsStep
  <1> QED BY <1>1, <1>2, PTL DEF SuiteSpec

\* Whatever documents the editors write, in an accepted bundle each link finds one
\* title and each picture one image, those of the editor of the snapshot that is named,
\* although the snapshots were encoded and inspected one by one
\* (news_records.py, news_bundle.py).
THEOREM AcceptedBundlesResolve == SuiteSpec => []AcceptedBundleResolves
  <1>1. (active = "news" => NewsInv) => AcceptedBundleResolves
    BY BundleResolves DEF AcceptedBundleResolves
  <1> QED BY <1>1, NewsInvariance, PTL
=============================================================================
