---------------------------- MODULE MCBackOffice ----------------------------
(* What the staff keeps: stock with receipts, adjustments and warehouses,  *)
(* categories, products and their images, imports of products, what        *)
(* visitors see of them, and the states and municipalities of addresses.   *)
(* Each keeps its own rows here, so a behavior is about one of them.       *)
EXTENDS Inventory, Categories, Products, Gallery, ProductImport, PublicCache, GeoCatalog, TLC

CONSTANTS s1, s2   \* the staff

VARIABLE about   \* the component a behavior is about

\* Each order wants one unit of a: a warehouse may hold both, or have one left for two.
OneVariant == [o \in {"o1", "o2"} |-> "a" :> 1]
\* A receipt of one unit, or none.
ReceiptA == "f1" :> [i \in Items |-> IF i = <<"a", 1>> THEN 1 ELSE 0]
NoFiles == <<>>

ImportRow(slug, title, labels, sku, gtin, options) ==
  [wellFormed |-> TRUE, right |-> TRUE, slug |-> slug, title |-> title, labels |-> labels, sku |-> sku, gtin |-> gtin, options |-> options]

OldOne == [slug |-> "p", title |-> "P", sku |-> 1, gtin |-> 1]
FirstOfA == ImportRow("a", "A", {"acme"}, 2, 2, {<<"color", "red">>})

\* Rows of two products, which repeat, leave empty or change what the first of them says, and take what the catalog has.
ImportRows ==
  {FirstOfA,
   ImportRow("a", "", {}, 3, 0, {<<"color", "blue">>}),
   ImportRow("a", "A", {"acme"}, 3, 0, {<<"color", "red">>}),
   ImportRow("a", "", {}, 4, 0, {<<"size", "m">>}),
   ImportRow("a", "B", {}, 4, 3, {<<"color", "blue">>}),
   ImportRow("b", "B", {"acme", "shirts"}, 4, 2, {}),
   ImportRow("b", "", {}, 2, 0, {}),
   ImportRow("b", "B", {}, 1, 0, {}),
   ImportRow("b", "B", {"shirts"}, 5, 1, {<<"size", "m">>}),
   ImportRow("p", "P", {}, 6, 0, {}),
   [FirstOfA EXCEPT !.wellFormed = FALSE],
   [FirstOfA EXCEPT !.right = FALSE]}

\* Every file of one or two of them, and of three of the first ones.
SomeFiles == UNION {[1..n -> ImportRows] : n \in 1..2} \cup [1..3 -> {row \in ImportRows : row.slug = "a" /\ row.right}]

GeoRow(state, stateName, key, name) == [state |-> state, stateName |-> stateName, key |-> key, name |-> name]
\* Three catalogs of two states: with another municipality, with another name and without one; and files that are none.
SomeGeoFiles ==
  {<<GeoRow(1, "s", 1, "m"), GeoRow(2, "t", 1, "n")>>,
   <<GeoRow(2, "t", 1, "n"), GeoRow(1, "s", 1, "m"), GeoRow(1, "s", 2, "o")>>,
   <<GeoRow(1, "s", 2, "p"), GeoRow(2, "u", 1, "n")>>,
   <<GeoRow(1, "s", 1, "m")>>, <<GeoRow(1, "s", 1, "m"), GeoRow(2, "t", 1, "n"), GeoRow(1, "z", 2, "o")>>,
   <<GeoRow(1, "s", 1, "m"), GeoRow(2, "t", 1, "n"), GeoRow(1, "s", 1, "o")>>, <<GeoRow(1, "s", 1, "m"), GeoRow(2, "t", 1, NoName)>>}

\* The instances of the API are alike, and so are their pages.
Alike == Permutations(Instances) \cup Permutations(CacheKeys)

\* Where the behavior is not about a component, one of its initial states is enough.
BackOfficeInit ==
  /\ about \in {"stock", "warehouses", "categories", "products", "images", "import", "pages", "geo"}
  /\ ProductsInit /\ (about = "products" \/ product.slug = "a")
  /\ ImportInit /\ (about = "import" \/ \A l \in Labels : label[l] = "ACTIVE")
  /\ Init /\ CategoriesInit /\ GalleryInit /\ CacheInit /\ GeoInit

\* The other components stand still.
Rest ==
  /\ about \notin {"stock", "warehouses"} => UNCHANGED vars
  /\ about # "categories" => UNCHANGED categoriesVars
  /\ about # "products" => UNCHANGED productsVars
  /\ about # "images" => UNCHANGED galleryVars
  /\ about # "import" => UNCHANGED importVars
  /\ about # "pages" => UNCHANGED cacheVars
  /\ about # "geo" => UNCHANGED geoVars
  /\ UNCHANGED about

\* Bounds: two orders reserve while one of the staff edits a warehouse once; both edit them while one order reserves.
StockBounds ==
  \/ about = "stock" /\ edits' <= 1 /\ editing'[s2] = None /\ importing'[s2] = None
  \/ about = "warehouses" /\ plans'["o2"] = {}

BackOfficeNext ==
  \/ about \in {"stock", "warehouses"} /\ Next /\ StockBounds /\ Rest
  \/ about = "categories" /\ CategoriesNext /\ Rest
  \/ about = "products" /\ ProductsNext /\ Rest
  \/ about = "images" /\ GalleryNext /\ Rest
  \/ about = "import" /\ ImportNext /\ Rest
  \/ about = "pages" /\ CacheNext /\ Rest
  \/ about = "geo" /\ GeoNext /\ Rest

backOfficeVars ==
  <<vars, categoriesVars, productsVars, galleryVars, importVars, cacheVars, geoVars, about>>
BackOfficeSpec == BackOfficeInit /\ [][BackOfficeNext]_backOfficeVars
\* The behaviors about the stock and its warehouses.
StockOnly == about = "stock" /\ BackOfficeSpec

-----------------------------------------------------------------------------
\* What is sold keeps its identity, its place in the tree and the files of its images, whoever edits them at once.
CatalogHolds == [](TreeReadsAlike /\ GalleryHasItsFiles) /\ ProductsStaySold

\* A file is imported as the staff would have entered it, whole, and the catalog of places is that of its file.
ImportsHold == ProductImportHolds /\ GeoHolds
=============================================================================
