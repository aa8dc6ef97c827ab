------------------------------ MODULE Products ------------------------------
(***************************************************************************)
(* A product of the catalog and its variants (src/modules/catalog).  A     *)
(* change reads the product, decides on what it read and saves all of it,  *)
(* only if its version is still the one it read.  The slug of the product  *)
(* and the SKU and the options of its variants are fixed by the first      *)
(* publication.                                                            *)
(***************************************************************************)
EXTENDS Naturals, FiniteSets

CONSTANTS
  ProductVariantIds,
  ProductEditors,     \* changes at the same time
  Slugs,
  Skus,
  OptionNames,        \* the sets of names a variant may have, as "talla" or "color"
  OptionValues,
  MaxProductVersion   \* bound: the saves of the product

ASSUME ProductsAssumption == MaxProductVersion \in Nat /\ Slugs # {}

VARIABLES
  product,
  productEdits   \* the product each change read and the one it will save

productsVars == <<product, productEdits>>

Options == [names : OptionNames, value : OptionValues]
NoProductEdit == [reading |-> FALSE, row |-> <<>>]

\* create: a draft without variants.
ProductsInit ==
  /\ \E slug \in Slugs :
       product = [status |-> "DRAFT", firstPublished |-> FALSE, slug |-> slug, variants |-> <<>>, version |-> 1]
  /\ productEdits = [e \in ProductEditors |-> NoProductEdit]

-----------------------------------------------------------------------------
(* The aggregate: its variants are a function of the ids it has. *)

ids(row) == DOMAIN row.variants
isActive(row, v) == row.variants[v].status = "ACTIVE"
editable(row) == row.status # "ARCHIVED"
withVariant(row, v, variant) ==
  [row EXCEPT !.variants = [u \in ids(row) \cup {v} |-> IF u = v THEN variant ELSE row.variants[u]]]

\* assertOptionNames: it looks at the first of the others.
hasOptionNames(row, v, names) ==
  ids(row) \ {v} # {} => (CHOOSE variant \in {row.variants[u] : u \in ids(row) \ {v}} : TRUE).options.names = names
isUniqueCombination(row, v, options) == \A u \in ids(row) \ {v} : isActive(row, u) => row.variants[u].options # options
hasUniqueSku(row, v, sku) == \A u \in ids(row) \ {v} : row.variants[u].sku # sku

\* Each change: the product it makes of the one it read, or none when it is refused.
editDetails(row, slug) ==
  {[row EXCEPT !.slug = slug] : x \in {y \in {slug} : editable(row) /\ (slug # row.slug => ~row.firstPublished)}}

addVariant(row, v, sku, options) ==
  IF /\ editable(row) /\ v \notin ids(row) /\ hasUniqueSku(row, v, sku)
     /\ hasOptionNames(row, v, options.names) /\ isUniqueCombination(row, v, options)
  THEN {withVariant(row, v, [status |-> "ACTIVE", sku |-> sku, options |-> options])} ELSE {}

updateVariant(row, v, sku, options) ==
  LET current == row.variants[v] IN
  IF /\ editable(row)
     /\ sku # current.sku => ~row.firstPublished /\ hasUniqueSku(row, v, sku)
     /\ options # current.options =>
          /\ ~row.firstPublished /\ hasOptionNames(row, v, options.names)
          /\ current.status = "ACTIVE" => isUniqueCombination(row, v, options)
  THEN {withVariant(row, v, [current EXCEPT !.sku = sku, !.options = options])} ELSE {}

discontinueVariant(row, v) ==
  IF editable(row) /\ isActive(row, v) THEN {withVariant(row, v, [row.variants[v] EXCEPT !.status = "DISCONTINUED"])} ELSE {}

reactivateVariant(row, v) ==
  IF editable(row) /\ ~isActive(row, v) /\ isUniqueCombination(row, v, row.variants[v].options)
  THEN {withVariant(row, v, [row.variants[v] EXCEPT !.status = "ACTIVE"])} ELSE {}

publish(row) ==
  IF row.status = "DRAFT" /\ \E v \in ids(row) : isActive(row, v)
  THEN {[row EXCEPT !.status = "PUBLISHED", !.firstPublished = TRUE]} ELSE {}
archive(row) == IF editable(row) THEN {[row EXCEPT !.status = "ARCHIVED"]} ELSE {}
reactivate(row) == IF ~editable(row) THEN {[row EXCEPT !.status = "DRAFT"]} ELSE {}

-----------------------------------------------------------------------------
(* Changes: read and apply, then save. *)

readProduct(e, rows) ==
  /\ ~productEdits[e].reading
  /\ \E row \in rows : row # product /\ productEdits' = [productEdits EXCEPT ![e] = [reading |-> TRUE, row |-> row]]
  /\ UNCHANGED product

startDetails(e) == \E slug \in Slugs : readProduct(e, editDetails(product, slug))
startAdd(e) == \E v \in ProductVariantIds, sku \in Skus, o \in Options : readProduct(e, addVariant(product, v, sku, o))
startUpdate(e) == \E v \in ids(product), sku \in Skus, o \in Options : readProduct(e, updateVariant(product, v, sku, o))
startVariantStatus(e) == \E v \in ids(product) : readProduct(e, discontinueVariant(product, v) \cup reactivateVariant(product, v))
startLifecycle(e) == readProduct(e, publish(product) \cup archive(product) \cup reactivate(product))

\* Mutant: the save does not compare the version.
isSameVersionNot(row) == TRUE
\* updateMany where version: a change of a product saved meanwhile answers VersionConflictError.
isSameVersion(row) == row.version = product.version

saveProduct(e) ==
  LET row == productEdits[e].row IN
  /\ productEdits[e].reading /\ product.version < MaxProductVersion
  /\ productEdits' = [productEdits EXCEPT ![e] = NoProductEdit]
  /\ product' = IF isSameVersion(row) THEN [row EXCEPT !.version = @ + 1] ELSE product

ProductsNext ==
  \E e \in ProductEditors :
    startDetails(e) \/ startAdd(e) \/ startUpdate(e) \/ startVariantStatus(e) \/ startLifecycle(e) \/ saveProduct(e)

ProductsSpec == ProductsInit /\ [][ProductsNext]_productsVars

-----------------------------------------------------------------------------
(* Properties. *)

\* BR-PRD-12: after its first publication nothing changes the slug of a product, nor the SKU or the options of a
\* variant, not even a change that read the product while it was still a draft; and no variant goes away.
PublishedKeepsIdentity ==
  [][product.firstPublished =>
       /\ product'.slug = product.slug /\ product'.firstPublished
       /\ \A v \in ids(product) : /\ v \in ids(product')
                                  /\ product'.variants[v].sku = product.variants[v].sku
                                  /\ product'.variants[v].options = product.variants[v].options]_productsVars

\* BR-PRD-12: every variant of a product, discontinued or not, has options with the same names.
OneSetOfOptionNames ==
  \A v, u \in ids(product) : product.variants[v].options.names = product.variants[u].options.names

\* Concurrent changes leave a product with one set of option names, and a published one with its identity.
ProductsStaySold == []OneSetOfOptionNames /\ PublishedKeepsIdentity
=============================================================================
