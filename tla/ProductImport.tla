---------------------------- MODULE ProductImport ----------------------------
(***************************************************************************)
(* The bulk import of products (src/modules/catalog): a file with one row  *)
(* per variant is checked row by row, against its other rows and against   *)
(* the catalog, with one read of each kind, and then written in one        *)
(* transaction, which a dry run undoes.  Meanwhile others change the       *)
(* catalog; the unique indexes and foreign keys answer for what the checks *)
(* read too early.                                                         *)
(*                                                                         *)
(* The cells of a row that only need a form (texts, weights, sizes) are    *)
(* right or wrong together; brands and categories are labels, read by one  *)
(* statement each; the title stands for every column of a product that its *)
(* rows must agree on.                                                     *)
(***************************************************************************)
EXTENDS Naturals, Sequences, FiniteSets, SequencesExt

CONSTANTS
  ImportFiles,          \* sequences of rows: see ImportRow in MCBackOffice
  Brands, CategoryNames, \* labels
  NoGtin, NoTitle,
  OldProduct,           \* a product of before, with a variant
  MaxCatalogChanges     \* bound: changes of others

Labels == Brands \cup CategoryNames

ASSUME ProductImportAssumption ==
  /\ MaxCatalogChanges \in Nat /\ Brands \cap CategoryNames = {}
  /\ \A rows \in ImportFiles :
       rows \in Seq({rows[i] : i \in DOMAIN rows}) /\ \A i \in DOMAIN rows : rows[i].labels \subseteq Labels

LabelStatuses == {"ACTIVE", "INACTIVE", "NONE"}

VARIABLES
  listed,      \* the products and the variants of the catalog
  label,       \* the status of each brand and category
  productImport,   \* the import: its step, its file, the lines with errors, and the catalog when it began
  catalogChanges

importVars == <<listed, label, productImport, catalogChanges>>

NoImport == [step |-> "none", file |-> <<>>, dryRun |-> FALSE, errors |-> {}, quiet |-> TRUE, before |-> 0]
VariantRow(slug, sku, gtin, options) == [slug |-> slug, sku |-> sku, gtin |-> gtin, options |-> options, active |-> TRUE]

ImportInit ==
  /\ listed = [products |-> {[slug |-> OldProduct.slug, title |-> OldProduct.title, labels |-> {}]},
               variants |-> {VariantRow(OldProduct.slug, OldProduct.sku, OldProduct.gtin, {})}]
  /\ label \in [Labels -> {"ACTIVE", "INACTIVE"}] /\ Cardinality({l \in Labels : label[l] = "INACTIVE"}) <= 1
  /\ productImport = NoImport /\ catalogChanges = 0

file == productImport.file
FileLines == DOMAIN file

-----------------------------------------------------------------------------
(* The rows by themselves. *)

\* parseRow: a wrong cell is an error of its row, and a row with other cells than the header is in no product.
parseRow(rows) == {i \in DOMAIN rows : ~rows[i].wellFormed \/ ~rows[i].right}
Read(rows) == {i \in DOMAIN rows : rows[i].wellFormed}

\* productsOf: the rows of a slug are one product; the first has its data.
RowsOf(rows, slug) == {i \in Read(rows) : rows[i].slug = slug}
FileSlugs(rows) == {rows[i].slug : i \in Read(rows)}
FirstRow(rows, slug) == Min(RowsOf(rows, slug))
FirstRows(rows) == {FirstRow(rows, slug) : slug \in FileSlugs(rows)}

\* A cell after the first row is empty or says the same.
sameCell(cell, first, empty) == cell = empty \/ cell = first
productsOf(rows) ==
  {i \in FirstRows(rows) : rows[i].title = NoTitle}
    \cup {i \in Read(rows) \ FirstRows(rows) :
            LET first == rows[FirstRow(rows, rows[i].slug)] IN
            ~sameCell(rows[i].title, first.title, NoTitle) \/ ~sameCell(rows[i].labels, first.labels, {})}

\* rejectRepeated: a SKU or a GTIN of an earlier row.
rejectRepeated(rows) ==
  {i \in Read(rows) :
     \E j \in Read(rows) : j < i /\ (rows[j].sku = rows[i].sku \/ (rows[i].gtin # NoGtin /\ rows[j].gtin = rows[i].gtin))}

execute(rows, dryRun) ==
  /\ productImport.step = "none"
  /\ productImport' = [step |-> "slugs", file |-> rows, dryRun |-> dryRun, quiet |-> TRUE, before |-> [listed |-> listed, label |-> label],
                   errors |-> parseRow(rows) \cup productsOf(rows) \cup rejectRepeated(rows)]
  /\ UNCHANGED <<listed, label, catalogChanges>>

-----------------------------------------------------------------------------
(* The rows against the catalog, one query each. *)

Rejects(step, next, lines) ==
  /\ productImport.step = step
  /\ productImport' = [productImport EXCEPT !.step = next, !.errors = @ \cup lines]
  /\ UNCHANGED <<listed, label, catalogChanges>>

takenSlugs == Rejects("slugs", "skus", {i \in FirstRows(file) : \E p \in listed.products : p.slug = file[i].slug})
takenSkus == Rejects("skus", "gtins", {i \in Read(file) : \E v \in listed.variants : v.sku = file[i].sku})
takenGtinKeys ==
  Rejects("gtins", "brands", {i \in Read(file) : file[i].gtin # NoGtin /\ \E v \in listed.variants : v.active /\ v.gtin = file[i].gtin})

\* Those missing or inactive are an error of the first row of the product.
Unusable(labels) == {i \in FirstRows(file) : \E l \in file[i].labels \cap labels : label[l] # "ACTIVE"}
brandsOf == Rejects("brands", "categories", Unusable(Brands))
categoriesOf == Rejects("categories", "build", Unusable(CategoryNames))

Names(options) == {o[1] : o \in options}

\* Mutant: only the names of the options are compared.
refusedNames(done, options) == \E other \in done : Names(other) # Names(options)
\* addVariant, for options: the names of the others, and a combination of its own.
refused(done, options) == \E other \in done : Names(other) # Names(options) \/ other = options

\* build: the variants of the rows without errors, in order.
builtOptions(rows, slug, errors) ==
  FoldLeft(LAMBDA acc, row : IF row.slug # slug \/ row.line \in errors THEN acc
                             ELSE IF refused(acc.done, row.options) THEN [acc EXCEPT !.errors = @ \cup {row.line}]
                             ELSE [acc EXCEPT !.done = @ \cup {row.options}],
           [done |-> {}, errors |-> {}], [i \in DOMAIN rows |-> [slug |-> rows[i].slug, options |-> rows[i].options, line |-> i]]).errors

\* A product whose title is missing is not built.  With errors, nothing is imported.
build ==
  LET errors == productImport.errors
      built == {slug \in FileSlugs(file) : file[FirstRow(file, slug)].title # NoTitle}
      all == errors \cup UNION {builtOptions(file, slug, errors) : slug \in built} IN
  /\ productImport.step = "build"
  /\ productImport' = [productImport EXCEPT !.errors = all, !.step = IF all = {} THEN "write" ELSE "refused"]
  /\ UNCHANGED <<listed, label, catalogChanges>>

-----------------------------------------------------------------------------
(* The transaction. *)

NewProducts == {[slug |-> file[i].slug, title |-> file[i].title, labels |-> file[i].labels] : i \in FirstRows(file)}
NewVariants == {VariantRow(file[i].slug, file[i].sku, file[i].gtin, file[i].options) : i \in FileLines}

\* The unique indexes and the foreign keys, against what others committed.
Violated ==
  \/ \E p \in listed.products, q \in NewProducts : p.slug = q.slug
  \/ \E v \in listed.variants, w \in NewVariants : v.sku = w.sku \/ (v.active /\ v.gtin # NoGtin /\ v.gtin = w.gtin)
  \/ \E v, w \in NewVariants : v # w /\ v.slug = w.slug /\ v.options = w.options
  \/ \E p \in NewProducts : \E l \in p.labels : label[l] = "NONE"

\* insertNew, and the end of the transaction: a conflict or a dry run undoes it all.  The first statements keep what
\* they wrote from others, so it is as if all ran with the last.
insertNew ==
  /\ productImport.step = "write"
  /\ productImport' = [productImport EXCEPT !.step = IF Violated THEN "conflict" ELSE "imported"]
  /\ listed' = IF Violated \/ productImport.dryRun THEN listed
               ELSE [products |-> listed.products \cup NewProducts, variants |-> listed.variants \cup NewVariants]
  /\ UNCHANGED <<label, catalogChanges>>

-----------------------------------------------------------------------------
(* Others. *)

Meanwhile == productImport.step # "none" /\ catalogChanges < MaxCatalogChanges /\ catalogChanges' = catalogChanges + 1
             /\ productImport' = [productImport EXCEPT !.quiet = FALSE]

\* Another creates a product with a variant like one of the file.
createLike(i) ==
  LET row == file[i] IN
  /\ Meanwhile /\ row.right
  /\ ~\E p \in listed.products : p.slug = row.slug
  /\ ~\E v \in listed.variants : v.sku = row.sku \/ (v.active /\ v.gtin # NoGtin /\ v.gtin = row.gtin)
  /\ listed' = [products |-> listed.products \cup {[slug |-> row.slug, title |-> row.title, labels |-> {}]},
                variants |-> listed.variants \cup {VariantRow(row.slug, row.sku, row.gtin, row.options)}]
  /\ UNCHANGED label

discontinueOne(v) ==
  /\ Meanwhile /\ v.active
  /\ listed' = [listed EXCEPT !.variants = (@ \ {v}) \cup {[v EXCEPT !.active = FALSE]}]
  /\ UNCHANGED label

\* A brand or a category changes, or goes if no product has it.
setLabel(l, status) ==
  /\ Meanwhile /\ label[l] \notin {"NONE", status}
  /\ status = "NONE" => \A p \in listed.products : l \notin p.labels
  /\ label' = [label EXCEPT ![l] = status] /\ UNCHANGED listed

ImportNext ==
  \/ \E rows \in ImportFiles, dryRun \in BOOLEAN : execute(rows, dryRun)
  \/ takenSlugs \/ takenSkus \/ takenGtinKeys \/ brandsOf \/ categoriesOf \/ build \/ insertNew
  \/ \E i \in Read(file) : createLike(i)
  \/ \E v \in listed.variants : discontinueOne(v)
  \/ \E l \in Labels, status \in LabelStatuses : setLabel(l, status)

ImportSpec == ImportInit /\ [][ImportNext]_importVars

-----------------------------------------------------------------------------
(* Properties. *)

\* What creating the products and variants of the rows by hand, one by one, answers: the rules of an empty catalog but
\* for what is there.
ByHand(rows, start) ==
  FoldLeft(LAMBDA acc, row :
    LET own == {p \in acc.products : p.slug = row.slug}
        others == {v \in acc.variants : v.slug = row.slug}
        isNew == own = {}
        fits == /\ row.wellFormed /\ row.right
                /\ isNew => row.title # NoTitle /\ \A l \in row.labels : start.label[l] = "ACTIVE"
                /\ \A p \in own : /\ p \notin start.listed.products
                                  /\ row.title \in {NoTitle, p.title} /\ row.labels \in {{}, p.labels}
                /\ \A v \in acc.variants : v.sku # row.sku /\ (v.active /\ row.gtin # NoGtin => v.gtin # row.gtin)
                /\ \A v \in others : Names(v.options) = Names(row.options) /\ v.options # row.options IN
    IF ~fits THEN [acc EXCEPT !.ok = FALSE]
    ELSE [ok |-> acc.ok,
          products |-> IF isNew THEN acc.products \cup {[slug |-> row.slug, title |-> row.title, labels |-> row.labels]} ELSE acc.products,
          variants |-> acc.variants \cup {VariantRow(row.slug, row.sku, row.gtin, row.options)}],
    [ok |-> TRUE, products |-> start.listed.products, variants |-> start.listed.variants], rows)

Done == productImport.step \in {"refused", "conflict", "imported"}

\* While nobody else changes the catalog, the checks of an import, all before its first write, find exactly what
\* creating its rows by hand would be refused for: a file is imported, or rehearsed, if and only if every row could be
\* created, the catalog is then the same as by hand, and the database never has to refuse it.
ImportAsByHand ==
  Done /\ productImport.quiet =>
    LET hand == ByHand(file, productImport.before) IN
    /\ productImport.step = IF hand.ok THEN "imported" ELSE "refused"
    /\ listed = IF hand.ok /\ ~productImport.dryRun THEN [products |-> hand.products, variants |-> hand.variants] ELSE productImport.before.listed

\* Whatever others do meanwhile, an import leaves all of its file or nothing, and the catalog keeps one product per
\* slug, one variant per SKU, one active variant per GTIN, and labels that exist.
ImportIsWhole ==
  /\ productImport.step = "imported" /\ ~productImport.dryRun =>
       /\ NewProducts \subseteq listed.products
       /\ \A w \in NewVariants : \E v \in listed.variants : v = [w EXCEPT !.active = v.active]
  /\ \A p, q \in listed.products : p.slug = q.slug => p = q
  /\ \A v, w \in listed.variants :
       /\ v.sku = w.sku => v = w
       /\ v.active /\ w.active /\ v.gtin = w.gtin /\ v.gtin # NoGtin => v = w
       /\ \E p \in listed.products : p.slug = v.slug
  /\ \A p \in listed.products : \A l \in p.labels : label[l] # "NONE"

\* An import does what its staff would do by hand, all or nothing.
ProductImportHolds == ImportAsByHand /\ ImportIsWhole
=============================================================================
