SPECIFICATION StockOnly
CONSTANTS
  Orders = {"o1", "o2"}
  Variants = {"a"}
  Warehouses = {1, 2}
  First = 1
  Want <- OneVariant
  Files <- NoFiles
  s1 = s1  s2 = s2  Staff = {s1, s2}
  Priorities = {1}
  MaxOnHand = 1
  MaxEdits = 1
  None = None
  CategoryIds = {k1, k2}  NoCategory = NoCategory  CategoryEditors = {e1, e2}
  ProductVariantIds = {1, 2, 3}  ProductEditors = {1, 2}  Slugs = {"a", "b"}  Skus = {"s", "t"}
  OptionNames = {"talla", "color"}  OptionValues = {1}  MaxProductVersion = 4
  Images = {i1, i2, i3}  MAX_IMAGES_PER_PRODUCT = 2
  ImportFiles <- SomeFiles  Brands = {"acme"}  CategoryNames = {"shirts"}  NoGtin = 0  NoTitle = ""  OldProduct <- OldOne
  MaxCatalogChanges = 1
  Instances = {n1, n2}  CacheKeys = {x1, x2}  MAX_ENTRIES = 1  TTL = 1  MaxCacheTime = 2  MaxVersions = 1
  StateCodes = {1, 2}  Keys3 = {1, 2}  GeoFiles <- SomeGeoFiles  Importers = {g1, g2}  MaxGeoImports = 3
PROPERTIES DeactivatedForGood
