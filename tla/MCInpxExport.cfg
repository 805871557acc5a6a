SPECIFICATION Spec
CONSTANTS
  File <- MCFile
  Book <- MCBook
  Catalogue <- MCCatalogue
  Name <- MCName
  Nick <- MCNick
  Where <- MCWhere
  SplitBy <- MCSplitBy
  Datasets <- MCDatasets
  Remerged <- MCRemerged
  Tools = {"mhl", "flib", "slice"}
  Contents = {"fb2", "usr", "all"}
  Preferences = {"complement"}
  Fingerprints = TRUE
  MaxRuns = 2
  MaxStops = 1
INVARIANTS BooksListed LinesAligned AuthorsToldApart OutputsAgree
CHECK_DEADLOCK FALSE
