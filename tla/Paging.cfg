SPECIFICATION PagingSpec
CONSTANTS
  N_PDE = 4
  N_PTE = 2
  MaxPage = 7
  Nums = {1, 2}
  Found <- MCFound
INVARIANTS
  BlocksTranslate
  StaleOnlyWhenReused
  EmptyTablesGone
