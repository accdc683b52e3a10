SPECIFICATION LibrarySpec
CONSTANTS
  a1 = a1
  d1 = d1
  d2 = d2
  u1 = u1
  ka = ka
  k1 = k1
  ku = ku
  t1 = t1
  t2 = t2
  t2b = t2b
  tu = tu
  None = None
  Arxiv = {a1}
  Doi = {d1, d2}
  Url = {u1}
  Key = {ka, k1, ku}
  Title = {t1, t2, t2b, tu}
  Work <- Works
  TitleOf <- Titles
  KeyOf <- Keys
  Alike <- Similar
  Stating = {a1, d1, d2}
  Wrapped = {d1}
  Request <- Requests
  MaxImports = 2
  MaxCalls = 3
  MaxCrashes = 0
INVARIANTS
  QuoteOfItsSource
CHECK_DEADLOCK FALSE
