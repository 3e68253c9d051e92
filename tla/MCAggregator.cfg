SPECIFICATION FairSpec
CONSTANTS
  c1 = c1
  c2 = c2
  de = de
  en = en
  Callers = {c1, c2}
  Keys = {de, en}
  English = {en}
INVARIANTS
  TypeOK
  CancelIsPrivate
  FetchedOnce
PROPERTY
  EverySearchReturns
  HonestSearch
