SPECIFICATION Spec
CONSTANTS
  h1 = h1
  h2 = h2
  en = en
  de = de
  ja = ja
  Handlers = {h1, h2}
  Langs = {en, de}
  Hint = en
  NoLang = NoLang
  Absent = Absent
INVARIANTS
  ClearForgetsUnderLookups
