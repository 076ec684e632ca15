SPECIFICATION SpecOfOne
CONSTANTS
  Nil = Nil
  Calls = {b1}
  Posts = {p1, p2, p3}
  Global = Global
  t1 = t1
  Tenants = {t1}
  en = en
  Base = zh
  Locales = {zh, en}
  Keys = {k1}
  Texts = {x2}
  Seed = x1
  Writes = {w1, w2}
  c1 = c1
  Clients = {c1}
  View <- TenantInEnglish
  Faults = {"statement", "dropped"}
  MaxTokens = 2
  MinTokens = 1
  OverlapSentences = 1
  BlockBound = 2
  TextBound = 3
  Editors = {w1, w2}
  Platform = Platform
  ty = ty
  i1 = i1
  i2 = i2
  Types = {ty}
  Items = {i1, i2, i3}
  TypeOf <- OneType
  Seeded = {ty, i1, i2}
  Above <- SecondUnderFirst
  Overridden = {ty}
  MaxDepth = 2
  EditBound = 2
  Callers = {w1, w2}
  ConfigKeys = {k1}
  number = number
  flag = flag
  n1 = n1
  n2 = n2
  true = true
  ValueTypes = {number, flag}
  Values = {n1, n2, true}
  Ids = {1, 2, 3, 4}
  CallBound = 3
  HandlerFaults = {"dropped"}
INVARIANTS EtagTellsContent OneResult PendingIsAwaited NothingLost
  ParentsEnd ViewsMissNothing SettledViewsAgree
PROPERTIES ClientsCatchUp SplitsShorten
CHECK_DEADLOCK FALSE
