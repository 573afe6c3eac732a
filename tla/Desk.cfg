INIT Init
NEXT Next
CONSTANTS
  Calls = {c1, c2, c3}
  Seed = seed
  Accounts = {acc}
  Texts = {t1, t2}
  NoText = none
  From = en
  To = ar
  Others = {}
  MaxAwaited = 2
  Words = {w1, w2}
  Tools = {tool}
  Runs = {r1, r2}
  NoRun = norun
  MaxReads = 2
  MaxAsks = 1
  Sockets = {s1, s2}
SYMMETRY Symmetric
INVARIANTS LinkOpens SidebarFollows RefreshWorks  TranslationShown  KeepsWatching TimersFollow
CHECK_DEADLOCK FALSE
