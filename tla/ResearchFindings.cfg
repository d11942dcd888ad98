SPECIFICATION Spec
CONSTANTS
  f1 = f1
  ta = ta
  tb = tb
  e1 = e1
  e2 = e2
  e3 = e3
  r1 = r1
  r2 = r2
  u1 = u1
  u2 = u2
  doc = doc
  Findings = {f1}
  Texts = {ta, tb}
  Entities = {e1, e2, e3}
  Runs = {r1, r2}
  Users = {u1}
  Docs = {doc}
  TextsOf <- TextsIn
  DocOf <- DocIn
  Finds <- FoundSame
  UserOf <- AskedBy
  NamesOf <- NamesAtFirst
  FoundIn <- FoundFirst
  Compatible <- Admitted
  None = None
  MaxActs = 4
  MaxWork = 6
  MaxChanges = 1
INVARIANTS
  QueueIsHonest
  CuratedMentionsKept
PROPERTY
  OnlyOrphansVanish
CHECK_DEADLOCK FALSE
