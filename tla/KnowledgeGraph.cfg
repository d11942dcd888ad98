SPECIFICATION Spec
CONSTANTS
  e1 = e1
  e2 = e2
  e3 = e3
  ada = ada
  adah = adah
  mail = mail
  doc = doc
  card1 = card1
  curator = curator
  Entities = {e1, e2, e3}
  Names = {ada, adah}
  Emails = {mail}
  Docs = {doc}
  Contacts = {card1}
  Cards <- OneCard
  Text <- DocText
  Alike <- AllAlike
  Policies <- TwoPolicies
  MaxDecisions = 2
  MaxChanges = 3
  Admissions <- ClearCases
  Curator = curator
  None = None
SYMMETRY Symmetry
INVARIANTS
  CorrectionsHold
  NothingRefersToRetired
  RejectedPairsNotOffered
PROPERTIES
  ConfirmedPreserved
CHECK_DEADLOCK FALSE
