\* Three contact pages of which two are tried, two record types with two endpoints each.
SPECIFICATION FairSpec
CONSTANTS
  Technologies <- MCTechnologies
  Noise = {3}
  MaxContactPages = 2
  MaxEmails = 2
  Pages <- MCPages
  Texts <- MCTexts
  LinkLists <- MCLinkLists
  Types = {A, MX}
  Endpoints = 2
INVARIANTS
  TypeOK
  LoopsMatchReference
  ReturnedResultIsWhole
PROPERTIES
  ScanEnds
CHECK_DEADLOCK FALSE
