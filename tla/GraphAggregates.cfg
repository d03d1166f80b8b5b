SPECIFICATION ASpec
CONSTANTS
  None = None
  a = a
  b = b
  Families <- AllFamilies
  MaxU64 = 6
INVARIANTS UniqueExact LinksJudged KnowledgeSound PagesTile ReferencedExact
CHECK_DEADLOCK FALSE
