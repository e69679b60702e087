SPECIFICATION Spec
CONSTANTS
  MaxRequests = 2
  Chains <- MCChains
  MaxLength = 3
  MaxConnections = 2
INVARIANTS
  TypeOK
  AnsweredOnce
  ValidatedBody
  NothingRunsOn
  TransportsAgree
PROPERTIES
  HandlersEnd
CHECK_DEADLOCK FALSE
