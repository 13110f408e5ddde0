SPECIFICATION Spec
CONSTANT Files <- MCFiles
INVARIANTS
  TypeOK
  RowsFaithful
  TimestampFollows
  
