SPECIFICATION Spec
INVARIANTS
  PublicationIsTrue
  RecordsAreAccounted
  KeptLinesAreTheLatest
PROPERTY PipelinesSettle
