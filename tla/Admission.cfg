\* Every fixture, and every diagnosis of a damaged part, with and without
\* repair, against children that hang or die and a deadline at any time.
SPECIFICATION FairSpec
CHECK_DEADLOCK FALSE
CONSTANTS
  File <- MCFile
  RepairModes = {TRUE, FALSE}
INVARIANTS
  TypeOK
  FixturesAreJudged
  NothingFabricated
PROPERTIES
  ImplementsCall
  Returns
