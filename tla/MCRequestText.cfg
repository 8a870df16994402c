SPECIFICATION Spec
CONSTANTS
  Texts <- SomeTexts
  Datagrams <- SomeDatagrams
  IntLimit = 4
INVARIANTS TypeOK TruthNeverWaits BinaryNotAnswered
 
