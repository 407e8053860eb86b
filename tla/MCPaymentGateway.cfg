SPECIFICATION Spec
CONSTANTS
  Amounts <- MCAmounts
  Domains <- MCDomains
  Entropies <- MCEntropies
  JudgeRisks <- MCJudgeRisks
  MaxAttempts = 1
INVARIANTS TypeOK BooksAgree SourceNamesTheJudge
PROPERTIES VetoSpec
