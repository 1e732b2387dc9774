SPECIFICATION Spec
CONSTANTS
  QueueSize = 4
  Shapes <- Programs
  ErrorTokens = 4
INVARIANTS SourceOrder BindingForms GroupsByPrecedence DumpIsFaithful
PROPERTY AcceptsGrammar
