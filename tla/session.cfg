SPECIFICATION FairSpec
CONSTANTS
  MaxTries = 2
  Trouble = 5
INVARIANTS
  PromptedOnce
  NoAgentLeftBehind
  UndisturbedIsPrompted
PROPERTIES
  NameIsFreed
