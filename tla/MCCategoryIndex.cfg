CONSTANTS
  Events <- MCEvents
  Drafts <- MCDrafts
  MaxVersion = 3
  MaxOwed = 2
  NONE = NONE
SPECIFICATION Spec
INVARIANTS
  TypeOK
  QuietIndexIsCurrent
  EditsNeverFork
  ExactPreviewIsTheOutcome
