SPECIFICATION Spec
CONSTANTS
  x = x
  NULL = NULL
  Names = {x}
  MaxTokens = 6
  Texts <- MCTexts
INVARIANTS
  BindingsLexical
  AcceptsWellScoped
CHECK_DEADLOCK FALSE
