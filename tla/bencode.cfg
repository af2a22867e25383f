SPECIFICATION Spec
CONSTANTS
  Base = 3
  MaxInteger = 13
  MaxTokens = 6
  Strings <- MCStrings
  Spellings <- MCSpellings
  Plain <- MCPlain
INVARIANTS
  InfoHashExact
  DigitsExact
