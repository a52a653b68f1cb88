SPECIFICATION FieldsSpec
CONSTANTS
  why = why  whyElse = whyElse  hard = hard  Hard = Hard  HARD = HARD
  Easy = Easy  easy = easy  odd = odd  day = day
  Empty = Empty
  Unclassified = Unclassified
  FieldValues = {why, whyElse, hard, Hard, HARD, Easy, easy, odd, day, Empty, Unclassified}
  Folded <- Lower
  Possible <- Listed
  FieldCalls <- SomeFieldCalls
  Had <- SomeHad
INVARIANT ExplicitEntryWins
CHECK_DEADLOCK FALSE
