SPECIFICATION CountersSpec
CONSTANTS
  NumBooks = 2
  Chapter = {c1}
  BookOf <- MCBookOf
  Rater = {u1, u2}
  MaxRating = 1
  Request = {r1, r2}
  Nothing = Nothing
  BatchSize = 1
  MaxAttempts = 2
  MaxStalls = 1
  MaxDrift = 1
SYMMETRY Symmetry
INVARIANT ChapterCountExact
INVARIANT RatingsExact
INVARIANT CreditsExact
INVARIANT RecountCovers
CHECK_DEADLOCK FALSE
