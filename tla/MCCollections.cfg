SPECIFICATION Spec
CONSTANTS
  Book = {b1, b2}
  Collection = {fav, sys, u1, u2}
  Favorites = {fav}
  System = {sys}
  Request = {r1, r2}
  None = None
  BookLimit <- MCBookLimit
  UserLimit = 1
  MaxItems = 2
SYMMETRY Symmetry
INVARIANT BookCountExact
INVARIANT FavoritesExact
INVARIANT BookLimitKept
INVARIANT UserLimitKept
INVARIANT ItemsDistinct
INVARIANT DeadlockNeedsItemFirst
CHECK_DEADLOCK FALSE
