SPECIFICATION SpecPanel
CONSTANTS
  Runs = {r1}
  Nothing = Nothing
  Life <- LifeOfARun
  Slots = {1, 2}
  MaxPolls = 1
  MaxChanges = 3
  MaxFaults = 1
INVARIANTS
  TypeOKPanel
PROPERTIES
  NeverBack
  CardsFollow
  SubmittedShows
