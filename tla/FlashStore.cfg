SPECIFICATION MCSpec
CONSTANTS
  Sectors = {s0, s1}
  Lows = {x555, x2aa}
  At555 = x555
  At2AA = x2aa
  Bytes <- MCBytes
  Wrap = 7
  Factory <- MCFactory
  None = none
  Partial = partial
  MaxOps = 2
  Files = {f1, f2, f3}
  Searched <- MCSearched
  First = f1
  Second = f2
  Cards = {c1, c2}
INVARIANTS FileWhole ChangesNoticed StopSaves NamedRomRuns
CONSTRAINT FewProgrammed
PROPERTIES FlashIsNor ChangesSaved CardTaken
