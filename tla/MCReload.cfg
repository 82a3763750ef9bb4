SPECIFICATION Spec
CONSTANTS
  Name = {a}
  Outsider = {o1}
  MaxRuns = 2
  MaxEntities = 2
PROPERTIES
  SweepsNoMore
  DropsWhatWasLeftOut
  EditIsRun
