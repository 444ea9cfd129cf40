SPECIFICATION Spec
CONSTANTS
  p1 = p1
  p2 = p2
  Persons <- MCPersons
  NoTarget = NoTarget
  NoBox = NoBox
  Width = 64
  Height = 48
  StableFrames = 3
  Places <- MCFarPlaces
  Conf <- MCConf
  OwnLikeness <- MCAnyLikeness
  OtherLikeness <- MCNoLikeness
  Stale = 1
  Retain = 2
  MaxLost = 1
PROPERTIES FarPersonNotTaken
