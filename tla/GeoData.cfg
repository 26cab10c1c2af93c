SPECIFICATION GeoSpec
CONSTANTS
  KindOrder <- OneFile
  Own = Own
  Garbage = Garbage
  None = None
  MaxPublished = 3
  MaxOutside = 2
  MaxPosted = 2
PROPERTIES
  FilesAreReplaced
  SuccessIsUpToDate
  WaitsEnd
