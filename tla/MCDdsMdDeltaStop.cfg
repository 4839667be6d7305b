SPECIFICATION Spec
CONSTANTS
  MaxReaders = 1
  MaxRecorded = 0
PROPERTIES
  StopsWhenAsked
