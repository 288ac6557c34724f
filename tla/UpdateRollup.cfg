CONSTANTS
  FlushInterval = 20
  Unset = Unset
SPECIFICATION FairSpec
PROPERTIES
  OneEntryPerBurst
  PausesFlush
