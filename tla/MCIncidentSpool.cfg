SPECIFICATION FairSpoolSpec
CONSTANTS
  Ids = {1, 2, 3, 4}
  MaxIncidents = 2
  MaxSpoolFiles = 2
  MaxThrown = 1
  MaxDeaths = 1
INVARIANTS IncidentKept AcknowledgedStays
PROPERTIES SpoolDrains
