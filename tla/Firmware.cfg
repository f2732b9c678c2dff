SPECIFICATION Spec
CONSTANTS
  r1 = r1
  r2 = r2
  Acs = {"acs1", "acs2"}
  EnvAcs = "acs1"
  Fleet <- MCFleet
  Devices = {"d1", "d2"}
  Isps = {"isp1", "isp2"}
  Admin = "admin"
  Model <- MCModel
  Names = {"f"}
  Urls = {"file", "moved", "inside", "private", "loop", "stream"}
  Site <- MCSite
  Resolves <- MCResolves
  Global = {"wan"}
  FirmwareNetworks = {}
  NbiNetworks = {"lan"}
  Limit = 2
  MaxRedirects = 1
  Stored <- MCStored
  Asks <- MCAsks
  NewSettings <- MCNewSettings
  Requests = {r1, r2}
  MaxOps = 2
  None = None
INVARIANTS TypeOK FilesAreWhole WrongFileOnlyByRace BulkIsExact
SYMMETRY Symmetry
