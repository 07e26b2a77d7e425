\* Three downloads, two of them for one server, that share two slots;
\* calls about the messages of that server may be refused.
CONSTANTS
  d1 = d1
  d2 = d2
  d3 = d3
  s1 = s1
  s2 = s2
  NoDownload = NoDownload
  Downloads <- ThreeDownloads
  Servers <- TwoServers
  ServerOf <- TwoForOne
  Names <- TwoNames
  Unreliable <- OneServer
  MaxSlots = 2
SPECIFICATION FairSpec
INVARIANTS
  ModsTypeOK
  SlotsOwned
  FilesAccounted
  ReportedOnce
  
PROPERTY
  DownloadsReported
