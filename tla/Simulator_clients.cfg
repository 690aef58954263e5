SPECIFICATION Spec
CONSTANTS
  Null = Null
  Missing = Missing
  k1 = k1
  k2 = k2
  t1 = t1
  p1 = p1
  d1 = d1
  Clients = {k1, p1, d1}
  Proxy = p1
  Behind = {d1}
  Askers = {k1, d1}
  Telnets = {t1}
  Families = {"volume", "groups", "queries"}
  MaxRequests = 2
  MaxStarts = 1
  ZonesMax = 2
  GroupsMax = 1
  SourcesMax = 2
  FavoritesMax = 1
  EqualizerPresetsMax = 1
  EqualizerBandsMax = 2
  NameLengthMax = 2
  Backups <- MCBackup
  Volumes <- MCVolumes
  Balances <- MCLevels
  Tones <- MCLevels
  BandLevels <- MCLevels
  Lowpasses <- MCFrequencies
  Highpasses <- MCFrequencies
  Brightnesses <- MCBrightnesses
  Names <- MCNames
  ZoneDefaults <- MCZoneDefaults
  GroupDefaults <- MCGroupDefaults
  PresetDefaults <- MCPresetDefaults
  NameDefaults <- MCNameDefaults
  PanelDefaults <- MCPanelDefaults
  InfraredDefaults <- MCInfraredDefaults
  NetworkDefaults <- MCNetworkDefaults
INVARIANTS
  ClientsFollowServer
  GroupsFollowZones
PROPERTIES
  LeftWaitingWhenAlreadySet
CHECK_DEADLOCK FALSE
