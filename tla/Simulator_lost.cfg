SPECIFICATION Spec
CONSTANTS
  Null = Null
  Missing = Missing
  k1 = k1
  k2 = k2
  t1 = t1
  p1 = p1
  d1 = d1
  Clients = {k1, k2}
  Proxy = p1
  Behind = {}
  Askers = {k1}
  Telnets = {}
  Families = {"sound"}
  MaxRequests = 1
  MaxStarts = 2
  ZonesMax = 2
  GroupsMax = 1
  SourcesMax = 2
  FavoritesMax = 1
  EqualizerPresetsMax = 1
  EqualizerBandsMax = 2
  NameLengthMax = 2
  Backups <- MCNoBackup
  Volumes <- MCVolumes
  Balances <- MCLevels
  Tones <- MCLevels
  BandLevels <- MCLevels
  Lowpasses <- MCFrequencies
  Highpasses <- MCFrequencies
  Brightnesses <- MCBrightnesses
  Names <- MCNames
  ZoneDefaults <- MCZoneDefaults
  GroupDefaults <- MCGroupDefaults
  PresetDefaults <- MCPresetDefaults
  NameDefaults <- MCNameDefaults
  PanelDefaults <- MCPanelDefaults
  InfraredDefaults <- MCInfraredDefaults
  NetworkDefaults <- MCNetworkDefaults
INVARIANTS
  SavedIsComplete
CHECK_DEADLOCK FALSE
