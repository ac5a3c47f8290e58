SPECIFICATION PartsSpec
CONSTANTS
  Files = {"clock", "net", "lib"}
  Libraries = {"lib"}
  Broken = {}
  Clock = "clock"
  Settings = {"Digital"}
  MaxProcs = 3
  MaxEvents = 3
  ConfSections = {"Global", "Clock"}
  ConfKeys = {"mode", "date", "; note"}
  ConfValues = {"10:30", "10", "]", "blank"}
  Comments = {"; note"}
  Bracketed = {"]"}
  Cut <- CutShort
  Given = {"10:30", "]"}
  UserFiles <- SmallFiles
  MaxItems = 3
  MenuConfigs = 2
  MenuKeys = 4
  FontChars = {32, 65, 66}
  FontFaces <- SmallFaces
  FontTexts <- SmallTexts
  TextColumns = 20
  FirstAlloc = 4
  DialHours = {4, 7, 8, 12}
  MaxHeld = 2
  PanelColumns = 16
  PanelRows = 11
  PanelOffset = 2
  Heights = {0, 60}
  MaxClicks = 2
  CatColumns = 2
  CatLines = 2
  MaxText = 6
INVARIANTS
  OneDaemon
  PluginsKept
  ClockRemembers
  MenuShown
  FiguresShown
  PanelShown
  CatShows
PROPERTIES
  ImplementsMap
  PacketsTellAll
  SpectrumKeeps
CHECK_DEADLOCK FALSE
