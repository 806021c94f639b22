CONSTANTS
  KeyMod = 8
  KeyChunk = 2
  KeyBuffer = 6
  KeyLast = 9
  KeyLen = 2
  CryptSenders = {1, 2}
  CryptReporter = 1
  CryptSizes = {1, 2, 3}
  CryptBlock = 2
  CryptRefresh = 5
  CryptMax = 14
  CryptPackets = 3
  StatsMod = 8
  StatsReceived = {1, 2}
  StatsLost = {0, 1}
  StatsJoin = {0, 5}
  StatsPushes = 3
  StatsLoss = 50
  FeedbackSticks = {0, 1}
  FeedbackButtons = {"cross", "box"}
  FeedbackQueue = 2
  FeedbackHistory = 3
  FeedbackResend = 1
  FeedbackMax = 4
  DiscoveryIds = {1, 2, 3}
  DiscoveryData = {1, 2}
  DiscoveryHosts = 2
  DiscoveryDrop = 1
  DiscoveryPings = 4
  InputPad = {"dpad", "mic"}
  InputKeys = {"dpad"}
  InputShortcut = {"touchpad"}
  InputFingers = {"f1"}
  InputPlaces = 1
  InputIds = 2
  InputTouches = 1
  EffectsPads = {1, 2}
  EffectsDual = {1}
  EffectsLooks = {0, 1}
  EffectsPackets = 1
  EffectsMax = 4
  MeasureMin = 1
  MeasureMax = 4
  MeasureRetries = 2
  MeasurePings = 2
  MeasurePaths = {1, 2, 3, 4}
  RudpMod = 16
  RudpSenders = {1, 2}
  RudpStarts = {2}
  RudpCount = 3
  RudpBuffer = 2
  RudpTries = 1
  HandshakeCalls <- ConnectionCalls
  HandshakeTries = 3
  HandshakeFaults = 4
  RegistParts = 2
  SearchListed = {"a", "b"}
  SearchSix = {"a"}
  SearchGuessed = {"b"}
  SearchOthers = {"c"}
  SearchExtra = 1
  SearchSlots = 2
  SearchTries = 1
  SearchMessages = 3
  PunchCopies = 3
  PortsMax = 31
  PortsKnown = 4
  PortsDynamic = 24
  PortsAhead = 3
  PortsGuesses = 5
  PortsLocal = 10
  PortsAddresses = 3
  PortsStarts = {6, 10, 27}
  PortsSteps <- NatSteps
  PortsJumps = {5, 17, 30}
  PortsUnseen = 4
SPECIFICATION Spec
INVARIANTS PartsTypeOK MediaInOrder KeyStreamRight ReportedAsItIs AnswersDecide ReleasedOnEveryPath
PROPERTIES PartsEnd
CHECK_DEADLOCK FALSE
