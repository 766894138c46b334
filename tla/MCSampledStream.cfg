CONSTANTS
  Field <- MCField
  Value <- MCValue
  Offered <- MCOffered
  Supported <- MCSupported
  Preferred <- MCPreferred
  Channels <- MCChannels
  Expected <- MCExpected
  Device = {input}
  Processing = {"time"}
  Seconds = {2}
  MaxCalls = 1
  MaxWrites = 2
  MaxCards = 1
  MaxWirings = 1
  NoDevice = NoDevice
  NoData = NoData
  NoSource = NoSource
  NoTask = NoTask
  NoSeries = NoSeries
  input = input
SPECIFICATION StreamFairSpec
CHECK_DEADLOCK FALSE
INVARIANTS CaptureIsSound DisplayIsSound
PROPERTIES DisplayKeepsUp StopStops
