SPECIFICATION Spec
CONSTANTS
  SessionIds <- MCSessionIds
  u1 = u1
  u2 = u2
  Picture = {1, 2}
  GpuEffect = {"sepia"}
  CpuEffect = {"canny"}
  NoEffect = "none"
  NoFrame = NoFrame
  NoWindow = NoWindow
  MaxTimers = 1
  Texts = {"hello"}
  Prompts = {""}
  MaxMessages = 4
  MaxRequests = 2
  Categories = {"app", "perf"}
  LogFiles = {"a.log", "b.log"}
  Media = {"a", "b", "broken"}
  Playable = {"a", "b"}
  Streams = {"a", "b"}
  Cameras = {"front", "back"}
  Consumers = {"c1", "c2"}
  EveryN = {1, 2, 3}
  MaxFps = {2, 3}
  Second = 7
  MaxFrames = 5
  MaxTicks = 6
  Capacity = 2
  Stages = {"decode", "draw"}
  Times = {1, 4}
  MaxScopes = 2
  Shaders = {"", "sepia", "wave", "bad"}
  Compiling = {"sepia", "wave"}
SYMMETRY Symmetry
CONSTRAINT Bound
CHECK_DEADLOCK FALSE
INVARIANTS DisplayIsActive RequestsAreSound ConsoleIsTrue SourceIsSound MetersAreTrue EveryTextureReturns SurfacesAreRight FrameIsShown
PROPERTIES PlaysWhatIsNamed RunsTheEditedShader BrokenWindowGoes
