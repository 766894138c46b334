CONSTANTS
  Picture = {1, 2}
  GpuEffect = {"sepia"}
  CpuEffect = {"canny"}
  NoEffect = "none"
  NoFrame = NoFrame
  NoWindow = NoWindow
  MaxTimers = 1
SPECIFICATION OutputSpec
CHECK_DEADLOCK FALSE
INVARIANTS HiddenWindowComesBack
