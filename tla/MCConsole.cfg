SPECIFICATION ConsoleLiveSpec
CONSTANTS
    MaxWindows = 2
INVARIANTS
  EnabledIsAccepted
  BeatIsOfTheWindow
PROPERTIES
  OperatorSeesTheHalt
