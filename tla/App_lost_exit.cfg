SPECIFICATION AppSpec
CONSTANTS
  Sources = {"script", "watch"}
  MaxBuilds = 3
CHECK_DEADLOCK FALSE
PROPERTIES
  NoRebuildAfterExit
