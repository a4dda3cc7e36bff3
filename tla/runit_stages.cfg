\* the three stages, a request to halt and one to reboot, and other signals
CONSTANTS
  i1 = i1
  i2 = i2
  Exits = {"0", "100", "111", "crash"}
  Inits = {i1, i2}
  Reboots = {i1}
  Strays = {"CONT", "INT"}
  HasCad <- Both
SPECIFICATION StagesFairSpec
INVARIANT OneStage
INVARIANT RebootAsAsked
PROPERTY RequestHonoured
CHECK_DEADLOCK FALSE
