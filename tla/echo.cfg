\* A broadcast meets a body on its way.
SPECIFICATION Spec
CONSTANTS
  Courses <- AllCourses
  Orders <- FewOrders
  Messages = {"surplus", "shortage"}
  Ring = 4
  Boundary = 22
  MaxSignals = 7
  NodeSize = 1
  SignalNode = 2
  HullRadius = 1
  RadioPower = 1000
  RadioKeep = 90
  PlumePower = 500
  Gain = 1000
  NoiseFloor = 10
  FirstId = 1
  MaxNews = 2
CHECK_DEADLOCK FALSE
INVARIANT NothingOutrunsLight
