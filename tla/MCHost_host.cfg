\* All calls of one view, two of them, or three of a few kinds; two pixels of two
\* values that change three times, where what moved is painted anew; and the loads
\* of two views that share a worker, one redirect and two bytes of a stream each.
CONSTANTS
  Views = {v}
  DragSteps = 2
  MaxCalls = 2
  MoreCalls = 3
  MaxTasks = 1
  MaxLoads = 1
  Calls = {"run", "eval", "file", "mouse", "keys", "click", "double", "menu", "hover", "drag", "tap", "swipe", "wheel", "key", "text", "keyup", "ime", "wait", "waitfor", "bottom", "load"}
  Width = 2
  Values = {0, 1}
  None = None
  MovesUnseen = FALSE
  MaxChanges = 3
  LoaderViews <- MCViews
  Instances <- MCInstances
  Loads <- MCLoads
  Kinds <- MCKinds
  NoContext = "none"
  MaxHops = 1
  MaxClients = 1
  MaxBytes = 2
SPECIFICATION SumSpec
INVARIANTS CallsAreSound PicturesAreTrue LoadsAreSafe
PROPERTIES OverIsOver NobodyIsStranded
CHECK_DEADLOCK FALSE
