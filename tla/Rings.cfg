SPECIFICATION BothSpec
CONSTANTS
  Size = 4
  Pusher = {control}
  MaxPush = 5
  Capacity = 2
  MaxEvents = 4
  MaxLives = 2
CHECK_DEADLOCK FALSE
PROPERTIES
  ImplementsQueues
  BothDrain
