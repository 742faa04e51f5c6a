SPECIFICATION FairSpec
CONSTANTS
  Size = 4
  Pusher = {control, socket}
  MaxPush = 2
CHECK_DEADLOCK FALSE
PROPERTY AcceptedIsPopped
