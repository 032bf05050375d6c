SPECIFICATION LinkSpec
CONSTANTS
  Me = "me"
  Events <- Items
  NotifCap = 1
  SwarmCap = 1
  CommandCap = 1
  UserCap = 1
  MaxEvents = 2
  MaxFetches = 1
INVARIANTS
  TasksContinue
CHECK_DEADLOCK FALSE
