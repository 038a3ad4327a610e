SPECIFICATION MCSpec
CONSTANTS
  Joints = {J1, J2}
  Offered <- MCOffered
  Nobody = Nobody
  Cycles = 2
  Packets = 2
  MaxCalls = 2
  MaxFaults = 1
INVARIANTS
  CommandsAreOfOneCycle
  StatesAreWhole
  MessagesAreWhole
  SettingsHold
PROPERTIES
  CallbackReturns
  BroadcastGoesOn
