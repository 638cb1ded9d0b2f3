SPECIFICATION Spec
CONSTANTS
  Worlds <- MCWorlds
  Default <- MCDefault
  MEMBER_MAX_COUNT = 3
INVARIANTS
  LayoutSound
  NearestSlot
  StackHeld
PROPERTIES
  HandlesStay
