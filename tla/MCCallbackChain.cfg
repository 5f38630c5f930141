\* Three callbacks of one chain and three of a CAN interface.
CONSTANTS
  Root = root
  OfRoot = {a1, a2, a3}
  OfCAN = {c1, c2, c3}
  NULL = null
SPECIFICATION Spec
INVARIANTS TypeOK ChainsInOrder LinksEnd CallsWhatFollows
