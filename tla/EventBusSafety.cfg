SPECIFICATION Spec
CONSTANTS
  p1 = p1  p2 = p2  p3 = p3  s1 = s1  s2 = s2  v1 = v1
  state = state  custom = custom  Tail_ = Tail_  None = None
  Publishers <- TwoPlugins
  Sequenced <- TwoPlugins
  Subs <- Both
  Plugins <- OnePlugin
  Owner <- BothOwner
  Accepts <- BothAccept
  Topics <- MCTopics
  StateTopics <- MCStateTopics
  Capacity = 1
  MaxPublishes = 2
SYMMETRY PluginSymmetry
INVARIANTS NoRowMissed ProjectedFirst NoLostWake
CHECK_DEADLOCK FALSE
