SPECIFICATION FairSpec
CONSTANTS
  p1 = p1  p2 = p2  p3 = p3  s1 = s1  s2 = s2  v1 = v1
  state = state  custom = custom  Tail_ = Tail_  None = None
  Publishers <- Mixed
  Sequenced <- TwoPlugins
  Subs <- PluginSub
  Plugins <- OnePlugin
  Owner <- PluginOwner
  Accepts <- PluginAccepts
  Topics <- OneTopic
  StateTopics <- MCStateTopics
  Capacity = 1
  MaxPublishes = 3
PROPERTIES QueuesDrained EveryPublishReturns HonestChannels
CHECK_DEADLOCK FALSE
