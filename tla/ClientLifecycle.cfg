SPECIFICATION ClientSpec
CONSTANTS
  Consumers = {i1}
  Iterators = {i1}
  MaxConnects = 1
  MaxSends = 0
PROPERTIES LifecycleOrder
