SPECIFICATION Spec
CONSTANTS
  Capacity = 4
  Values = {1, 2, 255}
  Empty = 255
PROPERTIES ImplementsHistory ContainsTracks
