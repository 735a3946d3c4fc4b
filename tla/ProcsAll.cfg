SPECIFICATION Spec
CONSTANTS
  Missing = Missing
  Empty = Empty
  Bad = Bad
  MaxWord = MaxWord
  Junk = Junk
  Error = Error
  Undefined = Undefined
  Nil = Nil
  Executors = {e1, e2}
  Hosts <- AllHosts
  OptionLists <- Lists
  Initial = 8
  DefaultLimit = 256
  DefaultIdle = 10
INVARIANTS
  TypeOK
  NestedRestores
  QuotaFound
