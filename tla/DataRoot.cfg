SPECIFICATION Spec
CONSTANTS
  Root = {a, b}
  a = a
  b = b
  Default = a
  NoRoot = NoRoot
  MaxVersion = 1
  MaxTree = 4
  MaxBegin = 2
  MaxCrash = 1
  MaxFault = 1
  MaxDetach = 1
  MaxReplace = 1
INVARIANT TypeOK
INVARIANT NobodyWritesElsewhere
PROPERTY HomeSpec
PROPERTY ForeignTreesSurvive
PROPERTY DismissedStaysQuiet
