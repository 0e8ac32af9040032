CONSTANTS
  mark = mark
  other = other
  i1 = i1
  i2 = i2
  i3 = i3
  t1 = t1
  t2 = t2
  Names <- MCNames
  Marked = {mark}
  Programs <- MCNames
  Setuid = {mark}
  Inodes <- MCInodes
  Home <- MCHome
  Absent = Absent
  Tasks <- MCTasks
  Nobody = Nobody
  Unmounted = Unmounted
  MaxEdits = 2
  MaxLength = 80
SPECIFICATION Spec
SYMMETRY TaskSymmetry
INVARIANTS
  IndexIsCurrent
  SecretsStaySecret
  CoreIsShielded
  RingsAreAuthorised
  NoWritableCode
  AncestryHolds
  ContainedMounts
  MediaIsSecured
  VerdictIsRight
CHECK_DEADLOCK FALSE
