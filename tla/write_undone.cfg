SPECIFICATION WriterSpec
CONSTANTS
  File = {f1, f2}
  Tx = {t1, t2}
  Body = {empty, x}
  Empty = empty
  Absent = absent
  Racing = FALSE
  MaxEdits = 1
  MaxCrash = 1
PROPERTIES OnlyOwnIsUndone
CHECK_DEADLOCK FALSE
