SPECIFICATION FairSpec
CONSTANTS
  create = create
  transfer = transfer
  o1 = o1
  o2 = o2
  o3 = o3
  Names = {create, transfer}
  Objects = {o1, o2, o3}
  Initial <- MCInitial
  None = None
  Executors = {x1, x2}
  Edited = {transfer}
  MaxChanges = 2
INVARIANTS TypeOK OneSchedulePerCall
PROPERTIES ChangeReachesAll ChangeEnds CallsEnd
