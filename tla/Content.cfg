SPECIFICATION Spec
CONSTANTS
  ann = ann
  annLee = annLee
  vic = vic
  Users <- Three
  Editors <- TwoEditors
  Name <- Names
  Bodies <- Texts
  Assignees <- OnlyAnn
  Teams <- NobodyOrVic
  TicketIds = {t1, t2}
  MilestoneIds = {m1}
  Requests = {r1, r2}
  MaxBegun = 3
  MaxComments = 2
  MaxKey = 2
  None = None
CHECK_DEADLOCK FALSE
SYMMETRY RequestSymmetry
INVARIANTS TypeOK CommentsReachParticipants CommentsCounted TicketKeysNeverCollide
