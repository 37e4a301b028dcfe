SPECIFICATION Spec
CONSTANTS
  i1 = i1
  Slots = {t1, t2}
  Members = {1, 2}
  InitialRole <- OneOutsider
  Invites = {i1, i2}
  Invitee <- Second
  InvitedRole <- FirstAsOwner
  Conversations = {c1}
  Nobody = Nobody
  NoRequest = NoRequest
SYMMETRY SlotSymmetry
INVARIANTS
  LastOwnerStays
  LockersDoNotDeadlock
  AssigneeIsMember
  RemovalIsNotRefused
PROPERTIES
  OwnersDecide
  AdmittedByValidInvite
