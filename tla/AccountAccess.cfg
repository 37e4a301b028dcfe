SPECIFICATION Spec
CONSTANTS
  omer = omer
  nil = nil
  again = again
  new = new
  Users <- People
  InitialRole <- Tenant
  Invites <- Letters
  Invitee <- To
  InvitedRole <- AsRole
  Slots = {t1, t2}
  NoSlot = NoSlot
  NoUser = NoUser
  NoInvite = NoInvite
  MaxPasswords = 2
INVARIANTS
  TypeOK
  SessionIsEarned
  OneFirstOwner
PROPERTIES
  OnlyResetsReplace
  RecoveryIsLastResort
CHECK_DEADLOCK FALSE
