SPECIFICATION FairSpec
CONSTANTS
  ayse = ayse
  Users <- OneUser
  HasPassword <- OneUser
  Links = {l1, l2, l3}
  Slots = {t1, t2}
  NoLink = NoLink
  Nothing = Nothing
  Faults = {"mailAck"}
INVARIANTS
  TypeOK
PROPERTIES
  LinkWorksOnce
  DeliveredLinkLasts
  NoUnusableLinkRemains
CHECK_DEADLOCK FALSE
