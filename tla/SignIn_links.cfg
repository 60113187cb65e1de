SPECIFICATION Spec
CONSTANTS
  r1 = r1
  r2 = r2
  ann = ann
  bob = bob
  Requests <- MCRequests
  Addresses <- MCAddresses
  Clubs = {club}
  Founders = {}
  LinkLifetime = 1
  InviteLifetime = 1
  MaxTime = 2
  MaxInvites = 2
  MaxLinks = 2
SYMMETRY MCSymmetry
INVARIANTS
  TypeOK
  LinkWorksOnce
  AcceptedIsMember
  OnlyTheInvited
  SignedInIsMember
