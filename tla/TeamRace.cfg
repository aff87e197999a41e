\* Two overlapping requests of the users of one organization.
SPECIFICATION Spec
CONSTANTS
  ana = ana
  ben = ben
  c1 = c1
  i1 = i1
  r1 = r1
  r2 = r2
  None = None
  Users = {ana, ben}
  PlatformAdmins = {ben}
  Clients = {c1}
  Invitations = {i1}
  OfferedRoles = {"agency_owner", "agency_operator"}
  Requests = {r1, r2}
SYMMETRY MCSymmetry
INVARIANTS
  ManagerRemains
  SpentOnceUnlessOutrun
  AdmissionExplained
  AccessNeedsMembership
CHECK_DEADLOCK FALSE
