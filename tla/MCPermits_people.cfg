CONSTANTS
  admin = admin
  ann = ann
  ben = ben
  front = front
  back = back
  db = db
  line = line
  shop = shop
  Users <- MCUsers
  Projects <- MCProjects
  Kind <- MCKind
  Given <- MCGiven
  Role <- MCRole
  Assigned <- MCAssigned
  Owned <- MCOwned
  Requests = {r1, r2}
  Operations = {"WriteEntity", "CreateInProject", "LinkProject", "retireLink", "AssignProject", "ReleaseProject", "RetireProject", "UpdateProject", "SetUserRole"}
  MaxRequests = 3
  Accounts = {u1, u2}
  Persons = {p1}
  None = None
  Calls = {r1, r2}
  Attempts = 2
  MaxViews = 1
SPECIFICATION PeopleSpec
SYMMETRY Symmetry
CHECK_DEADLOCK FALSE
INVARIANTS ErasureOutlivesLaterRequests PermitIsRecent
PROPERTIES AdministratorRemains NoEscalation
