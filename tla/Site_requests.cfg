SPECIFICATION Spec
CONSTANTS
  a = a
  b = b
  d = d
  e = e
  org = org
  x = x
  Local = Local
  weights = weights
  s1 = s1
  s2 = s2
  h1 = h1
  h2 = h2
  Names <- MCNames
  Slugs = {weights}
  Subjects = {x}
  NoSubject = Local
  MaxAccounts = 4
  MaxOrgs = 2
  MaxSessions = 4
  MaxPasswords = 2
  Handlers = {h1, h2}
  Servers = {s1, s2}
  MaxRequests = 2
  MaxFailures = 1
  MaxStates = 1
  SeedUsers <- MCUsers
  SeedOrgs <- MCOrgs
  SeedMembers <- MCMembers
  SeedRepos <- MCRepos
  SeedFailures <- MCFailures
SYMMETRY MCSymmetry
INVARIANTS TypeOK ActiveAdministratorStays OneOwner NamesDistinct OneAccountPerSubject RepositoriesUnderTheirOwner OldSessionsEnd StateUsedOncePerServer FailuresBounded
PROPERTIES MembershipKeepsAnAdmin
CHECK_DEADLOCK FALSE
