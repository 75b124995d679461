CONSTANTS
  ada = ada
  bob = bob
  cyd = cyd
  hr = hr
  r1 = r1
  r2 = r2
  Users <- MCUsers
  Depts = {hr}
  AdminEmails = {}
  DefaultDepts = {hr}
  Requests = {r1, r2}
  Nobody = Nobody
  MaxRequests = 3
  StartStates <- MCStartStates
SYMMETRY Symmetry
SPECIFICATION Spec
PROPERTIES ActiveAdminRemains OwnersAnswerToAdmins
CHECK_DEADLOCK FALSE
