SPECIFICATION Spec
CONSTANTS
  owner = owner
  guest = guest
  Public = Public
  WebIds = {owner, guest}
  Segments <- AllSegments
  Urls <- TreeUrls
  Reqs = {r1, r2}
  MaxInFlight = 2
  Methods = {"PUT", "DELETE", "PUT_acl"}
  Callers = {owner}
  AclUrls <- TreeAcls
  AclDocs <- OwnerDocs
  PatchParts = {}
  AclPatches = {}
  FreshNames = {}
  OwnerDoc <- OwnerAcl
  Faults = FALSE
INVARIANT AckedPolicyLanded
