SPECIFICATION Spec
SYMMETRY Sym
CONSTANTS
  owner = owner
  guest = guest
  Public = Public
  WebIds = {owner, guest}
  Segments <- AllSegments
  Urls <- TreeUrls
  Reqs = {r1, r2}
  MaxInFlight = 2
  Methods = {"PUT", "DELETE", "PUT_acl", "PATCH_acl", "DELETE_acl"}
  Callers = {owner}
  AclUrls <- TreeAcls
  AclDocs <- OwnerDocs
  PatchParts = {}
  AclPatches <- OnePatch
  FreshNames = {}
  OwnerDoc <- OwnerAcl
  Faults = TRUE
INVARIANTS TypeOK AuxHasSubject MembersHaveMarker
PROPERTIES PolicyDiesWithSubject PolicyIsWhole
