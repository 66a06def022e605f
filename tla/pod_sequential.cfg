SPECIFICATION Spec
CONSTANTS
  owner = owner
  guest = guest
  Public = Public
  WebIds = {owner, guest}
  Segments <- AllSegments
  Urls <- NamedUrls
  Reqs = {r1}
  MaxInFlight = 1
  Methods = {"PUT", "POST", "PATCH", "DELETE", "PUT_acl", "PATCH_acl", "DELETE_acl"}
  Callers = {owner, guest}
  AclUrls <- DeepAcls
  AclDocs <- GuestDocs
  PatchParts = {{"inserts"}, {"deletes"}}
  AclPatches <- OnePatch
  FreshNames <- OneFresh
  OwnerDoc <- OwnerAcl
  Faults = TRUE
INVARIANTS
  NoSlashPair
  DocumentIsLinked
PROPERTIES
  PolicyNeedsControl
  RemovalNeedsWrite
  MemberNeedsAppend
