SPECIFICATION EventSpec
CONSTANTS
  owner = owner
  guest = guest
  Public = Public
  WebIds = {owner, guest}
  Segments <- AllSegments
  Urls <- PostUrls
  Reqs = {r1}
  MaxInFlight = 1
  Methods = {"PUT", "POST", "PATCH", "DELETE", "PUT_acl", "PATCH_acl", "DELETE_acl"}
  Callers = {owner, guest}
  AclUrls <- PostAcls
  AclDocs <- InboxDocs
  PatchParts = {{}, {"inserts"}, {"where", "inserts"}, {"deletes"}}
  AclPatches <- TwoPatches
  FreshNames <- PostFresh
  OwnerDoc <- OwnerAcl
  Faults = FALSE
INVARIANTS
  ListingIsExact EventsTellTheChange
PROPERTIES
  PostIsFresh Answered
