------------------------------- MODULE MCPod -------------------------------
(***************************************************************************)
(* Instances of Pod for TLC.                                               *)
(***************************************************************************)
EXTENDS Pod, TLC

CONSTANTS owner, guest

Dir(s) == [segs |-> s, slash |-> TRUE]
Res(s) == [segs |-> s, slash |-> FALSE]

\* "/", "/a/", "/a/x": the smallest tree with a container to create and delete
\* under a document.
TreeUrls == {Root, Dir(<<"a">>), Res(<<"a", "x">>)}

\* Its container, whose ACL the racing requests fight over.
TreeAcls == {Dir(<<"a">>)}

\* "/", "/a", "/a/", "/a/b/", "/a/b/x": two missing ancestors, and a document in
\* the way of a container.
DeepUrls == {Root, Res(<<"a">>), Dir(<<"a">>), Dir(<<"a", "b">>),
             Res(<<"a", "b", "x">>)}

\* The two containers between them.
DeepAcls == {Dir(<<"a">>), Dir(<<"a", "b">>)}

\* "/", "/a", "/a/", "/a/b/", "/a/b/x", and a name only the server can choose,
\* as a document and as a container.
PostFresh == {Res(<<"a-uuid">>), Dir(<<"a-uuid">>)}
PostUrls == DeepUrls \cup PostFresh
\* The same with the document alone, for the larger runs.
OneFresh == {Res(<<"a-uuid">>)}
NamedUrls == DeepUrls \cup OneFresh
PostAcls == {Root, Dir(<<"a">>)}

AllSegments == {"a", "b", "x", "a-uuid"}

Auth(who, to, modes) ==
  [who |-> who, accessTo |-> to, default |-> to, modes |-> modes]

\* What provision_root_acl writes.
OwnerAcl == {Auth({owner}, {Root}, {"Read", "Write", "Control"})}

\* Whatever they are put on: everything for the owner; Write for the guest; the
\* same, but only below; Append for everyone.
OwnerAll == {Auth({owner}, Urls, {"Read", "Write", "Control"})}
GuestWrites == OwnerAll \cup {Auth({guest}, Urls, {"Write"})}
GuestBelow == OwnerAll \cup {[who |-> {guest}, accessTo |-> {},
                              default |-> Urls, modes |-> {"Write"}]}
AllAppend == OwnerAll \cup {Auth({"foafAgent"}, Urls, {"Append"})}

OwnerDocs == {OwnerAll}
GuestDocs == {GuestWrites, GuestBelow}
InboxDocs == {GuestWrites, AllAppend}

\* A patch that adds a grant, and one that replaces it.
GuestReads == {Auth({guest}, Urls, {"Read"})}
OnePatch == {[del |-> {}, add |-> GuestReads]}
TwoPatches == OnePatch \cup {[del |-> GuestReads, add |-> OwnerAll]}

Sym == Permutations(Reqs)
=============================================================================
