------------------------------- MODULE Space -------------------------------
(***************************************************************************)
(* The URI space of one pod (src/src/space.rs): resources, containers and  *)
(* the derivations every other component reads off a URL.                  *)
(*                                                                         *)
(* A URL is the list of its path segments and whether the path ends in     *)
(* "/".  "/" is the empty list with a slash, "/a" is <<a>> without one and *)
(* "/a/" is <<a>> with one.  StorageSpace::resolve admits no other shape:  *)
(* it refuses empty and dot segments, so the list is the path.  An         *)
(* auxiliary URL is never built here; the ACL of u is named by u itself.   *)
(***************************************************************************)
EXTENDS Naturals, Sequences

CONSTANTS
  Segments,   \* path segments
  Urls        \* the URLs of the instance, closed under taking ancestors

Url == [segs : Seq(Segments), slash : BOOLEAN]

\* The root container, StorageSpace::root.
Root == [segs |-> <<>>, slash |-> TRUE]

\* ResourceUrl::as_container: a URL names a container iff its path ends in "/".
Containers == {u \in Urls : u.slash}

\* No URL: the child of a plan step that records none.
NoUrl == [segs |-> <<>>, slash |-> FALSE]

\* ResourceUrl::parent, for every URL but the root.
parent(u) == [segs |-> SubSeq(u.segs, 1, Len(u.segs) - 1), slash |-> TRUE]

\* ResourceUrl::ancestors: parent iterated up to the root, nearest first.
ancestors(u) ==
  [i \in 1..Len(u.segs) |->
     [segs |-> SubSeq(u.segs, 1, Len(u.segs) - i), slash |-> TRUE]]

\* ResourceUrl::slash_counterpart, for every URL but the root.
slash_counterpart(u) == [u EXCEPT !.slash = ~u.slash]

\* The chain a request touches (Guard::probe): the subject, then its ancestors.
Chain(u) == <<u>> \o ancestors(u)

ChainSet(u) == {u} \cup {ancestors(u)[i] : i \in 1..Len(u.segs)}

ASSUME SpaceAssumption ==
  /\ Root \in Urls
  /\ Urls \subseteq Url
  /\ NoUrl \notin Urls
  /\ \A u \in Urls : \A i \in 1..Len(u.segs) : ancestors(u)[i] \in Urls
=============================================================================
