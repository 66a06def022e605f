------------------------------ MODULE Register ------------------------------
(***************************************************************************)
(* What a client may take a resource to be: a register that holds one whole*)
(* representation or none.  A write replaces it, a patch amends the        *)
(* triples of an RDF one, a delete empties it, and no read ever sees parts *)
(* of two.                                                                 *)
(***************************************************************************)
CONSTANTS
  Puts,         \* the representations clients write
  Absent,       \* what a resource that does not exist is
  Amend(_, _),  \* the representation a patch makes of another one
  Patches       \* the patches clients send

VARIABLE value

Init == value = Absent

Replace == value' \in Puts

Patch == value # Absent /\ \E p \in Patches : value' = Amend(value, p)

Remove == value' = Absent

Next == Replace \/ Patch \/ Remove

Spec == Init /\ [][Next]_value
=============================================================================
