--------------------------- MODULE MCIdpProvision ---------------------------
(***************************************************************************)
(* IdpProvision with small descriptions: a flat one, one with two raw LUKS *)
(* containers, and one with a partitioned container.                       *)
(***************************************************************************)
EXTENDS IdpProvision

Image(p) == [kind |-> "image", parent |-> p, etype |-> "none"]
Luks(e) == [kind |-> "container", parent |-> 0, etype |-> e]

Flat == <<Image(0), Image(0)>>
Raw == <<Image(0), Luks("raw"), Image(2), Luks("raw"), Image(4)>>
Inner == <<Image(0), Luks("partitioned"), Image(2), Image(2)>>
MixedLayouts == {Flat, Raw, Inner}
InnerLayouts == {Inner}
============================================================================
