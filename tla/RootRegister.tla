---------------------------- MODULE RootRegister ----------------------------
(***************************************************************************)
(* What the superblock promises to the rest of the file system, whatever   *)
(* chain of entries it keeps on flash: the root node of the tree and the    *)
(* set of areas that hold pages are what they were last asked to be.  A     *)
(* commit, a loss of power and a mount are not visible here, except that a  *)
(* request may be lost before it is granted.                                *)
(***************************************************************************)
CONSTANTS Root, Areas

VARIABLES root, areas, asked

vars == <<root, areas, asked>>

Nothing == [ask |-> "nothing"]

Request ==
    [ask : {"root"}, root : Root] \cup [ask : {"take", "release"}, area : Areas]

Init == root \in Root /\ areas \subseteq Areas /\ asked = Nothing

Ask == asked = Nothing /\ asked' \in Request /\ UNCHANGED <<root, areas>>

Register ==
    /\ asked.ask = "root"
    /\ root' = asked.root
    /\ asked' = Nothing
    /\ UNCHANGED areas

Take ==
    /\ asked.ask = "take" /\ asked.area \notin areas
    /\ areas' = areas \cup {asked.area}
    /\ asked' = Nothing
    /\ UNCHANGED root

Release ==
    /\ asked.ask = "release" /\ asked.area \in areas
    /\ areas' = areas \ {asked.area}
    /\ asked' = Nothing
    /\ UNCHANGED root

Lose == asked' = Nothing /\ UNCHANGED <<root, areas>>

Next == Ask \/ Register \/ Take \/ Release \/ Lose

Spec == Init /\ [][Next]_vars

=============================================================================
