----------------------------- MODULE MCCatalog -----------------------------
(***************************************************************************)
(* An instance of ProjectionCatalog for TLC: every snapshot of up to two   *)
(* definitions, and of up to two texts of one workspace.                   *)
(***************************************************************************)
EXTENDS ProjectionCatalog, TLC

CONSTANTS w1, k1, r1, r2, v1, v2

MCWorkspaceOrder == <<w1>>

Def(r, h) == [res |-> r, hash |-> h, valid |-> TRUE]
Say(t)    == [key |-> k1, text |-> t, valid |-> TRUE]

DefLists ==
  LET Defs == {Def(r, h) : r \in Resources, h \in Hashes}
  IN  {<<>>} \cup {<<d>> : d \in Defs} \cup {<<d, e>> : d, e \in Defs}

TextLists ==
  {<<>>} \cup {<<Say(t)>> : t \in Texts} \cup {<<Say(t), Say(u)>> : t, u \in Texts}

Snapshot(o, v, ds, ts) ==
  [identified |-> TRUE, version |-> v, source |-> o, defs |-> ds,
   texts |-> [w \in Workspaces |-> ts]]

MCSnapshots ==
  {Snapshot(o, v, ds, <<>>) : o \in Sources, v \in Versions, ds \in DefLists}
    \cup {Snapshot(o, v, <<>>, ts) : o \in Sources, v \in Versions,
             ts \in TextLists}

\* One id for two versions.
MCIdOf == [v \in VersionIds |-> IF v = <<r1, v2>> THEN <<r2, v1>> ELSE v]

Symmetry == Permutations(Hashes) \cup Permutations(Sources)
              \cup Permutations(Texts)

=============================================================================
