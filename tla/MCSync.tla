------------------------------- MODULE MCSync -------------------------------
(***************************************************************************)
(* Instances of SyncProjection for TLC.                                    *)
(***************************************************************************)
EXTENDS SyncProjection, TLC

CONSTANTS p1, p2, a, b, r1, r2, h1, h2, v1, v2, w1, w2, k1, k2, t1, t2

Def(r, h)  == [res |-> r, hash |-> h, valid |-> TRUE]
NoTexts    == [w \in Workspaces |-> <<>>]

Snapshot(o, v, ds, ts) ==
  [identified |-> TRUE, version |-> v, source |-> o, defs |-> ds, texts |-> ts]

\* The snapshots of at most one definition, without texts.
ShortLists   == {<<>>} \cup {<<Def(r, h)>> : r \in Resources, h \in Hashes}
DefSnapshots ==
  {Snapshot(o, v, ds, NoTexts) : o \in Sources, v \in Versions, ds \in ShortLists}

\* Two snapshots of one source, with one definition each.
SingleSnapshots == {Snapshot(a, v1, <<Def(r, h1)>>, NoTexts) : r \in Resources}

\* Snapshots of two resources and two workspaces, with every way for one to
\* be rejected and with repeated keys.
In(w, ts) == [NoTexts EXCEPT ![w] = ts]
Say(t)    == [key |-> k1, text |-> t, valid |-> TRUE]

RichSnapshots ==
  {Snapshot(a, v1, <<Def(r1, h1), Def(r2, h1)>>, In(w1, <<Say(t1)>>)),
   Snapshot(a, v1, <<Def(r1, h2), Def(r1, h2)>>, NoTexts),
   Snapshot(a, v2, <<Def(r1, h2)>>,
            [w \in Workspaces |-> <<Say(t2), Say(t1)>>]),
   Snapshot(a, v2, <<Def(r2, h1), Def(r2, h2)>>, NoTexts),
   Snapshot(a, v2, <<Def(r1, h1), [Def(r2, h1) EXCEPT !.valid = FALSE]>>,
            NoTexts),
   Snapshot(a, v2, <<>>, In(w2, <<Say(t1), [Say(t2) EXCEPT !.valid = FALSE]>>)),
   Snapshot(a, v2, <<>>, NoTexts),
   Snapshot(b, v1, <<Def(r1, h1)>>, In(w1, <<Say(t2)>>)),
   Snapshot(b, v2, <<Def(r2, h2)>>, In(w2, <<Say(t2)>>)),
   [Snapshot(b, v2, <<>>, NoTexts) EXCEPT !.identified = FALSE]}

\* Two resources in either order, contents, definitions and texts that are
\* replaced, a text that is repeated, and a snapshot without texts; both sources
\* claim both resources and one of the texts.
Key(k, t) == [key |-> k, text |-> t, valid |-> TRUE]
CrossSnapshots ==
  {Snapshot(a, v1, <<Def(r1, h1), Def(r2, h1)>>, In(w1, <<Key(k1, t1)>>)),
   Snapshot(a, v2, <<Def(r1, h2)>>, In(w1, <<Key(k2, t2), Key(k2, t1)>>)),
   Snapshot(a, v1, <<>>, NoTexts),
   Snapshot(b, v1, <<Def(r2, h1), Def(r1, h1)>>, NoTexts),
   Snapshot(b, v1, <<>>, In(w1, <<Key(k2, t2)>>))}

\* Any publisher may publish for any source, or each for a source of its own.
SharedSources == [p \in Publishers |-> Snapshots]
OwnSources    == [p \in Publishers |->
                    {s \in Snapshots : s.source = IF p = p1 THEN a ELSE b}]

\* Every version has an id of its own, or r1's v2 and r2's v1 share one.
OwnIds    == [v \in VersionIds |-> v]
SharedIds == [v \in VersionIds |-> IF v = <<r1, v2>> THEN <<r2, v1>> ELSE v]

NoWorkspaces  == <<>>
OneWorkspace  == <<w1>>
TwoWorkspaces == <<w1, w2>>

Symmetry == Permutations(Publishers) \cup Permutations(Hashes)
              \cup Permutations(Sources) \cup Permutations(Versions)
HashSymmetry == Permutations(Hashes) \cup Permutations(Versions)

=============================================================================
