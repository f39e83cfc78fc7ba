----------------------------- MODULE MCRecover -----------------------------
(***************************************************************************)
(* Images for Recover: a four-entry root directory, three-slot clusters    *)
(* from offset 5 on, a subdirectory spanning two clusters with a hidden    *)
(* "." entry, an empty subdirectory and a file spanning two clusters.  The *)
(* root's three entries come in every order, with the first of them        *)
(* hidden or not, and the tool is run in an empty working directory, in    *)
(* one holding an unrelated file, and in one already holding ROOT.         *)
(***************************************************************************)
EXTENDS Recover

Entry(n, h, d, c, sz) == [name |-> n, hidden |-> h, dir |-> d, cluster |-> c, size |-> sz]
F(n, c, sz) == Entry(n, FALSE, FALSE, c, sz)
D(n, c) == Entry(n, FALSE, TRUE, c, 0)
Hide(e) == [e EXCEPT !.hidden = TRUE]
End == Entry(0, FALSE, FALSE, 0, 0)
Byte(v) == Entry(v, FALSE, FALSE, 0, 0)

MCRootName == 10
MCEOC == 0

\* Clusters 2 and 3 hold a directory ("." hidden, files 5 and 4 out of
\* order, the empty directory 6 at cluster 7); clusters 4 and 5 the four
\* bytes of file 3; cluster 6 the bytes of files 1, 4 and 5.
DataRegion ==
    << Hide(D(9, 2)), F(5, 6, 1), D(6, 7),
       F(4, 6, 2), End, End,
       Byte(11), Byte(12), Byte(13),
       Byte(14), End, End,
       Byte(15), Byte(16), End,
       End, End, End >>

MCFat == (2 :> 3) @@ (3 :> MCEOC) @@ (4 :> 5) @@ (5 :> MCEOC) @@ (6 :> MCEOC)
             @@ (7 :> MCEOC)

RootEntries == {D(2, 2), F(3, 4, 4), F(1, 6, 2)}

MCImages ==
    { << o[1], o[2], o[3], End >> \o DataRegion : o \in SetToSeqs(RootEntries) }
    \cup
    { << Hide(o[1]), o[2], o[3], End >> \o DataRegion : o \in SetToSeqs(RootEntries) }

MCHostFss ==
    { << >>,
      << 7 >> :> [dir |-> FALSE, data |-> << Byte(1) >>],
      << MCRootName >> :> [dir |-> TRUE, data |-> << >>] }

\* Every sequence of up to four names from three, for SortedDirSorts.
SortInputs == BoundedSeq(1 .. 3, 4)

MCSortedDirSorts == SortedDirSorts(SortInputs)
=============================================================================
