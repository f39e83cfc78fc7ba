------------------------------ MODULE Recover ------------------------------
(***************************************************************************)
(* The FAT16 recovery tool of src/file-directory-tree: recover.c reads the *)
(* directory entries of a disk image into a directory tree                 *)
(* (directory_tree.c), prints it, recreates it in the working directory    *)
(* and frees it.                                                           *)
(*                                                                         *)
(* The image is a sequence of slots read by one stream.  A slot is either  *)
(* a directory entry (a name, 0 standing for a name starting with '\0',   *)
(* the hidden and directory bits, the first cluster and the size) or a     *)
(* byte of file data; fread of one entry reads one slot.  Names are        *)
(* numbers ordered as strcmp orders the strings they stand for.  The       *)
(* recursion of follow and follow_directory is an explicit stack of       *)
(* follow frames: the node it fills, the entry it holds and the offset     *)
(* follow_directory restores when it returns.                              *)
(***************************************************************************)
EXTENDS Integers, SequencesExt

CONSTANTS
    Images,       \* the images the tool may be run on, sequences of slots
    RootOffset,   \* get_root_directory_location(bpb)
    RootSlots,    \* entries of the fixed root directory region
    DataStart,    \* offset of cluster 2
    ClusterSize,  \* slots per cluster
    Fat,          \* the file allocation table: cluster -> next cluster or EOC
    EOC,          \* end-of-chain mark
    RootName,     \* the name strdup("ROOT") gives the root node
    HostFss     \* what the working directory may hold before the run

\* get_offset_from_cluster: clusters are numbered from 2.
ClusterOffset(c) == DataStart + (c - 2) * ClusterSize

VARIABLES
    disk,   \* the image argv[1] names
    host,   \* the working directory before the run
    pos,    \* the stream position of disk
    stack,  \* the active calls of follow: <<[node, entry, prev]>>
    tree,   \* the nodes: id -> [name, dir, kids, data]; the root is node 1
    phase,  \* where main is
    out,    \* the lines print_directory_tree has printed: [level, name]
    fs      \* the working directory: path -> [dir, data]

vars == <<disk, host, pos, stack, tree, phase, out, fs>>

-----------------------------------------------------------------------------
(* directory_tree.c                                                        *)

\* init_file_node and init_directory_node (init_node sets name and type).
FileNode(name, data) == [name |-> name, dir |-> FALSE, kids |-> << >>, data |-> data]
DirNode(name) == [name |-> name, dir |-> TRUE, kids |-> << >>, data |-> << >>]

\* Variant with a bug: the minimum is searched against children[i] only,
\* as if min_string were never updated.
MinIdxStale(s, key, i) ==
    LET RECURSIVE Scan(_, _)
        Scan(j, m) == IF j > Len(s) THEN m
                      ELSE Scan(j + 1, IF key[s[j]] < key[s[i]] THEN j ELSE m)
    IN Scan(i + 1, i)

\* The inner loop of sorted_dir: the first index from i on whose name is
\* least (strcmp < 0 against the least name so far).
MinIdx(s, key, i) ==
    LET RECURSIVE Scan(_, _)
        Scan(j, m) == IF j > Len(s) THEN m
                      ELSE Scan(j + 1, IF key[s[j]] < key[s[m]] THEN j ELSE m)
    IN Scan(i + 1, i)

\* sorted_dir: selection sort of the children by name, swapping the
\* minimum into place i for every i.
SortedDir(s, key) ==
    LET RECURSIVE Pass(_, _)
        Pass(t, i) == IF i > Len(t) THEN t
                      ELSE LET m == MinIdx(t, key, i)
                           IN Pass([t EXCEPT ![i] = t[m], ![m] = t[i]], i + 1)
    IN Pass(s, 1)

\* Variant with a bug: the new child is stored at children[num_children],
\* one past the block, and the last slot keeps what realloc left there.
AppendChildPastEnd(kids, id) == kids \o << 0 >>

\* children[num_children - 1] = child after growing the array by one.
AppendChild(kids, id) == Append(kids, id)

\* add_child_directory_tree: append the child, then sort the children.
AddChild(t, parent, id) ==
    LET key == [k \in DOMAIN t |-> t[k].name] @@ (0 :> 0)
    IN [t EXCEPT ![parent].kids = SortedDir(AppendChild(@, id), key)]

\* print_directory_tree: every node in preorder at its depth.
RECURSIVE Listing(_, _)
Listing(id, level) ==
    << [level |-> level, name |-> tree[id].name] >>
        \o FlattenSeq([i \in 1 .. Len(tree[id].kids) |-> Listing(tree[id].kids[i], level + 1)])

\* create_directory_tree_helper: extend the path by the name; a file is
\* opened for writing (which fails on a directory) and written, a
\* directory is made (which fails if the path exists) and filled child by
\* child.  A failed assert ends the walk with ok = FALSE.
RECURSIVE CreateNode(_, _, _), CreateKids(_, _, _, _)
CreateNode(id, path, f) ==
    LET n == tree[id]
        np == Append(path, n.name)
    IN IF ~n.dir
       THEN IF np \in DOMAIN f /\ f[np].dir THEN [fs |-> f, ok |-> FALSE]
            ELSE [fs |-> (np :> [dir |-> FALSE, data |-> n.data]) @@ f, ok |-> TRUE]
       ELSE IF np \in DOMAIN f THEN [fs |-> f, ok |-> FALSE]
            ELSE CreateKids(n.kids, 1, np, (np :> [dir |-> TRUE, data |-> << >>]) @@ f)
CreateKids(kids, i, path, f) ==
    IF i > Len(kids) THEN [fs |-> f, ok |-> TRUE]
    ELSE LET r == CreateNode(kids[i], path, f)
         IN IF r.ok THEN CreateKids(kids, i + 1, path, r.fs) ELSE r

-----------------------------------------------------------------------------
(* recover.c                                                               *)

Top == stack[Len(stack)]
Cur == Top.entry

\* A call of follow for node at offset p: its first fread, whose short
\* read at the end of the image fails the assert.
Enter(node, p, prev) ==
    IF p \in DOMAIN disk
    THEN /\ stack' = Append(stack, [node |-> node, entry |-> disk[p], prev |-> prev])
         /\ pos' = p + 1
         /\ phase' = "follow"
    ELSE /\ phase' = "abort"
         /\ UNCHANGED <<pos, stack>>

\* The fread at the end of follow's loop, into the entry of the top frame
\* of st, from offset p.
NextEntry(st, p) ==
    IF p \in DOMAIN disk
    THEN /\ stack' = [st EXCEPT ![Len(st)].entry = disk[p]]
         /\ pos' = p + 1
         /\ UNCHANGED phase
    ELSE /\ phase' = "abort"
         /\ UNCHANGED <<pos, stack>>

\* Variant with a bug: follow_directory returns without its fseek.
ResumeHere(fr, p) == p

\* follow_directory's fseek(disk, prev_offset, SEEK_SET).
Resume(fr, p) == fr.prev

\* main: fseek to the root directory and follow(root).
Start ==
    /\ phase = "main"
    /\ Enter(1, RootOffset, 0)
    /\ UNCHANGED <<tree, out, fs>>

\* follow's loop on a hidden entry: only the next fread.
SkipHidden ==
    /\ phase = "follow"
    /\ Cur.name # 0 /\ Cur.hidden
    /\ NextEntry(stack, pos)
    /\ UNCHANGED <<tree, out, fs>>

\* follow_file, then the loop's next fread.  fread of file_size bytes at
\* the first cluster returns 0 for an empty file or a short read, and the
\* assert fails.
FollowFile ==
    /\ phase = "follow"
    /\ Cur.name # 0 /\ ~Cur.hidden /\ ~Cur.dir
    /\ LET e == Cur
           off == ClusterOffset(e.cluster)
       IN IF e.size = 0 \/ off + e.size - 1 > Len(disk)
          THEN /\ phase' = "abort"
               /\ UNCHANGED <<pos, stack, tree>>
          ELSE /\ tree' = AddChild(Append(tree, FileNode(e.name, SubSeq(disk, off, off + e.size - 1))),
                                   Top.node, Len(tree) + 1)
               /\ NextEntry(stack, pos)
    /\ UNCHANGED <<out, fs>>

\* follow_directory: remember the position, seek to the first cluster,
\* add the new directory node and follow it.
FollowDirectory ==
    /\ phase = "follow"
    /\ Cur.name # 0 /\ ~Cur.hidden /\ Cur.dir
    /\ tree' = AddChild(Append(tree, DirNode(Cur.name)), Top.node, Len(tree) + 1)
    /\ Enter(Len(tree) + 1, ClusterOffset(Cur.cluster), pos)
    /\ UNCHANGED <<out, fs>>

\* follow at its terminating entry returns.  Into follow_directory, which
\* seeks back, and then into the caller's loop and its next fread; or into
\* main, which goes on to print the tree.
Return ==
    /\ phase = "follow"
    /\ Cur.name = 0
    /\ IF Len(stack) = 1
       THEN /\ stack' = << >>
            /\ phase' = "print"
            /\ UNCHANGED pos
       ELSE NextEntry(Front(stack), Resume(Top, pos))
    /\ UNCHANGED <<tree, out, fs>>

\* main: print_directory_tree(root).
PrintTree ==
    /\ phase = "print"
    /\ out' = Listing(1, 0)
    /\ phase' = "create"
    /\ UNCHANGED <<pos, stack, tree, fs>>

\* main: create_directory_tree(root); a failed assert aborts.
CreateTree ==
    /\ phase = "create"
    /\ LET r == CreateNode(1, << >>, fs)
       IN /\ fs' = r.fs
          /\ phase' = IF r.ok THEN "free" ELSE "abort"
    /\ UNCHANGED <<pos, stack, tree, out>>

\* main: free_directory_tree(root) and fclose(disk).  The memory the tree
\* holds is not modelled.
FreeTree ==
    /\ phase = "free"
    /\ phase' = "done"
    /\ UNCHANGED <<pos, stack, tree, out, fs>>

Init ==
    /\ disk \in Images
    /\ host \in HostFss
    /\ pos = 0
    /\ stack = << >>
    /\ tree = << DirNode(RootName) >>
    /\ phase = "main"
    /\ out = << >>
    /\ fs = host

Next ==
    /\ UNCHANGED <<disk, host>>
    /\ \/ Start \/ SkipHidden \/ FollowFile \/ FollowDirectory \/ Return
       \/ PrintTree \/ CreateTree \/ FreeTree

Spec == Init /\ [][Next]_vars

-----------------------------------------------------------------------------
(* The image as FAT16 defines it: a directory or file is the data of its   *)
(* cluster chain, a directory's entries end at the first entry whose name *)
(* starts with '\0', and hidden entries are not part of the tree.  Each   *)
(* directory's children are listed by name.                                *)

RECURSIVE Chain(_)
Chain(c) == << c >> \o (IF Fat[c] = EOC THEN << >> ELSE Chain(Fat[c]))

ChainData(c) ==
    FlattenSeq([i \in 1 .. Len(Chain(c)) |->
                    SubSeq(disk, ClusterOffset(Chain(c)[i]),
                           ClusterOffset(Chain(c)[i]) + ClusterSize - 1)])

Entries(slots) ==
    LET t == SelectInSeq(slots, LAMBDA e : e.name = 0)
        run == IF t = 0 THEN slots ELSE SubSeq(slots, 1, t - 1)
    IN SortSeq(SelectSeq(run, LAMBDA e : ~e.hidden), LAMBDA a, b : a.name < b.name)

RECURSIVE ImgNode(_), ImgKids(_)
ImgNode(e) ==
    [name |-> e.name, dir |-> e.dir,
     kids |-> IF e.dir THEN ImgKids(ChainData(e.cluster)) ELSE << >>,
     data |-> IF e.dir THEN << >> ELSE SubSeq(ChainData(e.cluster), 1, e.size)]
ImgKids(slots) == LET es == Entries(slots) IN [i \in 1 .. Len(es) |-> ImgNode(es[i])]

Image ==
    [name |-> RootName, dir |-> TRUE, data |-> << >>,
     kids |-> ImgKids(SubSeq(disk, RootOffset, RootOffset + RootSlots - 1))]

RECURSIVE ImgListing(_, _)
ImgListing(n, level) ==
    << [level |-> level, name |-> n.name] >>
        \o FlattenSeq([i \in 1 .. Len(n.kids) |-> ImgListing(n.kids[i], level + 1)])

RECURSIVE ImgPaths(_, _)
ImgPaths(n, path) ==
    LET np == Append(path, n.name)
    IN (np :> [dir |-> n.dir, data |-> n.data])
           @@ FoldSeq(LAMBDA k, acc : ImgPaths(k, np) @@ acc, << >>, n.kids)

\* The tree main has built, with node ids replaced by the nodes.
RECURSIVE Canon(_)
Canon(id) ==
    [name |-> tree[id].name, dir |-> tree[id].dir, data |-> tree[id].data,
     kids |-> [i \in 1 .. Len(tree[id].kids) |-> Canon(tree[id].kids[i])]]

-----------------------------------------------------------------------------
(* Properties                                                              *)

Phases == {"main", "follow", "print", "create", "free", "done", "abort"}

\* The variables have their types, and every child pointer names a node
\* built before it (add_child_directory_tree stores the child inside the
\* children array).
TypeOK ==
    /\ phase \in Phases
    /\ pos \in 0 .. Len(disk) + 1
    /\ \A k \in 1 .. Len(stack) :
           stack[k].node \in 1 .. Len(tree) /\ stack[k].prev \in 0 .. Len(disk) + 1
    /\ \A id \in 1 .. Len(tree) :
           /\ tree[id].dir \in BOOLEAN
           /\ \A i \in 1 .. Len(tree[id].kids) : tree[id].kids[i] \in 2 .. Len(tree)

\* What the tool recovers is the image: once follow has returned to main,
\* the tree main built is the image's tree (every visible entry of every
\* directory reached, under its directory, children in name order, files
\* with their data); what print_directory_tree printed lists that tree;
\* and after create_directory_tree the working directory holds it under
\* ROOT besides what it held before.  The one way it may fail on such an
\* image is a working directory that already holds ROOT.  This rests on follow_directory and
\* follow_file restoring the stream position around each child and on
\* sorted_dir after each insertion.
RecoveredAsImage ==
    /\ phase \in {"print", "create", "free", "done"} => Canon(1) = Image
    /\ phase \in {"create", "free", "done"} => out = ImgListing(Image, 0)
    /\ phase \in {"free", "done"} => fs = ImgPaths(Image, << >>) @@ host
    /\ phase = "abort" => << RootName >> \in DOMAIN host

\* sorted_dir sorts: over every sequence of names the bound allows,
\* duplicates and orders no image reaches included, it gives the sequence
\* sorted by strcmp.  Checked once, in the states where main starts.
SortedDirSorts(Inputs) ==
    phase = "main" =>
    \A s \in Inputs :
        SortedDir(s, [n \in ToSet(s) |-> n]) = SortSeq(s, LAMBDA a, b : a < b)

=============================================================================
