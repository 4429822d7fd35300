------------------------------- MODULE MCFat --------------------------------
(* Volumes of each type with the same tree: a root with a label, a long    *)
(* name, a deleted entry, a name with a space and files, a directory of    *)
(* two clusters, and below it one more file.  Clusters lie where entries   *)
(* of the table cross bytes, sectors and a cluster's end.                  *)
EXTENDS Fat

Pad(s, n) == [i \in 1..n |-> IF i <= Len(s) THEN s[i] ELSE Space]
Entry(base, ext, attr, cluster, size) ==
  [base |-> Pad(base, 8), ext |-> Pad(ext, 3), attr |-> attr, cluster |-> cluster, size |-> size]

Label == Entry(<<"A", "B">>, <<>>, {"VOLUME_ID"}, 0, 0)
Lfn == Entry(<<"B">>, <<>>, {"VOLUME_ID", "RHS"}, 0, 0)
Deleted == Entry(<<FREE, "B">>, <<>>, {}, 7, 90)
Filled(s, n) == s \o [i \in 1..(n - Len(s)) |-> Deleted]

(* c: the clusters of the tree.                                            *)
Root(c) ==
  <<Label, Lfn,
    Entry(<<"A", "B">>, <<"A">>, {}, c.ab, 1400), Entry(<<E5, Space, "A">>, <<>>, {"RHS"}, 0, 0),
    Deleted, Entry(<<"A">>, <<>>, {"DIR"}, c.sub, 0), Entry(<<"B">>, <<>>, {}, c.b, c.bsize)>>
Sub(c) ==
  <<Entry(<<".">>, <<>>, {"DIR"}, c.sub, 0), Entry(<<".", ".">>, <<>>, {"DIR"}, 0, 0)>>
Sub2(c) == <<Lfn, Entry(<<"A", "B">>, <<>>, {}, c.deep, 1024)>>

Bpb(fats, reserved, entries, fatsz, sects, spc, root) ==
  [signature |-> TRUE, bytes_per_sect |-> 512, sects_per_cluster |-> spc,
   reserved_sects |-> reserved, fats |-> fats, root_entry_count |-> entries,
   fatsz16 |-> IF root = 0 THEN fatsz ELSE 0, fatsz32 |-> IF root = 0 THEN 0 ELSE fatsz,
   sects16 |-> IF root = 0 THEN sects ELSE 0, sects32 |-> IF root = 0 THEN 0 ELSE sects,
   root_cluster |-> root]

C12 == [root |-> 0, sub |-> 6, sub2 |-> 10, ab |-> 3, b |-> 7, bsize |-> 900, deep |-> 341]
C16 == [root |-> 0, sub |-> 20, sub2 |-> 4000, ab |-> 255, b |-> 30, bsize |-> 700, deep |-> 31]
C32 == [root |-> 2, sub |-> 3, sub2 |-> 60000, ab |-> 128, b |-> 5, bsize |-> 1025, deep |-> 700]
Links12 ==
  {<<3, 4>>, <<4, 5>>, <<5, 4095>>, <<6, 10>>, <<10, 4095>>, <<7, 8>>, <<8, 4095>>,
   <<341, 343>>, <<343, 4088>>}
Links16 ==
  {<<255, 256>>, <<256, 300>>, <<300, 65535>>, <<20, 4000>>, <<30, 65535>>, <<31, 32>>,
   <<32, 65535>>}
Links32 ==
  {<<2, 268435455>>, <<128, 127>>, <<127, 536870911>>, <<3, 60000>>, <<60000, 268435448>>,
   <<5, 268435462>>, <<6, 268435455>>, <<700, 268435455>>}

(* fat12: b's chain has a link that NextCluster12 misreads.  fat16: the    *)
(* smallest; b's chain is shorter than its size.  circle: a directory of   *)
(* deleted entries whose second cluster is followed by its first.  bad:    *)
(* two reserved sectors in a FAT12.                                        *)
Layout(n, bpb, c, links, room) ==         \* room: entries in a cluster
  [name |-> n, bpb |-> bpb, c |-> c, links |-> links, room |-> room]
Layouts ==
  {Layout("fat12", Bpb(2, 1, 16, 2, 400, 1, 0), C12, Links12, 16),
   Layout("bad", Bpb(2, 2, 16, 2, 400, 1, 0), C12, Links12, 16),
   Layout("fat16", Bpb(2, 1, 16, 17, 4121, 1, 0), C16, Links16 \cup {<<4000, 65528>>}, 16),
   Layout("circle", Bpb(2, 1, 16, 17, 4121, 1, 0), C16, Links16 \cup {<<4000, 20>>}, 16),
   Layout("fat32", Bpb(1, 32, 0, 600, 140000, 2, 2), C32, Links32, 32)}

Tree(v, c) ==
  [k \in {c.root, c.sub, c.sub2} |->
     CASE k = c.root -> Filled(Root(c), IF k = 0 THEN 16 ELSE 7)
       [] k # c.root /\ v.name = "circle" -> [i \in 1..v.room |-> Deleted]
       [] k = c.sub /\ v.name # "circle" -> Filled(Sub(c), v.room)
       [] k = c.sub2 /\ v.name # "circle" -> Sub2(c)]
Made ==
  {[name |-> v.name, bpb |-> v.bpb, dir |-> Tree(v, v.c),
    next |-> [x \in {p[1] : p \in v.links} |-> (CHOOSE p \in v.links : p[1] = x)[2]]] :
     v \in Layouts}

MCVolumes ==
  [n \in {"fat12", "fat16", "fat32", "circle", "bad"} |-> CHOOSE v \in Made : v.name = n]

P(names, slash) == [names |-> names, slash |-> slash]
MCPaths ==
  {P(<<>>, TRUE), P(<<<<"a", "b", ".", "A">>>>, FALSE), P(<<<<"A", "B", ".", "A">>>>, TRUE),
   P(<<<<"A", "B">>>>, FALSE), P(<<<<"E5", Space, "a">>>>, FALSE), P(<<<<"B", ".">>>>, FALSE),
   P(<<<<"A">>>>, TRUE), P(<<<<"A">>, <<"A", "B">>>>, FALSE),
   P(<<<<"A">>, <<".">>, <<"B">>>>, FALSE), P(<<<<"A">>, <<".", ".">>>>, FALSE)}
=============================================================================
