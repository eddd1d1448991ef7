------------------------------- MODULE MCFsck -------------------------------
EXTENDS Fsck

\* A root directory "1" with the directory "2" and the file "3", and in "2" the
\* file "4"; "2" has a second sector.
SizeOf == 0 :> 16
ReservedIn == 0 :> {0, 1, 2}
Extent(n, c) == Segment(0, n, c)

SelfAndParent(d, up, rest) == (0 :> Entry(2, 2, ".", "dir", d)) @@ (2 :> Entry(rest, 2, "..", "dir", up))
Tree == [
    main |-> TRUE, backup |-> TRUE, num |-> 0, area |-> TRUE, writeError |-> TRUE, errorsFixed |-> FALSE,
    unreadable |-> {}, badAttrs |-> {}, badZones |-> {},
    bits |-> 0 :> (0 .. 14), stray |-> 0 :> {},
    inode |-> <<[mode |-> "dir",  segs |-> <<Extent(3, 1), Extent(4, 1)>>],
                [mode |-> "dir",  segs |-> <<Extent(5, 1), Extent(6, 2), Extent(9, 1)>>],
                [mode |-> "file", segs |-> <<Extent(8, 1), Extent(10, 1), Extent(11, 1)>>],
                [mode |-> "file", segs |-> <<Extent(12, 1), Extent(13, 2)>>]>>,
    dir |-> 1 :> <<SelfAndParent(1, 1, 2) @@ (4 :> Entry(2, 2, "sub", "dir", 2)) @@ (6 :> Entry(2, 2, "file", "file", 3))>>
         @@ 2 :> <<SelfAndParent(2, 1, 6), 0 :> Entry(8, 2, "file", "file", 4)>>]

\* One thing wrong with the tree.
Wrong  == {Extent(2, 1), Extent(15, 2)}
Others == {Extent(10, 1), Extent(12, 2), Extent(15, 1)}
Entries == {<<1, 1, 0>>, <<1, 1, 4>>, <<1, 1, 6>>, <<2, 2, 0>>}
SetEntry(f, at, e) == [f EXCEPT !.dir[at[1]][at[2]][at[3]] = e]
Damage(f) ==
       {[f EXCEPT !.inode[s[1]].segs[s[2]] = bi] : s \in {<<2, 3>>}, bi \in Wrong}
    \cup {[f EXCEPT !.inode[1].segs[2] = Extent(2, 1)]}
    \cup {[f EXCEPT !.inode[s[1]].segs[s[2]] = bi] :
             s \in {<<3, 2>>, <<3, 3>>, <<4, 2>>}, bi \in Wrong \cup Others}
    \cup {SetEntry(f, at, [f.dir[at[1]][at[2]][at[3]] EXCEPT !.len = n]) : at \in Entries, n \in {0, 1, 8}}
    \cup {SetEntry(f, at, [f.dir[at[1]][at[2]][at[3]] EXCEPT !.need = 8]) : at \in Entries}
    \cup {SetEntry(f, at, [f.dir[at[1]][at[2]][at[3]] EXCEPT !.of = x, !.type = f.inode[x].mode]) :
             at \in {<<1, 1, 0>>, <<1, 1, 6>>, <<2, 1, 2>>, <<2, 2, 0>>}, x \in {2, 4}}
    \cup {SetEntry(f, <<1, 1, 6>>, [f.dir[1][1][6] EXCEPT !.name = ".x"])}
    \cup {[f EXCEPT !.bits[0] = @ \ {z}] : z \in {4, 13}} \cup {[f EXCEPT !.bits[0] = @ \cup {15}]}
    \cup {[f EXCEPT !.badZones = {<<0, 10>>}], [f EXCEPT !.badAttrs = {4}], [f EXCEPT !.area = FALSE],
          [f EXCEPT !.main = FALSE], [f EXCEPT !.num = 1], [f EXCEPT !.unreadable = {<<0, 11>>, <<0, 15>>}]}

Single  == {[Tree EXCEPT !.inode[x].segs[3] = bi] : x \in {2, 3}, bi \in {Extent(1, 1), Extent(15, 0), Segment(1, 5, 1)}}
Damaged == {Tree} \cup Single \cup Damage(Tree) \cup UNION {Damage(f) : f \in Damage(Tree)}
OneDamage == {Tree} \cup Damage(Tree)
=============================================================================
