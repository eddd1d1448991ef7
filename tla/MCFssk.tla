------------------------------- MODULE MCFssk -------------------------------
EXTENDS Fssk, TLC

\* A main partition and two sub-partitions; zones 0 and 1 of the main one and zone
\* 0 of the others hold the super blocks and the bitmaps.
SizeOf == 0 :> 18 @@ 1 :> 4 @@ 2 :> 4
ReservedIn == 0 :> {0, 1} @@ 1 :> {0} @@ 2 :> {0}
RootAt == <<0, 2>>

Node(mode, segs) == [mode |-> mode, data |-> segs, n |-> Len(segs)]
Image(inode, dir) ==
    LET owned == UNION {{Covers(inode[x].data[i]) : i \in 1 .. inode[x].n} : x \in DOMAIN inode}
    IN [inode |-> inode, dir |-> dir,
        used |-> [s \in Subs |-> ReservedIn[s] \cup {z[2] : z \in {y \in UNION owned : y[1] = s}}]]

RootDir == Node("dir", <<Segment(0, 2, 1), Segment(0, 3, 1)>>)
Here    == Node("file", <<Segment(0, 4, 1), Segment(0, 6, 2)>>)

\* The root directory lists a file of the main partition and one other file.
With(x, file) == Image(RootAt :> RootDir @@ <<0, 4>> :> Here @@ x :> file, RootAt :> <<<< <<0, 4>>, x >>>>)

\* Files of the other partitions, all or in part, with 0, 1 and 2 segments of data.
Files == {<<Segment(2, 1, 1)>>,
          <<Segment(2, 1, 1), Segment(2, 2, 2)>>,
          <<Segment(1, 1, 1), Segment(1, 2, 2)>>,
          <<Segment(0, 9, 1), Segment(0, 10, 2), Segment(2, 2, 1)>>,
          <<Segment(2, 1, 1), Segment(1, 1, 2), Segment(1, 3, 1)>>,
          <<Segment(1, 1, 1), Segment(0, 12, 1), Segment(0, 15, 2)>>}
Loc(segs) == <<segs[1].sub, segs[1].num>>

\* A directory below the root, at zone 9, with data in the main partition or not.
Sub(bi, x, file) ==
    Image(RootAt :> RootDir @@ <<0, 4>> :> Here @@ <<0, 9>> :> Node("dir", <<Segment(0, 9, 1), bi>>) @@ x :> file,
          RootAt :> <<<< <<0, 9>>, <<0, 4>> >>>> @@ <<0, 9>> :> <<<<x>>>>)

OneFile    == {With(Loc(segs), Node("file", segs)) : segs \in Files}
\* Every second zone of the main partition is another file's.
Fragmented ==
    LET many == Node("file", <<Segment(0, 5, 1), Segment(0, 7, 1), Segment(0, 9, 1), Segment(0, 11, 1), Segment(0, 13, 1)>>)
        far  == Node("file", <<Segment(2, 1, 1), Segment(2, 2, 2)>>)
    IN {Image(RootAt :> RootDir @@ <<0, 5>> :> many @@ <<2, 1>> :> far, RootAt :> <<<< <<0, 5>>, <<2, 1>> >>>>)}
Deep == {Sub(Segment(0, 10, 1), <<2, 1>>, Node("file", <<Segment(2, 1, 1), Segment(2, 2, 1)>>)),
         Sub(Segment(0, 10, 1), <<0, 12>>, Node("file", <<Segment(0, 12, 1), Segment(0, 14, 1)>>)),
         Sub(Segment(1, 1, 1), <<0, 12>>, Node("file", <<Segment(0, 12, 1), Segment(0, 14, 1)>>))}
Empty == {Image(RootAt :> RootDir @@ <<0, 4>> :> Here, RootAt :> <<<< <<0, 4>> >>>>)}
Trees == OneFile \cup Fragmented \cup Deep \cup Empty
=============================================================================
