------------------------- MODULE ContextTreeProofs -------------------------
(***************************************************************************)
(* What the agent's half of the round trip keeps, step by step: the shape  *)
(* of the context tree while handlers add to it and the contents of the    *)
(* file while threadEnd's walks write it.                                  *)
(***************************************************************************)
EXTENDS ContextTree, TLAPS

-----------------------------------------------------------------------------
(* The inductive invariant.                                                *)

Last == files[Len(files)]

(* Parents are older than their children, so that every walk ends at the   *)
(* root, and a chain is under construction only in a thread that runs.     *)
TreeShape ==
    /\ parent[0] = NoId
    /\ \A c \in 1..(idCounter - 1) : parent[c] \in 0..(c - 1)
    /\ at \in 0..(idCounter - 1)
    /\ phase # "run" => at = 0
    /\ metrics \subseteq 1..(idCounter - 1)

(* No file has a context twice.                                            *)
FilesDistinct ==
    \A k \in 1..Len(files) : \A i, j \in 1..Len(files[k]) :
        files[k][i].id = files[k][j].id => i = j

(* The nodes of a file that is complete: all ancestors are there, up to    *)
(* the root, and below the root ids grow.                                  *)
SubtreeFile(f) ==
    /\ \A i \in 1..Len(f) :
          /\ f[i].id = 0 => f[i].parent = NoId
          /\ f[i].id # 0 => /\ f[i].parent \in 0..(f[i].id - 1)
                           /\ \E j \in 1..Len(f) : f[j].id = f[i].parent
    /\ f # <<>> => \E i \in 1..Len(f) : f[i].id = 0

(* The files of the earlier threads are complete.                          *)
FilesComplete == \A k \in 1..(Len(files) - 1) : SubtreeFile(files[k])

(* The last file has the contexts of dump_ctxt as the tree has them.       *)
FileIsDump ==
    /\ \A i \in 1..Len(Last) :
          /\ Last[i].id \in dumpCtxt
          /\ Last[i].parent = parent[Last[i].id]
          /\ Last[i].frame = frame[Last[i].id]
    /\ \A c \in dumpCtxt : \E i \in 1..Len(Last) : Last[i].id = c

(* The set of written contexts is closed under parents but for the context *)
(* the walk has reached, it has the contexts with metrics that the loop    *)
(* has passed, and nothing without a reason.  Until the root is written a  *)
(* walk is above all that was written, so no walk stops before the root.   *)
DumpClosed ==
    /\ dumpCtxt \subseteq 0..(idCounter - 1)
    /\ metrics \ dumpCtxt \subseteq todo
    /\ \A c \in dumpCtxt : c # 0 => parent[c] \in dumpCtxt \cup {walk}
    /\ \A c \in dumpCtxt \ metrics : \E d \in dumpCtxt : parent[d] = c
    /\ walk # NoId => \E d \in dumpCtxt : parent[d] = walk
    /\ 0 \notin dumpCtxt => \A d \in dumpCtxt : walk # NoId /\ walk < d

DumpInv ==
    /\ phase = "none" => todo = {} /\ walk = NoId
    /\ phase # "none" => files # <<>>
    /\ phase = "run" => Last = <<>>
    /\ phase # "run" /\ files # <<>> => FileIsDump /\ DumpClosed

TreeInv ==
    /\ TreeTypeOK
    /\ TreeShape
    /\ SiblingsDistinct
    /\ FilesDistinct
    /\ FilesComplete
    /\ DumpInv

-----------------------------------------------------------------------------
(* Appending to the last of a sequence of files.                           *)

(* Adding a node to the last file leaves the others alone.                 *)
LEMMA ExtendLast ==
    ASSUME NEW F \in Seq(Seq(Nodes)), F # <<>>, NEW n \in Nodes,
           NEW G, G = [F EXCEPT ![Len(F)] = Append(@, n)]
    PROVE  /\ G \in Seq(Seq(Nodes))
           /\ Len(G) = Len(F)
           /\ G[Len(G)] = Append(F[Len(F)], n)
           /\ \A k \in 1..Len(F) : k # Len(F) => G[k] = F[k]
           /\ F[Len(F)] \in Seq(Nodes)
<1>1. Len(F) \in 1..Len(F)
  OBVIOUS
<1>2. F[Len(F)] \in Seq(Nodes)
  BY <1>1
<1>3. Append(F[Len(F)], n) \in Seq(Nodes)
  BY <1>2
<1> QED
  BY <1>1, <1>2, <1>3

(* The tree is as the agent starts.                                        *)
LEMMA TreeInitInv == TreeInit => TreeInv
<1> SUFFICES ASSUME TreeInit PROVE TreeInv
  OBVIOUS
<1> USE ContextTreeAssumption
<1>1. TreeTypeOK
  <2>1. files \in Seq(Seq(Nodes))
    BY DEF TreeInit
  <2> QED
    BY <2>1 DEF TreeInit, TreeTypeOK, Ids, NoId
<1>2. TreeShape
  BY DEF TreeInit, TreeShape, Ids
<1>3. SiblingsDistinct
  BY DEF TreeInit, SiblingsDistinct
<1>4. FilesDistinct
  BY DEF TreeInit, FilesDistinct
<1>5. DumpInv
  BY DEF TreeInit, DumpInv
<1>6. FilesComplete
  BY DEF TreeInit, FilesComplete
<1> QED
  BY <1>1, <1>2, <1>3, <1>4, <1>5, <1>6 DEF TreeInv

-----------------------------------------------------------------------------
(* What the invariant says of the file of a thread that is gone.           *)

(* It is complete.                                                         *)
LEMMA LastComplete ==
    ASSUME TreeInv, phase = "none", files # <<>>
    PROVE  SubtreeFile(Last)
<1>1. /\ TreeShape /\ FileIsDump /\ DumpClosed
      /\ walk = NoId /\ TreeTypeOK
  BY DEF TreeInv, DumpInv
<1>2. ASSUME NEW i \in 1..Len(Last)
      PROVE  /\ Last[i].id = 0 => Last[i].parent = NoId
             /\ Last[i].id # 0 => /\ Last[i].parent \in 0..(Last[i].id - 1)
                                  /\ \E j \in 1..Len(Last) : Last[j].id = Last[i].parent
  <2> DEFINE c == Last[i].id
  <2>1. c \in dumpCtxt /\ Last[i].parent = parent[c]
    BY <1>1 DEF FileIsDump
  <2> HIDE DEF c
  <2>2. CASE c = 0
    BY <1>1, <2>1, <2>2 DEF TreeShape, c
  <2>3. CASE c # 0
    <3>1. c \in 1..(idCounter - 1)
      BY <1>1, <2>1, <2>3 DEF DumpClosed, TreeTypeOK
    <3>2. parent[c] \in 0..(c - 1)
      BY <1>1, <3>1 DEF TreeShape
    <3>3. parent[c] # NoId
      BY <3>1, <3>2 DEF NoId
    <3>4. parent[c] \in dumpCtxt
      BY <1>1, <2>1, <2>3, <3>3 DEF DumpClosed
    <3> QED
      BY <1>1, <2>1, <2>3, <3>2, <3>4 DEF FileIsDump, c
  <2> QED
    BY <2>2, <2>3
<1>3. Last # <<>> => \E i \in 1..Len(Last) : Last[i].id = 0
  <2> SUFFICES ASSUME Last # <<>> PROVE \E i \in 1..Len(Last) : Last[i].id = 0
    OBVIOUS
  <2>1. Last \in Seq(Nodes)
    BY <1>1 DEF TreeTypeOK, Last
  <2>2. 1 \in 1..Len(Last)
    BY <2>1
  <2>3. Last[1].id \in dumpCtxt
    BY <1>1, <2>2 DEF FileIsDump
  <2>4. 0 \in dumpCtxt
    BY <1>1, <2>3 DEF DumpClosed
  <2> QED
    BY <1>1, <2>4 DEF FileIsDump
<1>4. \A i \in 1..Len(Last) :
         /\ Last[i].id = 0 => Last[i].parent = NoId
         /\ Last[i].id # 0 => /\ Last[i].parent \in 0..(Last[i].id - 1)
                              /\ \E j \in 1..Len(Last) : Last[j].id = Last[i].parent
  BY <1>2
<1> QED
  BY <1>3, <1>4 DEF SubtreeFile

-----------------------------------------------------------------------------
(* The actions, one lemma each.                                            *)

(* A new thread begins with a root of its own and an empty file.           *)
LEMMA ThreadStartInv == TreeInv /\ ThreadStart => TreeInv'
<1> SUFFICES ASSUME TreeInv, ThreadStart PROVE TreeInv'
  OBVIOUS
<1> USE ContextTreeAssumption
<1>0. /\ TreeTypeOK /\ TreeShape /\ SiblingsDistinct /\ FilesDistinct /\ DumpInv
      /\ files' = Append(files, <<>>)
      /\ files \in Seq(Seq(Nodes))
  BY DEF TreeInv, ThreadStart, TreeTypeOK
<1>1. /\ files' \in Seq(Seq(Nodes))
      /\ Len(files') = Len(files) + 1
      /\ files'[Len(files')] = <<>>
      /\ \A k \in 1..Len(files) : files'[k] = files[k]
  <2>1. <<>> \in Seq(Nodes)
    OBVIOUS
  <2> QED
    BY <1>0, <2>1
<1>2. TreeTypeOK'
  BY <1>0, <1>1 DEF ThreadStart, TreeTypeOK, Ids, NoId
<1>3. TreeShape'
  BY <1>0 DEF ThreadStart, TreeShape, Ids
<1>4. SiblingsDistinct'
  BY DEF ThreadStart, SiblingsDistinct
<1>5. FilesDistinct'
  <2>1. ASSUME NEW k \in 1..Len(files'), NEW i \in 1..Len(files'[k]),
               NEW j \in 1..Len(files'[k]), files'[k][i].id = files'[k][j].id
        PROVE  i = j
    <3>1. CASE k = Len(files')
      BY <1>1, <3>1
    <3>2. CASE k # Len(files')
      <4>1. k \in 1..Len(files) /\ files'[k] = files[k]
        BY <1>0, <1>1, <3>2
      <4> QED
        BY <1>0, <2>1, <4>1 DEF FilesDistinct
    <3> QED
      BY <3>1, <3>2
  <2> QED
    BY <2>1 DEF FilesDistinct
<1>6. DumpInv'
  BY <1>0, <1>1 DEF ThreadStart, DumpInv, Last
<1>7. FilesComplete'
  <2>1. ASSUME NEW k \in 1..(Len(files') - 1) PROVE SubtreeFile(files'[k])
    <3>1. files'[k] = files[k] /\ k \in 1..Len(files)
      BY <1>0, <1>1
    <3>2. CASE k = Len(files)
      <4>1. phase = "none" /\ files # <<>>
        BY <3>1, <3>2 DEF ThreadStart
      <4> QED
        BY <3>1, <3>2, <4>1, LastComplete DEF Last
    <3>3. CASE k # Len(files)
      <4>1. FilesComplete /\ k \in 1..(Len(files) - 1)
        BY <1>0, <3>1, <3>3 DEF TreeInv
      <4> QED
        BY <3>1, <4>1 DEF FilesComplete
    <3> QED
      BY <3>2, <3>3
  <2> QED
    BY <2>1 DEF FilesComplete, SubtreeFile
<1> QED
  BY <1>2, <1>3, <1>4, <1>5, <1>6, <1>7 DEF TreeInv

(* Steps of the handlers, which leave the writer's state alone.            *)
LEMMA NoDump ==
    ASSUME TreeInv, phase = "run", phase' = "run", files' = files
    PROVE  FilesDistinct' /\ FilesComplete' /\ DumpInv'
BY DEF TreeInv, FilesDistinct, FilesComplete, SubtreeFile, DumpInv, Last

(* A frame that is looked for among the children is found or added, under  *)
(* a parent that was there before it.                                      *)
LEMMA AddContextInv ==
    ASSUME TreeInv, NEW f \in Frames, AddContext(f) PROVE TreeInv'
<1> USE ContextTreeAssumption
<1>0. /\ TreeTypeOK /\ TreeShape /\ SiblingsDistinct /\ FilesDistinct /\ DumpInv
      /\ phase = "run" /\ phase' = "run" /\ files' = files
      /\ UNCHANGED <<metrics, phase, todo, dumpCtxt, walk, files>>
  BY DEF TreeInv, AddContext
<1>1. FilesDistinct' /\ FilesComplete' /\ DumpInv'
  BY <1>0, NoDump
<1>2. CASE \E c \in Children(at) : frame[c] = f
  <2>1. /\ at' \in Children(at)
        /\ UNCHANGED <<parent, frame, idCounter>>
    BY <1>2 DEF AddContext
  <2>2. at' \in 1..(idCounter - 1)
    BY <2>1 DEF Children
  <2>3. TreeTypeOK'
    BY <1>0, <2>1, <2>2 DEF TreeTypeOK, Ids
  <2>4. TreeShape'
    BY <1>0, <2>1, <2>2 DEF TreeTypeOK, TreeShape
  <2>5. SiblingsDistinct'
    BY <1>0, <2>1 DEF SiblingsDistinct
  <2> QED
    BY <1>1, <2>3, <2>4, <2>5 DEF TreeInv
<1>3. CASE ~ \E c \in Children(at) : frame[c] = f
  <2>1. /\ Room
        /\ at' = idCounter
        /\ parent' = [parent EXCEPT ![idCounter] = at]
        /\ frame' = [frame EXCEPT ![idCounter] = f]
        /\ idCounter' = idCounter + 1
    BY <1>3 DEF AddContext
  <2>2. /\ idCounter \in 1..MaxContexts
        /\ at \in 0..(idCounter - 1)
        /\ parent \in [Ids -> Ids \cup {NoId}]
        /\ frame \in [Ids -> Frames \cup {NoFrame}]
    BY <1>0, <2>1 DEF Room, TreeTypeOK, TreeShape
  <2>3. /\ parent'[idCounter] = at
        /\ frame'[idCounter] = f
        /\ \A c \in 0..(idCounter - 1) : parent'[c] = parent[c] /\ frame'[c] = frame[c]
    BY <2>1, <2>2 DEF Ids
  <2>4. TreeTypeOK'
    <3>1. /\ idCounter' \in 1..(MaxContexts + 1)
          /\ at' \in Ids
          /\ parent' \in [Ids -> Ids \cup {NoId}]
          /\ frame' \in [Ids -> Frames \cup {NoFrame}]
      BY <2>1, <2>2 DEF Ids
    <3> QED
      BY <1>0, <3>1 DEF TreeTypeOK
  <2>5. TreeShape'
    <3>1. ASSUME NEW c \in 1..(idCounter' - 1)
          PROVE  parent'[c] \in 0..(c - 1)
      BY <1>0, <2>1, <2>2, <2>3 DEF TreeShape
    <3>2. parent'[0] = NoId
      BY <1>0, <2>2, <2>3 DEF TreeShape
    <3>3. metrics' \subseteq 1..(idCounter' - 1)
      BY <1>0, <2>1, <2>2 DEF TreeShape
    <3> QED
      BY <1>0, <2>1, <2>2, <3>1, <3>2, <3>3 DEF TreeShape
  <2>6. SiblingsDistinct'
    <3>1. ASSUME NEW c \in 1..(idCounter - 1) PROVE ~ (parent[c] = at /\ frame[c] = f)
      BY <1>3 DEF Children
    <3>2. ASSUME NEW c \in 1..(idCounter' - 1), NEW d \in 1..(idCounter' - 1),
                 parent'[c] = parent'[d], frame'[c] = frame'[d]
          PROVE  c = d
      <4>1. CASE c \in 1..(idCounter - 1) /\ d \in 1..(idCounter - 1)
        BY <1>0, <2>2, <2>3, <3>2, <4>1 DEF SiblingsDistinct
      <4>2. CASE c = idCounter /\ d \in 1..(idCounter - 1)
        BY <2>2, <2>3, <3>1, <3>2, <4>2
      <4>3. CASE d = idCounter /\ c \in 1..(idCounter - 1)
        BY <2>2, <2>3, <3>1, <3>2, <4>3
      <4>4. CASE c = idCounter /\ d = idCounter
        BY <4>4
      <4> QED
        BY <2>1, <2>2, <4>1, <4>2, <4>3, <4>4
    <3> QED
      BY <3>2 DEF SiblingsDistinct
  <2> QED
    BY <1>1, <2>4, <2>5, <2>6 DEF TreeInv
<1> QED
  BY <1>2, <1>3

(* The context whose construction ends may get metrics.                    *)
LEMMA ConstructedContextInv ==
    ASSUME TreeInv, NEW recorded \in BOOLEAN, ConstructedContext(recorded) PROVE TreeInv'
<1> USE ContextTreeAssumption
<1>0. /\ TreeTypeOK /\ TreeShape /\ SiblingsDistinct /\ FilesDistinct /\ DumpInv
      /\ phase = "run" /\ phase' = "run" /\ files' = files
      /\ UNCHANGED <<idCounter, parent, frame, phase, todo, dumpCtxt, walk, files>>
      /\ at # 0 /\ at' = 0
      /\ metrics' \subseteq metrics \cup {at}
  BY DEF TreeInv, ConstructedContext
<1>1. FilesDistinct' /\ FilesComplete' /\ DumpInv'
  BY <1>0, NoDump
<1>2. TreeTypeOK'
  BY <1>0 DEF TreeTypeOK, Ids
<1>3. TreeShape'
  BY <1>0 DEF TreeTypeOK, TreeShape
<1>4. SiblingsDistinct'
  BY <1>0 DEF SiblingsDistinct
<1> QED
  BY <1>1, <1>2, <1>3, <1>4 DEF TreeInv

-----------------------------------------------------------------------------
(* threadEnd.                                                              *)

(* threadEnd begins with every context to visit and none written.          *)
LEMMA ThreadEndInv == TreeInv /\ ThreadEnd => TreeInv'
<1> SUFFICES ASSUME TreeInv, ThreadEnd PROVE TreeInv'
  OBVIOUS
<1> USE ContextTreeAssumption
<1>0. /\ TreeTypeOK /\ TreeShape /\ SiblingsDistinct /\ FilesDistinct /\ DumpInv
      /\ phase = "run" /\ phase' = "dump" /\ todo' = 0..(idCounter - 1)
      /\ dumpCtxt' = {} /\ walk' = NoId /\ at = 0
      /\ UNCHANGED <<idCounter, parent, frame, metrics, at, files>>
  BY DEF TreeInv, ThreadEnd
<1>1. TreeTypeOK'
  BY <1>0 DEF TreeTypeOK, Ids
<1>2. TreeShape' /\ SiblingsDistinct' /\ FilesDistinct' /\ FilesComplete'
  BY <1>0 DEF TreeInv, TreeShape, SiblingsDistinct, FilesDistinct, FilesComplete, SubtreeFile
<1>3. FileIsDump'
  BY <1>0 DEF FileIsDump, DumpInv, Last
<1>4. DumpClosed'
  BY <1>0 DEF DumpClosed, TreeTypeOK, TreeShape
<1>5. DumpInv'
  BY <1>0, <1>3, <1>4 DEF DumpInv
<1> QED
  BY <1>1, <1>2, <1>5 DEF TreeInv

(* A context that was not written is added to the file and the walk goes   *)
(* on to its parent, provided that it has metrics or is the parent of one  *)
(* that was written, and nobody but it was to be walked to.                *)
LEMMA WriteInv ==
    ASSUME TreeInv, phase = "dump", NEW c \in Ids, Write(c), c \notin dumpCtxt,
           c \in 0..(idCounter - 1), walk \in {NoId, c},
           c \in metrics \/ walk = c,
           todo' \subseteq todo, todo \subseteq todo' \cup {c},
           UNCHANGED <<idCounter, parent, frame, metrics, at, phase>>
    PROVE  TreeInv'
<1> USE ContextTreeAssumption
<1>0. /\ TreeTypeOK /\ TreeShape /\ SiblingsDistinct /\ FilesDistinct
      /\ FileIsDump /\ DumpClosed /\ files # <<>>
      /\ files \in Seq(Seq(Nodes))
  BY DEF TreeInv, DumpInv, TreeTypeOK
<1> DEFINE n == [id |-> c, parent |-> parent[c], frame |-> frame[c]]
<1>1. n \in Nodes
  BY <1>0 DEF Nodes, TreeTypeOK
<1>2. /\ files' = [files EXCEPT ![Len(files)] = Append(@, n)]
      /\ dumpCtxt' = dumpCtxt \cup {c}
      /\ walk' = parent[c]
  BY DEF Write
<1>3. /\ n.id = c /\ n.parent = parent[c] /\ n.frame = frame[c]
  OBVIOUS
<1> HIDE DEF n
<1>4. /\ files' \in Seq(Seq(Nodes))
      /\ Len(files') = Len(files)
      /\ Last' = Append(Last, n)
      /\ \A k \in 1..Len(files) : k # Len(files) => files'[k] = files[k]
      /\ Last \in Seq(Nodes)
  BY <1>0, <1>1, <1>2, ExtendLast DEF Last
<1>5. /\ Len(Last) \in Nat
      /\ Len(Last') = Len(Last) + 1
      /\ Last'[Len(Last) + 1] = n
      /\ \A i \in 1..Len(Last) : Last'[i] = Last[i]
  BY <1>1, <1>4
<1>6. TreeTypeOK'
  <2>1. walk' \in Ids \cup {NoId} /\ dumpCtxt' \subseteq Ids /\ todo' \subseteq Ids
    BY <1>0, <1>2 DEF TreeTypeOK
  <2> QED
    BY <1>0, <1>4, <2>1 DEF TreeTypeOK
<1>7. TreeShape' /\ SiblingsDistinct'
  BY <1>0 DEF TreeShape, SiblingsDistinct
<1>8. ASSUME NEW i \in 1..Len(Last') PROVE i \in 1..Len(Last) \/ i = Len(Last) + 1
  BY <1>5
<1>9. ASSUME NEW i \in 1..Len(Last) PROVE Last[i].id # c
  BY <1>0 DEF FileIsDump
<1>10. FilesDistinct'
  <2>1. ASSUME NEW k \in 1..Len(files'), NEW i \in 1..Len(files'[k]),
               NEW j \in 1..Len(files'[k]), files'[k][i].id = files'[k][j].id
        PROVE  i = j
    <3>1. CASE k # Len(files)
      BY <1>0, <1>4, <2>1, <3>1 DEF FilesDistinct
    <3>2. CASE k = Len(files)
      <4>1. /\ files'[k] = Last'
            /\ i \in 1..Len(Last') /\ j \in 1..Len(Last') /\ Last'[i].id = Last'[j].id
        BY <1>4, <2>1, <3>2 DEF Last
      <4>2. \A x, y \in 1..Len(Last) : Last[x].id = Last[y].id => x = y
        BY <1>0 DEF FilesDistinct, Last
      <4>3. CASE i \in 1..Len(Last) /\ j \in 1..Len(Last)
        BY <1>5, <4>1, <4>2, <4>3
      <4>4. CASE i \in 1..Len(Last) /\ j = Len(Last) + 1
        BY <1>3, <1>5, <1>9, <4>1, <4>4
      <4>5. CASE i = Len(Last) + 1 /\ j \in 1..Len(Last)
        BY <1>3, <1>5, <1>9, <4>1, <4>5
      <4>6. CASE i = Len(Last) + 1 /\ j = Len(Last) + 1
        BY <4>6
      <4> QED
        BY <1>8, <4>1, <4>3, <4>4, <4>5, <4>6
    <3> QED
      BY <3>1, <3>2
  <2> QED
    BY <2>1 DEF FilesDistinct
<1>11. FileIsDump'
  <2>1. ASSUME NEW i \in 1..Len(Last')
        PROVE  /\ Last'[i].id \in dumpCtxt'
               /\ Last'[i].parent = parent'[Last'[i].id]
               /\ Last'[i].frame = frame'[Last'[i].id]
    <3>1. CASE i \in 1..Len(Last)
      BY <1>0, <1>2, <1>5, <3>1 DEF FileIsDump
    <3>2. CASE i = Len(Last) + 1
      BY <1>2, <1>3, <1>5, <3>2
    <3> QED
      BY <1>8, <3>1, <3>2
  <2>2. ASSUME NEW d \in dumpCtxt' PROVE \E i \in 1..Len(Last') : Last'[i].id = d
    <3>1. CASE d = c
      BY <1>3, <1>5, <3>1
    <3>2. CASE d \in dumpCtxt
      BY <1>0, <1>5, <3>2 DEF FileIsDump
    <3> QED
      BY <1>2, <3>1, <3>2
  <2> QED
    BY <2>1, <2>2 DEF FileIsDump
<1>12. DumpClosed'
  <2>1. dumpCtxt' \subseteq 0..(idCounter' - 1)
    BY <1>0, <1>2 DEF DumpClosed
  <2>2. metrics' \ dumpCtxt' \subseteq todo'
    BY <1>0, <1>2 DEF DumpClosed
  <2>3. ASSUME NEW d \in dumpCtxt', d # 0 PROVE parent'[d] \in dumpCtxt' \cup {walk'}
    <3>1. CASE d = c
      BY <1>2, <3>1
    <3>2. CASE d # c
      <4>1. d \in dumpCtxt
        BY <1>2, <3>2
      <4>2. parent[d] \in dumpCtxt \cup {walk}
        BY <1>0, <2>3, <4>1 DEF DumpClosed
      <4>3. d \in 1..(idCounter - 1)
        BY <1>0, <2>3, <4>1 DEF DumpClosed, TreeTypeOK
      <4>4. parent[d] # NoId
        BY <1>0, <4>3 DEF TreeShape, NoId
      <4> QED
        BY <1>2, <4>2, <4>4
    <3> QED
      BY <3>1, <3>2
  <2>4. ASSUME NEW d \in dumpCtxt' \ metrics' PROVE \E e \in dumpCtxt' : parent'[e] = d
    <3>1. CASE d # c
      BY <1>0, <1>2, <3>1 DEF DumpClosed
    <3>2. CASE d = c
      <4>1. walk = c /\ c # NoId
        BY <2>4, <3>2 DEF Ids, NoId
      <4> QED
        BY <1>0, <1>2, <3>2, <4>1 DEF DumpClosed
    <3> QED
      BY <3>1, <3>2
  <2>5. walk' # NoId => \E d \in dumpCtxt' : parent'[d] = walk'
    BY <1>2
  <2>6. ASSUME 0 \notin dumpCtxt', NEW d \in dumpCtxt' PROVE walk' # NoId /\ walk' < d
    <3>1. c \in 1..(idCounter - 1)
      BY <1>0, <1>2, <2>6 DEF TreeTypeOK
    <3>2. walk' \in 0..(c - 1)
      BY <1>0, <1>2, <3>1 DEF TreeShape
    <3>3. CASE d = c
      BY <3>1, <3>2, <3>3 DEF NoId
    <3>4. CASE d # c
      <4>1. d \in dumpCtxt /\ 0 \notin dumpCtxt
        BY <1>2, <2>6, <3>4
      <4>2. walk # NoId /\ walk < d
        BY <1>0, <4>1 DEF DumpClosed
      <4>3. c < d /\ d \in Int
        BY <1>0, <4>1, <4>2 DEF DumpClosed
      <4> QED
        BY <3>1, <3>2, <4>3 DEF NoId
    <3> QED
      BY <3>3, <3>4
  <2>7. 0 \notin dumpCtxt' => \A d \in dumpCtxt' : walk' # NoId /\ walk' < d
    BY <2>6
  <2> QED
    BY <2>1, <2>2, <2>3, <2>4, <2>5, <2>7 DEF DumpClosed
<1>13. DumpInv'
  <2>1. files' # <<>> /\ phase' = "dump"
    BY <1>0, <1>4
  <2> QED
    BY <1>11, <1>12, <2>1 DEF DumpInv
<1>14. FilesComplete'
  <2>1. ASSUME NEW k \in 1..(Len(files') - 1) PROVE SubtreeFile(files'[k])
    <3>1. files'[k] = files[k] /\ k \in 1..(Len(files) - 1) /\ FilesComplete
      BY <1>0, <1>4 DEF TreeInv
    <3> QED
      BY <3>1 DEF FilesComplete
  <2> QED
    BY <2>1 DEF FilesComplete, SubtreeFile
<1> QED
  BY <1>6, <1>7, <1>10, <1>13, <1>14 DEF TreeInv

(* A step of threadEnd that writes nothing.                                *)
LEMMA NoWriteInv ==
    ASSUME TreeInv, phase = "dump", phase' \in {"dump", "none"},
           UNCHANGED <<idCounter, parent, frame, metrics, at, dumpCtxt, files>>,
           walk' \in {NoId, walk}, walk' # walk => walk \in dumpCtxt,
           todo' \subseteq todo, todo \ todo' \subseteq dumpCtxt \cup (Ids \ metrics),
           phase' = "none" => (todo' = {} /\ walk' = NoId)
    PROVE  TreeInv'
<1> USE ContextTreeAssumption
<1>0. /\ TreeTypeOK /\ TreeShape /\ SiblingsDistinct /\ FilesDistinct
      /\ FileIsDump /\ DumpClosed /\ files # <<>>
  BY DEF TreeInv, DumpInv
<1>1. TreeTypeOK'
  BY <1>0 DEF TreeTypeOK
<1>2. TreeShape' /\ SiblingsDistinct' /\ FilesDistinct' /\ FilesComplete'
  BY <1>0 DEF TreeInv, DumpInv, TreeShape, SiblingsDistinct, FilesDistinct, FilesComplete,
              SubtreeFile
<1>3. FileIsDump'
  BY <1>0 DEF FileIsDump, Last
<1>4. DumpClosed'
  <2>1. 0 \notin dumpCtxt => \A d \in dumpCtxt : walk' # NoId /\ walk' < d
    <3> SUFFICES ASSUME 0 \notin dumpCtxt, NEW d \in dumpCtxt
                 PROVE  walk' # NoId /\ walk' < d
      OBVIOUS
    <3>1. \A e \in dumpCtxt : walk # NoId /\ walk < e
      BY <1>0 DEF DumpClosed
    <3>2. walk \notin dumpCtxt
      BY <1>0, <3>1 DEF TreeTypeOK, Ids, NoId
    <3> QED
      BY <3>1, <3>2
  <2> QED
    BY <1>0, <2>1 DEF DumpClosed
<1>5. DumpInv'
  BY <1>0, <1>3, <1>4 DEF DumpInv
<1> QED
  BY <1>1, <1>2, <1>5 DEF TreeInv

(* The loop over the context map.                                          *)
LEMMA VisitContextInv ==
    ASSUME TreeInv, NEW c \in Ids, VisitContext(c) PROVE TreeInv'
<1>0. /\ phase = "dump" /\ walk = NoId /\ c \in todo /\ todo' = todo \ {c}
      /\ UNCHANGED <<idCounter, parent, frame, metrics, at, phase>>
  BY DEF VisitContext
<1>1. CASE c \in metrics \ dumpCtxt
  <2>1. Write(c)
    BY <1>1 DEF VisitContext
  <2>2. c \in 0..(idCounter - 1)
    BY <1>1 DEF TreeInv, TreeShape, TreeTypeOK
  <2> QED
    BY <1>0, <1>1, <2>1, <2>2, WriteInv
<1>2. CASE c \notin metrics \ dumpCtxt
  <2>1. UNCHANGED <<dumpCtxt, files, walk>>
    BY <1>2 DEF VisitContext
  <2> QED
    BY <1>0, <1>2, <2>1, NoWriteInv
<1> QED
  BY <1>1, <1>2

(* The loop up through the ancestors.                                      *)
LEMMA WalkParentInv == TreeInv /\ WalkParent => TreeInv'
<1> SUFFICES ASSUME TreeInv, WalkParent PROVE TreeInv'
  OBVIOUS
<1>0. /\ phase = "dump" /\ walk # NoId
      /\ UNCHANGED <<idCounter, parent, frame, metrics, at, phase, todo>>
  BY DEF WalkParent
<1>1. CASE walk \in dumpCtxt
  <2>1. walk' = NoId /\ UNCHANGED <<dumpCtxt, files>>
    BY <1>1 DEF WalkParent
  <2> QED
    BY <1>0, <1>1, <2>1, NoWriteInv
<1>2. CASE walk \notin dumpCtxt
  <2>1. Write(walk)
    BY <1>2 DEF WalkParent
  <2>2. walk \in Ids
    BY <1>0 DEF TreeInv, TreeTypeOK
  <2>3. PICK d \in dumpCtxt : parent[d] = walk
    BY <1>0 DEF TreeInv, DumpInv, DumpClosed
  <2>4. d \in 0..(idCounter - 1) /\ idCounter \in Nat
    BY <1>0 DEF TreeInv, DumpInv, DumpClosed, TreeTypeOK
  <2>5. d # 0
    BY <1>0, <2>3 DEF TreeInv, TreeShape
  <2>6. walk \in 0..(idCounter - 1)
    BY <2>3, <2>4, <2>5 DEF TreeInv, TreeShape
  <2> QED
    BY <1>0, <1>2, <2>1, <2>2, <2>6, WriteInv
<1> QED
  BY <1>1, <1>2

(* The thread is gone.                                                     *)
LEMMA ThreadGoneInv == TreeInv /\ ThreadGone => TreeInv'
<1> SUFFICES ASSUME TreeInv, ThreadGone PROVE TreeInv'
  OBVIOUS
<1> QED
  BY NoWriteInv DEF ThreadGone

(* The tree's own steps keep the invariant, and so do steps of others.     *)
LEMMA TreeNextInv == TreeInv /\ TreeNext => TreeInv'
BY ThreadStartInv, AddContextInv, ConstructedContextInv, ThreadEndInv, VisitContextInv,
   WalkParentInv, ThreadGoneInv DEF TreeNext

(* Nothing of the invariant is about anybody else's state.                 *)
LEMMA TreeUnchangedInv == TreeInv /\ UNCHANGED treeVars => TreeInv'
<1> SUFFICES ASSUME TreeInv, UNCHANGED treeVars PROVE TreeInv'
  OBVIOUS
<1>1. TreeTypeOK' /\ TreeShape' /\ SiblingsDistinct'
  BY DEF TreeInv, treeVars, TreeTypeOK, TreeShape, SiblingsDistinct
<1>2. FilesDistinct' /\ FilesComplete'
  BY DEF TreeInv, treeVars, FilesDistinct, FilesComplete, SubtreeFile
<1>3. DumpInv'
  BY DEF TreeInv, treeVars, DumpInv, FileIsDump, DumpClosed, Last
<1> QED
  BY <1>1, <1>2, <1>3 DEF TreeInv

(* The file of a thread that is gone is the subtree it should be.          *)
LEMMA InvFileIsSubtree == TreeInv => FileIsSubtree
<1> SUFFICES ASSUME TreeInv, phase = "none", files # <<>>
             PROVE  LET f   == files[Len(files)]
                        ids == {f[i].id : i \in 1..Len(f)}
                    IN  /\ metrics \subseteq ids
                        /\ \A c \in ids : c # 0 => parent[c] \in ids
                        /\ \A c \in ids \ metrics : \E d \in ids : parent[d] = c
                        /\ \A i, j \in 1..Len(f) : f[i].id = f[j].id => i = j
  BY DEF FileIsSubtree
<1> DEFINE ids == {Last[i].id : i \in 1..Len(Last)}
<1>1. /\ TreeShape /\ FilesDistinct /\ FileIsDump /\ DumpClosed
      /\ todo = {} /\ walk = NoId /\ TreeTypeOK
  BY DEF TreeInv, DumpInv
<1>2. ids = dumpCtxt
  BY <1>1 DEF FileIsDump
<1> HIDE DEF ids
<1>3. metrics \subseteq ids
  BY <1>1, <1>2 DEF DumpClosed
<1>4. ASSUME NEW c \in ids, c # 0 PROVE parent[c] \in ids
  <2>1. c \in 1..(idCounter - 1)
    BY <1>1, <1>2, <1>4 DEF DumpClosed, TreeTypeOK
  <2>2. parent[c] # NoId
    BY <1>1, <2>1 DEF TreeShape, NoId
  <2> QED
    BY <1>1, <1>2, <1>4, <2>2 DEF DumpClosed
<1>5. \A c \in ids \ metrics : \E d \in ids : parent[d] = c
  BY <1>1, <1>2 DEF DumpClosed
<1>6. \A i, j \in 1..Len(Last) : Last[i].id = Last[j].id => i = j
  <2>1. Len(files) \in 1..Len(files)
    BY <1>1 DEF TreeTypeOK
  <2> QED
    BY <1>1, <2>1 DEF FilesDistinct, Last
<1> QED
  BY <1>3, <1>4, <1>5, <1>6 DEF ids, Last

=============================================================================
