--------------------------- MODULE LibcVfsProofs ---------------------------
(***************************************************************************)
(* Proofs about LibcVfs: the streams' types, that files only grow, and     *)
(* that the C library files implement Vfs, for any processes, file objects *)
(* and paths, and files of any bounded length.                             *)
(***************************************************************************)
EXTENDS LibcVfs, TLAPS

AnyBlock == Data \union {Hole, Torn}

IsFile(blocks) == blocks \in Seq(AnyBlock) /\ Len(blocks) <= MaxBlocks

\* No file that is in use gets shorter.
FilesGrow == \A n \in Nodes : Used(n) => Len(content'[n]) >= Len(content[n])

-----------------------------------------------------------------------------
(* Blocks *)

\* A write makes a file longer or leaves its length.
LEMMA WrittenFile ==
  ASSUME NEW old, IsFile(old), NEW b \in Blocks, NEW d \in AnyBlock
  PROVE  /\ IsFile(Written(old, b, d))
         /\ Len(Written(old, b, d)) = IF b < Len(old) THEN Len(old) ELSE b + 1
         /\ DOMAIN Written(old, b, d) = 1..Len(Written(old, b, d))
<1> DEFINE n == IF b < Len(old) THEN Len(old) ELSE b + 1
<1>1. n \in Nat /\ n <= MaxBlocks /\ n >= Len(old)
  BY VfsAssumption DEF IsFile, Blocks
<1>2. \A i \in 1..n : (IF i = b + 1 THEN d ELSE IF i <= Len(old) THEN old[i] ELSE Hole)
                         \in AnyBlock
  BY DEF IsFile, AnyBlock
<1>3. Written(old, b, d) \in [1..n -> AnyBlock]
  BY <1>2, Zenon DEF Written
<1> HIDE DEF n
<1>4. Written(old, b, d) \in Seq(AnyBlock) /\ Len(Written(old, b, d)) = n
  BY <1>1, <1>3
<1> QED BY <1>1, <1>3, <1>4, Zenon DEF n, IsFile

\* The stream of a file object has a file.
LEMMA OpenFile ==
  ASSUME VfsTypeOK, NEW h \in Handles, fp[h] # NoNode
  PROVE  fp[h] \in Nodes /\ IsFile(content[fp[h]]) /\ Used(fp[h])
BY Zenon DEF VfsTypeOK, IsFile, AnyBlock, Used

\* A buffered write is of a block that fits the file.
LEMMA BufferedWrite ==
  ASSUME VfsTypeOK, NEW h \in Handles, buffer[h] # <<>>
  PROVE  /\ buffer[h][1].block \in Blocks /\ buffer[h][1].data \in Data
         /\ Len(buffer[h]) = 1 /\ DOMAIN buffer[h] = {1}
<1> DEFINE Writes == [block : Blocks, data : Data]
<1>1. buffer[h] \in Seq(Writes) /\ Len(buffer[h]) = 1
  BY Zenon DEF VfsTypeOK
<1> HIDE DEF Writes
<1>2. buffer[h][1] \in Writes /\ DOMAIN buffer[h] = {1}
  BY <1>1
<1> USE DEF Writes
<1>3. buffer[h][1].block \in Blocks /\ buffer[h][1].data \in Data
  BY <1>2, Zenon
<1> QED BY <1>1, <1>2, <1>3, Zenon

\* Flushing a stream never shortens its file.
LEMMA FlushedFile ==
  ASSUME VfsTypeOK, NEW h \in Handles, fp[h] # NoNode
  PROVE  IsFile(Flushed(h)) /\ Len(Flushed(h)) >= Len(content[fp[h]])
<1>1. IsFile(content[fp[h]])
  BY OpenFile, Zenon
<1>2. CASE buffer[h] = <<>>
  BY <1>1, <1>2 DEF Flushed, IsFile
<1>3. CASE buffer[h] # <<>>
  <2>1. buffer[h][1].block \in Blocks /\ buffer[h][1].data \in AnyBlock
    BY <1>3, BufferedWrite, Zenon DEF AnyBlock
  <2>2. Flushed(h) = Written(content[fp[h]], buffer[h][1].block, buffer[h][1].data)
    BY <1>3, Zenon DEF Flushed
  <2> DEFINE b == buffer[h][1].block
             old == content[fp[h]]
  <2>3. IsFile(Flushed(h)) /\ Len(Flushed(h)) = IF b < Len(old) THEN Len(old) ELSE b + 1
    BY <1>1, <2>1, <2>2, WrittenFile
  <2>4. b \in Int /\ Len(old) \in Nat
    BY <1>1, <2>1 DEF IsFile, Blocks
  <2> QED BY <2>3, <2>4
<1> QED BY <1>2, <1>3, Zenon

\* A write through h's stream.
LEMMA WrittenThrough ==
  ASSUME VfsTypeOK, NEW h \in Handles, fp[h] # NoNode, NEW b \in Blocks, NEW d \in AnyBlock
  PROVE  /\ IsFile(Written(Flushed(h), b, d))
         /\ Len(Written(Flushed(h), b, d)) >= Len(content[fp[h]])
<1>1. IsFile(Flushed(h)) /\ Len(Flushed(h)) >= Len(content[fp[h]])
  BY FlushedFile, Zenon
<1>2. IsFile(content[fp[h]])
  BY OpenFile, Zenon
<1>3. /\ IsFile(Written(Flushed(h), b, d))
      /\ Len(Written(Flushed(h), b, d)) = IF b < Len(Flushed(h)) THEN Len(Flushed(h)) ELSE b + 1
  BY <1>1, WrittenFile, Zenon
<1>4. b \in Int /\ Len(Flushed(h)) \in Nat /\ Len(content[fp[h]]) \in Nat
  BY <1>1, <1>2 DEF IsFile, Blocks
<1> QED BY <1>1, <1>3, <1>4

ContentTypes ==
  /\ content \in [Nodes -> Seq(Data \union {Hole, Torn})]
  /\ \A n \in Nodes : Len(content[n]) <= MaxBlocks

\* A stream that writes to its file leaves files that are at least as long.
LEMMA NewContent ==
  ASSUME VfsTypeOK, NEW h \in Handles, fp[h] # NoNode, NEW blocks, IsFile(blocks),
         Len(blocks) >= Len(content[fp[h]]), SetContent(h, blocks)
  PROVE  ContentTypes' /\ FilesGrow
BY OpenFile DEF VfsTypeOK, SetContent, IsFile, AnyBlock, ContentTypes, FilesGrow

\* A step that writes nothing leaves the files as they are.
LEMMA SameContent ==
  ASSUME VfsTypeOK, UNCHANGED content
  PROVE  ContentTypes' /\ FilesGrow
BY DEF VfsTypeOK, ContentTypes, FilesGrow

-----------------------------------------------------------------------------
(* Types and growth, one action after the other *)

\* What the invariant says of h.
HandleTypes(h) ==
  /\ args[h] # NoArgs <=> phase[h] # "none"
  /\ fp[h] # NoNode <=> phase[h] \in {"measure", "open"}
  /\ buffer[h] # <<>> => IsOpen(h) /\ IsBuffered(h) /\ Len(buffer[h]) = 1

StreamTypes ==
  /\ fp \in [Handles -> Nodes \union {NoNode}]
  /\ buffer \in [Handles -> Seq([block : Blocks, data : Data])]
  /\ phase \in [Handles -> {"none", "reopen", "measure", "open"}]
  /\ args \in [Handles -> [kind : {"random", "block"}, path : Paths] \union {NoArgs}]

\* Only h's stream has changed.
OnlyConcerns(h) ==
  \A g \in Handles : g # h => /\ fp'[g] = fp[g] /\ buffer'[g] = buffer[g]
                              /\ phase'[g] = phase[g] /\ args'[g] = args[g]

\* What changes one stream keeps the types when it does so for that stream.
LEMMA HandleStep ==
  ASSUME VfsTypeOK, NEW h \in Handles, StreamTypes', OnlyConcerns(h), HandleTypes(h)',
         dir' \in [Paths -> Nodes \union {NoNode}], ContentTypes'
  PROVE  VfsTypeOK'
<1>1. \A g \in Handles : g # h => HandleTypes(g)'
  BY DEF VfsTypeOK, HandleTypes, IsOpen, IsBuffered, OnlyConcerns
<1> QED BY <1>1, Zenon DEF VfsTypeOK, ContentTypes, HandleTypes, StreamTypes

\* An open call that fails leaves nothing of the object.
LEMMA OpenFailsStep ==
  ASSUME VfsTypeOK, NEW h \in Handles, phase[h] # "open", OpenFails(h),
         UNCHANGED <<dir, content, buffer>>
  PROVE  VfsTypeOK'
<1>1. StreamTypes' /\ OnlyConcerns(h)
  BY Zenon DEF VfsTypeOK, OpenFails, SetPhase, StreamTypes, OnlyConcerns
<1>2. HandleTypes(h)'
  BY Zenon DEF VfsTypeOK, OpenFails, SetPhase, HandleTypes, IsOpen
<1>3. ContentTypes' /\ dir' \in [Paths -> Nodes \union {NoNode}]
  BY SameContent, Zenon DEF VfsTypeOK
<1> QED BY <1>1, <1>2, <1>3, HandleStep, Zenon

\* fopen creates an empty file that nobody has used before.
LEMMA CreateFileStep ==
  ASSUME VfsTypeOK, NEW p \in Paths, CreateFile(p)
  PROVE  /\ dir' \in [Paths -> Nodes \union {NoNode}] /\ dir'[p] \in Nodes
         /\ ContentTypes' /\ FilesGrow
<1>1. PICK n \in Nodes : /\ ~Used(n)
                         /\ dir' = [dir EXCEPT ![p] = n]
                         /\ content' = [content EXCEPT ![n] = <<>>]
  BY Zenon DEF CreateFile
<1>2. <<>> \in Seq(Data \union {Hole, Torn}) /\ Len(<<>>) = 0 /\ 0 <= MaxBlocks
  BY VfsAssumption
<1>3. ContentTypes'
  BY <1>1, <1>2, Zenon DEF VfsTypeOK, ContentTypes
<1>4. FilesGrow
  BY <1>1 DEF FilesGrow, VfsTypeOK
<1> QED BY <1>1, <1>3, <1>4, Zenon DEF VfsTypeOK

\* A step that leaves the streams' files, and where their calls are.
LEMMA DataStep ==
  ASSUME VfsTypeOK, NEW h \in Handles, IsOpen(h), UNCHANGED <<dir, fp, phase, args>>,
         NEW writes, SetBuffer(h, writes), ContentTypes',
         \/ writes = <<>>
         \/ IsBuffered(h) /\ \E b \in Blocks, d \in Data : writes = <<[block |-> b, data |-> d]>>
  PROVE  VfsTypeOK'
<1>1. /\ writes \in Seq([block : Blocks, data : Data])
      /\ writes # <<>> => IsBuffered(h) /\ Len(writes) = 1
  <2>1. CASE writes = <<>>
    BY <2>1
  <2>2. CASE IsBuffered(h) /\ \E b \in Blocks, d \in Data : writes = <<[block |-> b, data |-> d]>>
    <3>1. PICK b \in Blocks, d \in Data : writes = <<[block |-> b, data |-> d]>>
      BY <2>2, Zenon
    <3> DEFINE w == [block |-> b, data |-> d]
    <3>2. w \in [block : Blocks, data : Data]
      BY Zenon
    <3> HIDE DEF w
    <3>3. writes = <<w>>
      BY <3>1, Zenon DEF w
    <3> QED BY <2>2, <3>2, <3>3
  <2> QED BY <2>1, <2>2, Zenon
<1>2. StreamTypes' /\ OnlyConcerns(h)
  BY <1>1, Zenon DEF VfsTypeOK, SetBuffer, StreamTypes, OnlyConcerns
<1>3. HandleTypes(h)'
  BY <1>1, Zenon DEF VfsTypeOK, SetBuffer, HandleTypes, IsOpen, IsBuffered
<1>4. dir' \in [Paths -> Nodes \union {NoNode}]
  BY Zenon DEF VfsTypeOK
<1> QED BY <1>2, <1>3, <1>4, HandleStep, Zenon

\* OpenLibcFile's first call of fopen.
LEMMA OpenStep ==
  ASSUME VfsTypeOK, NEW h \in Handles, NEW kind \in {"random", "block"}, NEW p \in Paths,
         NEW o \in Options, Open(h, kind, p, o)
  PROVE  VfsTypeOK' /\ FilesGrow
<1> DEFINE a == [kind |-> kind, path |-> p]
<1>1. a \in [kind : {"random", "block"}, path : Paths] /\ a # NoArgs
  BY Zenon DEF NoArgs
<1> HIDE DEF a
<1>2. fp[h] = NoNode /\ buffer[h] = <<>> /\ UNCHANGED buffer
  BY Zenon DEF Open, VfsTypeOK, IsOpen
<1>3. CASE OpenFails(h) /\ UNCHANGED <<dir, content>>
  <2>1. phase[h] # "open"
    BY Zenon DEF Open
  <2> QED BY <1>2, <1>3, <2>1, OpenFailsStep, SameContent, Zenon
<1>4. CASE /\ CreateFile(p) /\ fp' = [fp EXCEPT ![h] = dir'[p]]
           /\ SetPhase(h, "measure") /\ args' = [args EXCEPT ![h] = a]
  <2>1. /\ dir' \in [Paths -> Nodes \union {NoNode}] /\ dir'[p] \in Nodes
        /\ ContentTypes' /\ FilesGrow
    BY <1>4, CreateFileStep, Zenon
  <2>2. StreamTypes' /\ OnlyConcerns(h)
    BY <1>1, <1>2, <1>4, <2>1, Zenon DEF VfsTypeOK, SetPhase, StreamTypes, OnlyConcerns
  <2>3. HandleTypes(h)'
    BY <1>1, <1>2, <1>4, <2>1, VfsAssumption, Zenon
    DEF VfsTypeOK, SetPhase, HandleTypes, IsOpen
  <2> QED BY <2>1, <2>2, <2>3, HandleStep, Zenon
<1>5. CASE /\ SetPhase(h, "reopen") /\ args' = [args EXCEPT ![h] = a] /\ UNCHANGED fp
           /\ CreateFile(p) \/ UNCHANGED <<dir, content>>
  <2>1. dir' \in [Paths -> Nodes \union {NoNode}] /\ ContentTypes' /\ FilesGrow
    BY <1>5, CreateFileStep, SameContent, Zenon DEF VfsTypeOK
  <2>2. StreamTypes' /\ OnlyConcerns(h)
    BY <1>1, <1>2, <1>5, Zenon DEF VfsTypeOK, SetPhase, StreamTypes, OnlyConcerns
  <2>3. HandleTypes(h)'
    BY <1>1, <1>2, <1>5, Zenon DEF VfsTypeOK, SetPhase, HandleTypes, IsOpen
  <2> QED BY <2>1, <2>2, <2>3, HandleStep, Zenon
<1> QED BY <1>3, <1>4, <1>5, Zenon DEF Open, OpenExclusive, a

\* OpenLibcFile's second call of fopen, on a file that now exists or not.
LEMMA OpenExistingStep ==
  ASSUME VfsTypeOK, NEW h \in Handles, OpenExisting(h)
  PROVE  VfsTypeOK' /\ FilesGrow
<1>1. /\ phase[h] = "reopen" /\ args[h] \in [kind : {"random", "block"}, path : Paths]
      /\ buffer[h] = <<>> /\ args[h].path \in Paths
  BY Zenon DEF OpenExisting, VfsTypeOK, IsOpen
<1>2. FilesGrow /\ ContentTypes' /\ dir' \in [Paths -> Nodes \union {NoNode}]
  BY SameContent, Zenon DEF OpenExisting, VfsTypeOK
<1>3. CASE OpenFails(h)
  BY <1>1, <1>2, <1>3, OpenFailsStep, Zenon DEF OpenExisting
<1>4. CASE /\ dir[args[h].path] # NoNode
           /\ fp' = [fp EXCEPT ![h] = dir[args[h].path]]
           /\ SetPhase(h, "measure") /\ UNCHANGED <<args, result>>
  <2>1. dir[args[h].path] \in Nodes
    BY <1>1, <1>4, Zenon DEF VfsTypeOK
  <2>2. StreamTypes' /\ OnlyConcerns(h)
    BY <1>4, <2>1, Zenon DEF OpenExisting, VfsTypeOK, SetPhase, StreamTypes, OnlyConcerns
  <2>3. HandleTypes(h)'
    BY <1>1, <1>4, <2>1, Zenon DEF OpenExisting, VfsTypeOK, SetPhase, HandleTypes, IsOpen
  <2> QED BY <1>2, <2>2, <2>3, HandleStep, Zenon
<1> QED BY <1>3, <1>4, Zenon DEF OpenExisting

\* OpenLibcFile's fseek and ftell, after which the object is open or closed.
LEMMA MeasureFileStep ==
  ASSUME VfsTypeOK, NEW h \in Handles, MeasureFile(h)
  PROVE  VfsTypeOK' /\ FilesGrow
<1>1. FilesGrow /\ ContentTypes' /\ dir' \in [Paths -> Nodes \union {NoNode}]
  BY SameContent, Zenon DEF MeasureFile, VfsTypeOK
<1>2. CASE OpenFails(h)
  BY <1>1, <1>2, OpenFailsStep, Zenon DEF MeasureFile
<1>3. CASE SetPhase(h, "open") /\ UNCHANGED <<fp, args>>
  <2>1. StreamTypes' /\ OnlyConcerns(h)
    BY <1>3, Zenon DEF MeasureFile, VfsTypeOK, SetPhase, StreamTypes, OnlyConcerns
  <2>2. HandleTypes(h)'
    BY <1>3, Zenon DEF MeasureFile, VfsTypeOK, SetPhase, HandleTypes, IsOpen, IsBuffered
  <2> QED BY <1>1, <2>1, <2>2, HandleStep, Zenon
<1> QED BY <1>2, <1>3, Zenon DEF MeasureFile

\* Read, Flush and Sync write out the buffer.
LEMMA FlushingStep ==
  ASSUME VfsTypeOK, NEW h \in Handles, IsOpen(h), UNCHANGED <<dir, fp, phase, args>>,
         SetContent(h, Flushed(h)), SetBuffer(h, <<>>)
  PROVE  VfsTypeOK' /\ FilesGrow
<1>1. fp[h] # NoNode
  BY Zenon DEF VfsTypeOK, IsOpen
<1>2. ContentTypes' /\ FilesGrow
  BY <1>1, FlushedFile, NewContent, Zenon
<1> QED BY <1>2, DataStep, Zenon

\* WriteLibcFile buffers a block, or writes it.
LEMMA WriteStep ==
  ASSUME VfsTypeOK, NEW h \in Handles, NEW b \in Blocks, NEW d \in Data, Write(h, b, d)
  PROVE  VfsTypeOK' /\ FilesGrow
<1>1. fp[h] # NoNode /\ IsOpen(h) /\ UNCHANGED <<dir, fp, phase, args>> /\ d \in AnyBlock
  BY Zenon DEF Write, VfsTypeOK, IsOpen, AnyBlock
<1>2. CASE /\ IsBuffered(h) /\ SetContent(h, Flushed(h))
           /\ SetBuffer(h, <<[block |-> b, data |-> d]>>)
  <2>1. ContentTypes' /\ FilesGrow
    BY <1>1, <1>2, FlushedFile, NewContent, Zenon
  <2> QED BY <1>1, <1>2, <2>1, DataStep, Zenon
<1>3. CASE SetContent(h, Written(Flushed(h), b, d)) /\ SetBuffer(h, <<>>)
  <2>1. ContentTypes' /\ FilesGrow
    BY <1>1, <1>3, WrittenThrough, NewContent, Zenon
  <2> QED BY <1>1, <1>3, <2>1, DataStep, Zenon
<1> QED BY <1>2, <1>3, Zenon DEF Write

\* A failing read, write or flush leaves, writes or loses the buffered block.
LEMMA FailsStep ==
  ASSUME VfsTypeOK, NEW h \in Handles, NEW call, Fails(h, call)
  PROVE  VfsTypeOK' /\ FilesGrow
<1>1. fp[h] # NoNode /\ IsOpen(h) /\ UNCHANGED <<dir, fp, phase, args>> /\ Torn \in AnyBlock
  BY Zenon DEF Fails, VfsTypeOK, IsOpen, AnyBlock
<1>2. CASE UNCHANGED <<content, buffer>>
  <2>1. ContentTypes' /\ FilesGrow
    BY <1>2, SameContent, Zenon
  <2>2. StreamTypes' /\ OnlyConcerns(h)
    BY <1>1, <1>2, Zenon DEF VfsTypeOK, StreamTypes, OnlyConcerns
  <2>3. HandleTypes(h)'
    BY <1>1, <1>2, Zenon DEF VfsTypeOK, HandleTypes, IsOpen, IsBuffered
  <2>4. dir' \in [Paths -> Nodes \union {NoNode}]
    BY <1>1, Zenon DEF VfsTypeOK
  <2> QED BY <2>1, <2>2, <2>3, <2>4, HandleStep, Zenon
<1>3. CASE SetBuffer(h, <<>>) /\ UNCHANGED content
  BY <1>1, <1>3, SameContent, DataStep, Zenon
<1>4. CASE SetBuffer(h, <<>>) /\ SetContent(h, Flushed(h))
  BY <1>1, <1>4, FlushingStep, Zenon
<1>5. CASE SetBuffer(h, <<>>) /\ \E b \in Blocks : SetContent(h, Written(Flushed(h), b, Torn))
  <2>1. PICK b \in Blocks : SetContent(h, Written(Flushed(h), b, Torn))
    BY <1>5, Zenon
  <2>2. ContentTypes' /\ FilesGrow
    BY <1>1, <2>1, WrittenThrough, NewContent, Zenon
  <2> QED BY <1>1, <1>5, <2>2, DataStep, Zenon
<1> QED BY <1>2, <1>3, <1>4, <1>5, Zenon DEF Fails

\* fclose writes the buffered block or loses it.
LEMMA CloseStep ==
  ASSUME VfsTypeOK, NEW h \in Handles, Close(h)
  PROVE  VfsTypeOK' /\ FilesGrow
<1>1. fp[h] # NoNode
  BY Zenon DEF Close, VfsTypeOK, IsOpen
<1>2. ContentTypes' /\ FilesGrow
  BY <1>1, FlushedFile, NewContent, SameContent, Zenon DEF Close
<1>3. StreamTypes' /\ OnlyConcerns(h)
  <2>1. <<>> \in Seq([block : Blocks, data : Data])
    OBVIOUS
  <2>2. buffer' \in [Handles -> Seq([block : Blocks, data : Data])]
    BY <2>1, Zenon DEF Close, SetBuffer, VfsTypeOK
  <2>3. OnlyConcerns(h)
    BY Zenon DEF Close, SetBuffer, SetPhase, VfsTypeOK, OnlyConcerns
  <2>4. /\ fp' \in [Handles -> Nodes \union {NoNode}]
        /\ phase' \in [Handles -> {"none", "reopen", "measure", "open"}]
        /\ args' \in [Handles -> [kind : {"random", "block"}, path : Paths] \union {NoArgs}]
    BY Zenon DEF Close, SetPhase, VfsTypeOK
  <2> QED BY <2>2, <2>3, <2>4, Zenon DEF StreamTypes
<1>4. HandleTypes(h)'
  BY Zenon DEF Close, SetBuffer, SetPhase, VfsTypeOK, HandleTypes
<1>5. dir' \in [Paths -> Nodes \union {NoNode}]
  BY Zenon DEF Close, VfsTypeOK
<1> QED BY <1>2, <1>3, <1>4, <1>5, HandleStep, Zenon

\* The operating system closes the streams of a process that dies.
LEMMA CrashStep ==
  ASSUME VfsTypeOK, NEW process, Crash(process)
  PROVE  VfsTypeOK' /\ FilesGrow
<1>1. ContentTypes' /\ FilesGrow /\ dir' \in [Paths -> Nodes \union {NoNode}]
  BY SameContent, Zenon DEF Crash, VfsTypeOK
<1>2. StreamTypes'
  <2> DEFINE Writes == Seq([block : Blocks, data : Data])
             Args == [kind : {"random", "block"}, path : Paths] \union {NoArgs}
  <2>1. <<>> \in Writes /\ NoArgs \in Args
    OBVIOUS
  <2>2. buffer \in [Handles -> Writes] /\ args \in [Handles -> Args]
    BY Zenon DEF VfsTypeOK
  <2> HIDE DEF Writes, Args
  <2>3. buffer' \in [Handles -> Writes] /\ args' \in [Handles -> Args]
    BY <2>1, <2>2, Zenon DEF Crash
  <2>4. /\ fp' \in [Handles -> Nodes \union {NoNode}]
        /\ phase' \in [Handles -> {"none", "reopen", "measure", "open"}]
    BY Zenon DEF Crash, VfsTypeOK
  <2> QED BY <2>3, <2>4, Zenon DEF StreamTypes, Writes, Args
<1>3. \A h \in Handles : HandleTypes(h)'
  BY Zenon DEF Crash, VfsTypeOK, HandleTypes, IsOpen, IsBuffered
<1> QED BY <1>1, <1>2, <1>3, Zenon DEF VfsTypeOK, ContentTypes, HandleTypes, StreamTypes

\* Steps that change no stream and no file.
LEMMA QuietStep ==
  ASSUME VfsTypeOK, dir' \in [Paths -> Nodes \union {NoNode}],
         UNCHANGED <<content, fp, buffer, phase, args>>
  PROVE  VfsTypeOK' /\ FilesGrow
<1>1. ContentTypes' /\ FilesGrow
  BY SameContent, Zenon
<1>2. fp' = fp /\ buffer' = buffer /\ phase' = phase /\ args' = args
  BY Zenon
<1>3. StreamTypes'
  BY <1>2, Zenon DEF VfsTypeOK, StreamTypes
<1>4. \A h \in Handles : HandleTypes(h)'
  BY <1>2, Zenon DEF VfsTypeOK, HandleTypes, IsOpen, IsBuffered
<1> QED BY <1>1, <1>3, <1>4, Zenon DEF VfsTypeOK, ContentTypes, HandleTypes, StreamTypes

\* The types are right when no file has been opened.
LEMMA InitTypes == VfsInit => VfsTypeOK
<1> SUFFICES ASSUME VfsInit PROVE VfsTypeOK
  BY Zenon
<1>1. StreamTypes
  <2> DEFINE Writes == Seq([block : Blocks, data : Data])
  <2>1. <<>> \in Writes
    OBVIOUS
  <2> HIDE DEF Writes
  <2>2. buffer \in [Handles -> Writes]
    BY <2>1, Zenon DEF VfsInit
  <2>3. /\ fp \in [Handles -> Nodes \union {NoNode}]
        /\ phase \in [Handles -> {"none", "reopen", "measure", "open"}]
        /\ args \in [Handles -> [kind : {"random", "block"}, path : Paths] \union {NoArgs}]
    BY Zenon DEF VfsInit
  <2> QED BY <2>2, <2>3, Zenon DEF StreamTypes, Writes
<1>2. \A h \in Handles : HandleTypes(h)
  BY Zenon DEF VfsInit, HandleTypes
<1>3. ContentTypes /\ dir \in [Paths -> Nodes \union {NoNode}]
  BY VfsAssumption DEF VfsInit, ContentTypes
<1> QED BY <1>1, <1>2, <1>3, Zenon DEF VfsTypeOK, ContentTypes, HandleTypes, StreamTypes

\* Every step keeps the types, and lets files only grow.
LEMMA NextTypes ==
  ASSUME VfsTypeOK, [VfsNext]_vfsVars
  PROVE  VfsTypeOK' /\ FilesGrow
<1>1. ASSUME UNCHANGED vfsVars PROVE VfsTypeOK' /\ FilesGrow
  BY <1>1, QuietStep, Zenon DEF vfsVars, VfsTypeOK
<1>2. ASSUME NEW p \in Paths, RemoveFile(p) PROVE VfsTypeOK' /\ FilesGrow
  <2>1. dir' \in [Paths -> Nodes \union {NoNode}]
    BY <1>2, Zenon DEF RemoveFile, VfsTypeOK
  <2> QED BY <1>2, <2>1, QuietStep, Zenon DEF RemoveFile
<1>3. ASSUME NEW h \in Handles, Calls(h) PROVE VfsTypeOK' /\ FilesGrow
  <2>1. ASSUME NEW kind \in {"random", "block"}, NEW p \in Paths, NEW o \in Options,
               Open(h, kind, p, o)
        PROVE  VfsTypeOK' /\ FilesGrow
    BY <2>1, OpenStep, Zenon
  <2>2. ASSUME NEW b \in Blocks, Read(h, b) PROVE VfsTypeOK' /\ FilesGrow
    BY <2>2, FlushingStep, Zenon DEF Read
  <2>3. ASSUME NEW b \in Blocks, NEW d \in Data, Write(h, b, d)
        PROVE  VfsTypeOK' /\ FilesGrow
    BY <2>3, WriteStep, Zenon
  <2>4. ASSUME NEW call \in {"Flush", "Sync"}, Flush(h, call)
        PROVE  VfsTypeOK' /\ FilesGrow
    BY <2>4, FlushingStep, Zenon DEF Flush
  <2>5. ASSUME NEW call \in {"Read", "Write", "Flush", "Sync"}, Fails(h, call)
        PROVE  VfsTypeOK' /\ FilesGrow
    BY <2>5, FailsStep, Zenon
  <2>6. ASSUME Lock(h) PROVE VfsTypeOK' /\ FilesGrow
    BY <2>6, QuietStep, Zenon DEF Lock, VfsTypeOK
  <2> QED BY <1>3, <2>1, <2>2, <2>3, <2>4, <2>5, <2>6, OpenExistingStep, MeasureFileStep,
             CloseStep, Zenon DEF Calls
<1> QED BY <1>1, <1>2, <1>3, CrashStep, Zenon DEF VfsNext

\* The streams keep their types: whatever fails, OpenLibcFile, Close and the end
\* of a process leave no stream without a file object, and only random access
\* files hold data back (libc_vfs.cc:27-66, 112-124).
THEOREM StreamsAreTyped == VfsSpec => []VfsTypeOK
<1>1. VfsTypeOK /\ [VfsNext]_vfsVars => VfsTypeOK'
  BY NextTypes, Zenon
<1> QED BY <1>1, InitTypes, PTL DEF VfsSpec

\* No open call, however it ends, no other call and no crash shortens a file
\* that has a name or that someone has open.
THEOREM FilesAreNotTruncated == VfsSpec => OpensTruncateNothing
<1>1. VfsTypeOK /\ [VfsNext]_vfsVars => [FilesGrow]_vfsVars
  BY NextTypes, Zenon
<1>2. [FilesGrow]_vfsVars =>
        [\A n \in Nodes : Used(n) => Len(content'[n]) >= Len(content[n])]_vfsVars
  BY Zenon DEF FilesGrow
<1> QED BY <1>1, <1>2, StreamsAreTyped, PTL DEF VfsSpec, OpensTruncateNothing

-----------------------------------------------------------------------------
(* What Vfs says of blocks, in terms of Written *)

NoWrites == Abstract!NoWrites
Overlay(old, ws) == Abstract!Overlay(old, ws)
Only(ws, S) == Abstract!Only(ws, S)

\* Writes that the file has already.
LEMMA OverlaySame ==
  ASSUME NEW old, IsFile(old), NEW ws, DOMAIN ws \subseteq Blocks,
         \A c \in DOMAIN ws : c < Len(old) /\ old[c + 1] = ws[c]
  PROVE  Overlay(old, ws) = old
<1> DEFINE last == {b \in Abstract!Blocks : b < Len(old) \/ \E c \in DOMAIN ws : b <= c}
<1>1. \A b \in last : b \in Nat /\ b < Len(old)
  BY DEF Blocks, Abstract!Blocks, IsFile
<1>2. {b + 1 : b \in last} = 1..Len(old)
  <2>1. \A i \in 1..Len(old) : i - 1 \in last /\ i = (i - 1) + 1
    BY VfsAssumption DEF Abstract!Blocks, IsFile
  <2>2. \A b \in last : b + 1 \in 1..Len(old)
    BY <1>1 DEF IsFile
  <2> HIDE DEF last
  <2> QED BY <2>1, <2>2, Zenon
<1> HIDE DEF last
<1>3. Overlay(old, ws) = [i \in 1..Len(old) |->
                            IF i - 1 \in DOMAIN ws THEN ws[i - 1]
                            ELSE IF i <= Len(old) THEN old[i] ELSE Hole]
  BY <1>2, Zenon DEF last, Overlay, Abstract!Overlay
<1>4. \A i \in 1..Len(old) : i - 1 \in DOMAIN ws => ws[i - 1] = old[i]
  BY DEF IsFile
<1>5. old = [i \in 1..Len(old) |-> old[i]]
  BY DEF IsFile
<1>6. \A i \in 1..Len(old) : i <= Len(old)
  BY DEF IsFile
<1> QED BY <1>3, <1>4, <1>5, <1>6, Zenon

\* Writes of which the file has all but one.
LEMMA OverlayOne ==
  ASSUME NEW old, IsFile(old), NEW ws, DOMAIN ws \subseteq Blocks, NEW b \in DOMAIN ws,
         \A c \in DOMAIN ws : c # b => c < Len(old) /\ old[c + 1] = ws[c]
  PROVE  Overlay(old, ws) = Written(old, b, ws[b])
<1> DEFINE last == {c \in Abstract!Blocks : c < Len(old) \/ \E e \in DOMAIN ws : c <= e}
           n == IF b < Len(old) THEN Len(old) ELSE b + 1
<1>1. n \in Nat /\ n >= Len(old) /\ n >= b + 1 /\ n <= MaxBlocks /\ b \in Nat /\ Len(old) \in Nat
  BY VfsAssumption DEF IsFile, Blocks
<1>2. \A i \in 1..n : i <= Len(old) \/ i - 1 <= b
  BY <1>1
<1>3. \A c \in Blocks : (c < Len(old) \/ \E e \in DOMAIN ws : c <= e) => c < n
  BY <1>1 DEF Blocks
<1> HIDE DEF n
<1>4. {c + 1 : c \in last} = 1..n
  <2>1. \A i \in 1..n : i - 1 \in last /\ i = (i - 1) + 1
    BY <1>1, <1>2, VfsAssumption DEF Abstract!Blocks
  <2>2. \A c \in last : c + 1 \in 1..n
    BY <1>1, <1>3 DEF Blocks, Abstract!Blocks
  <2> HIDE DEF last
  <2> QED BY <2>1, <2>2, Zenon
<1> HIDE DEF last
<1>5. Overlay(old, ws) = [i \in 1..n |->
                            IF i - 1 \in DOMAIN ws THEN ws[i - 1]
                            ELSE IF i <= Len(old) THEN old[i] ELSE Hole]
  BY <1>4, Zenon DEF last, Overlay, Abstract!Overlay
<1>6. Written(old, b, ws[b]) = [i \in 1..n |->
        IF i = b + 1 THEN ws[b] ELSE IF i <= Len(old) THEN old[i] ELSE Hole]
  BY Zenon DEF Written, n
<1>7. \A i \in 1..n : i - 1 \in DOMAIN ws /\ i # b + 1 => i <= Len(old) /\ ws[i - 1] = old[i]
  BY <1>1 DEF IsFile
<1>8. \A i \in 1..n : i = b + 1 <=> i - 1 = b
  BY <1>1
<1> QED BY <1>5, <1>6, <1>7, <1>8

\* The writes that a stream's buffer stands for.
LEMMA PendingWrites ==
  ASSUME VfsTypeOK, NEW h \in Handles
  PROVE  /\ buffer[h] = <<>> => Pending[h] = NoWrites
         /\ buffer[h] # <<>> =>
              Pending[h] = [c \in {buffer[h][1].block} |-> buffer[h][1].data]
         /\ DOMAIN Pending[h] \subseteq Blocks
<1>1. ASSUME buffer[h] = <<>> PROVE Pending[h] = NoWrites
  BY <1>1 DEF Pending, NoWrites, Abstract!NoWrites
<1>2. ASSUME buffer[h] # <<>>
      PROVE  /\ Pending[h] = [c \in {buffer[h][1].block} |-> buffer[h][1].data]
             /\ buffer[h][1].block \in Blocks
  <2>1. DOMAIN buffer[h] = {1} /\ buffer[h][1].block \in Blocks
    BY <1>2, BufferedWrite, Zenon
  <2>2. {buffer[h][i].block : i \in DOMAIN buffer[h]} = {buffer[h][1].block}
    BY <2>1, Zenon
  <2> QED BY <2>1, <2>2, Zenon DEF Pending
<1> QED BY <1>1, <1>2, Zenon DEF NoWrites, Abstract!NoWrites

\* What reads through a stream see is the file once the buffer is written out.
LEMMA ViewIsFlushed ==
  ASSUME VfsTypeOK, NEW h \in Handles, fp[h] # NoNode
  PROVE  /\ Overlay(content[fp[h]], Pending[h]) = Flushed(h)
         /\ \A c \in DOMAIN Pending[h] : /\ c < Len(Flushed(h))
                                         /\ Flushed(h)[c + 1] = Pending[h][c]
         /\ Only(Pending[h], Blocks) = Pending[h]
         /\ Only(Pending[h], {}) = NoWrites
         /\ Overlay(content[fp[h]], NoWrites) = content[fp[h]]
<1> DEFINE old == content[fp[h]]
<1>1. IsFile(old)
  BY OpenFile, Zenon
<1>2. Overlay(old, NoWrites) = old
  BY <1>1, OverlaySame DEF NoWrites, Abstract!NoWrites
<1>3. CASE buffer[h] = <<>>
  <2>1. Pending[h] = NoWrites /\ Flushed(h) = old
    BY <1>3, PendingWrites, Zenon DEF Flushed
  <2> QED BY <1>2, <2>1, Zenon DEF Only, NoWrites, Abstract!Only, Abstract!NoWrites
<1>4. CASE buffer[h] # <<>>
  <2> DEFINE b == buffer[h][1].block
             d == buffer[h][1].data
  <2>1. b \in Blocks /\ d \in AnyBlock /\ Pending[h] = [c \in {b} |-> d]
    BY <1>4, BufferedWrite, PendingWrites, Zenon DEF AnyBlock
  <2>2. Flushed(h) = Written(old, b, d)
    BY <1>4, Zenon DEF Flushed
  <2> HIDE DEF b, d, old
  <2>3. Overlay(old, Pending[h]) = Written(old, b, d)
    BY <1>1, <2>1, OverlayOne
  <2>4. b < Len(Written(old, b, d)) /\ Written(old, b, d)[b + 1] = d
    <3>1. Len(Written(old, b, d)) = IF b < Len(old) THEN Len(old) ELSE b + 1
      BY <1>1, <2>1, WrittenFile, Zenon
    <3>2. b \in Nat /\ Len(old) \in Nat
      BY <1>1, <2>1 DEF IsFile, Blocks
    <3> QED BY <3>1, <3>2 DEF Written
  <2>5. Only(Pending[h], Blocks) = Pending[h] /\ Only(Pending[h], {}) = NoWrites
    <3>1. /\ Only([c \in {b} |-> d], Blocks) = [c \in {b} |-> d]
          /\ Only([c \in {b} |-> d], {}) = NoWrites
      BY <2>1, Zenon DEF Only, NoWrites, Abstract!Only, Abstract!NoWrites
    <3> QED BY <2>1, <3>1, Zenon
  <2> QED BY <1>2, <2>1, <2>2, <2>3, <2>4, <2>5, Zenon DEF old
<1> QED BY <1>3, <1>4, Zenon

-----------------------------------------------------------------------------
(* Every step is a step of Vfs *)

\* What becomes of the writes that are held back.
LEMMA PendingStep ==
  ASSUME VfsTypeOK, NEW h \in Handles
  PROVE  /\ SetBuffer(h, <<>>) => Pending' = [Pending EXCEPT ![h] = NoWrites]
         /\ \A b, d : SetBuffer(h, <<[block |-> b, data |-> d]>>) =>
              Pending' = [Pending EXCEPT ![h] = [c \in {b} |-> d]]
<1> DEFINE P(writes) == [c \in {writes[i].block : i \in DOMAIN writes} |-> writes[1].data]
<1>1. \A writes : SetBuffer(h, writes) => Pending' = [Pending EXCEPT ![h] = P(writes)]
  <2> SUFFICES ASSUME NEW writes, SetBuffer(h, writes)
               PROVE  Pending' = [Pending EXCEPT ![h] = P(writes)]
    BY Zenon
  <2>1. Pending = [g \in Handles |-> P(buffer[g])] /\ Pending' = [g \in Handles |-> P(buffer'[g])]
    BY Zenon DEF Pending
  <2>2. buffer' \in [Handles -> {buffer'[g] : g \in Handles}] /\ buffer'[h] = writes
    BY Zenon DEF SetBuffer, VfsTypeOK
  <2>3. \A g \in Handles : g # h => buffer'[g] = buffer[g]
    BY Zenon DEF SetBuffer, VfsTypeOK
  <2> HIDE DEF P
  <2> QED BY <2>1, <2>2, <2>3, Zenon
<1>2. P(<<>>) = NoWrites
  BY DEF NoWrites, Abstract!NoWrites
<1>3. ASSUME NEW b, NEW d PROVE P(<<[block |-> b, data |-> d]>>) = [c \in {b} |-> d]
  <2> DEFINE w == [block |-> b, data |-> d]
  <2>1. w.block = b /\ w.data = d
    BY Zenon
  <2> HIDE DEF w
  <2>2. DOMAIN <<w>> = {1} /\ <<w>>[1] = w
    OBVIOUS
  <2>3. {<<w>>[i].block : i \in DOMAIN <<w>>} = {b}
    BY <2>1, <2>2, Zenon
  <2>4. P(<<w>>) = [c \in {b} |-> d]
    BY <2>1, <2>2, <2>3, Zenon
  <2> QED BY <2>4, Zenon DEF w
<1> HIDE DEF P
<1>4. SetBuffer(h, <<>>) => Pending' = [Pending EXCEPT ![h] = NoWrites]
  BY <1>1, <1>2, Zenon
<1>5. ASSUME NEW b, NEW d, SetBuffer(h, <<[block |-> b, data |-> d]>>)
      PROVE  Pending' = [Pending EXCEPT ![h] = [c \in {b} |-> d]]
  <2> DEFINE writes == <<[block |-> b, data |-> d]>>
  <2>1. P(writes) = [c \in {b} |-> d] /\ SetBuffer(h, writes)
    BY <1>3, <1>5, Zenon
  <2> HIDE DEF writes
  <2> QED BY <1>1, <2>1, Zenon
<1> QED BY <1>4, <1>5, Zenon

\* The buffer is written out and empty: all that is held back is handed over.
LEMMA HandOverAll ==
  ASSUME VfsTypeOK, NEW h \in Handles, fp[h] # NoNode, SetContent(h, Flushed(h))
  PROVE  Abstract!HandOver(h, Blocks)
<1>1. /\ Overlay(content[fp[h]], Pending[h]) = Flushed(h)
      /\ Only(Pending[h], Blocks) = Pending[h]
      /\ fp[h] \in Nodes /\ content \in [Nodes -> Seq(Data \union {Hole, Torn})]
  BY ViewIsFlushed, OpenFile, Zenon DEF VfsTypeOK
<1> QED BY <1>1, Zenon DEF Abstract!HandOver, SetContent, Overlay, Only

\* Nothing is handed over.
LEMMA HandOverNothing ==
  ASSUME VfsTypeOK, NEW h \in Handles, fp[h] # NoNode, UNCHANGED content
  PROVE  Abstract!HandOver(h, {})
<1>1. /\ Overlay(content[fp[h]], NoWrites) = content[fp[h]]
      /\ Only(Pending[h], {}) = NoWrites
      /\ fp[h] \in Nodes /\ content \in [Nodes -> Seq(Data \union {Hole, Torn})]
  BY ViewIsFlushed, OpenFile, Zenon DEF VfsTypeOK
<1> QED BY <1>1, Zenon DEF Abstract!HandOver, Overlay, Only

\* Vfs and LibcVfs have the same blocks.
LEMMA BlocksAreBlocks == Abstract!Blocks = Blocks
BY Zenon DEF Abstract!Blocks, Blocks

\* ReadLibcFile reads the file with the object's own writes.
LEMMA ReadIsRead ==
  ASSUME VfsTypeOK, NEW h \in Handles, NEW b \in Blocks, Read(h, b)
  PROVE  fp[h] # NoNode /\ Abstract!Read(h, b)
<1>1. fp[h] # NoNode
  BY Zenon DEF Read, VfsTypeOK, IsOpen
<1>2. Abstract!View(h) = Flushed(h)
  BY <1>1, ViewIsFlushed, Zenon DEF Abstract!View, Overlay
<1>3. /\ Abstract!HandOver(h, Blocks) /\ Pending' = [Pending EXCEPT ![h] = NoWrites]
  BY <1>1, HandOverAll, PendingStep, Zenon DEF Read
<1>4. Only(Pending[h], Blocks \ Blocks) = NoWrites
  BY <1>1, ViewIsFlushed, Zenon
<1>5. Pending' = [Pending EXCEPT ![h] = Only(@, Blocks \ Blocks)]
  BY <1>3, <1>4, Zenon DEF Pending
<1>6. \E S \in SUBSET Abstract!Blocks :
        /\ Abstract!HandOver(h, S)
        /\ Pending' = [Pending EXCEPT ![h] = Abstract!Only(@, Abstract!Blocks \ S)]
  BY <1>3, <1>5, BlocksAreBlocks, Zenon DEF Only
<1>7. IF b < Len(Abstract!View(h))
      THEN Abstract!Return("Read", h, "kSuccess", Abstract!View(h)[b + 1])
      ELSE Abstract!Return("Read", h, "kIoError", Hole)
  BY <1>2, Zenon DEF Read, Return, Abstract!Return
<1> QED BY <1>1, <1>6, <1>7, Zenon DEF Abstract!Read, Read

\* The writes of h with d to block b among them.
NewWrites(h, b, d) ==
  [c \in DOMAIN Pending[h] \union {b} |-> IF c = b THEN d ELSE Pending[h][c]]

\* WriteLibcFile is a write that the object holds back or hands over.
LEMMA WriteIsWrite ==
  ASSUME VfsTypeOK, NEW h \in Handles, NEW b \in Blocks, NEW d \in Data, Write(h, b, d)
  PROVE  fp[h] # NoNode /\ Abstract!Write(h, b, d)
<1> DEFINE F == Flushed(h)
           ws == NewWrites(h, b, d)
<1>1. fp[h] # NoNode /\ fp[h] \in Nodes /\ content \in [Nodes -> Seq(Data \union {Hole, Torn})]
  BY OpenFile, Zenon DEF Write, VfsTypeOK, IsOpen
<1>2. /\ IsFile(F) /\ Overlay(content[fp[h]], Pending[h]) = F
      /\ \A c \in DOMAIN Pending[h] : c < Len(F) /\ F[c + 1] = Pending[h][c]
      /\ Only(Pending[h], Blocks) = Pending[h]
      /\ DOMAIN Pending[h] \subseteq Blocks
  BY <1>1, FlushedFile, ViewIsFlushed, PendingWrites, Zenon
<1> HIDE DEF F
<1>3. ASSUME NEW T \in SUBSET Blocks,
             content' = [content EXCEPT ![fp[h]] = Overlay(F, Only(ws, T))],
             Pending' = [Pending EXCEPT ![h] = Only(ws, Blocks \ T)]
      PROVE  Abstract!Write(h, b, d)
  <2>1. content' = [content EXCEPT ![fp[h]] =
                      Overlay(Overlay(@, Only(Pending[h], Blocks)), Only(ws, T))]
    BY <1>1, <1>2, <1>3, Zenon
  <2>2. \E S, U \in SUBSET Abstract!Blocks :
          /\ content' = [content EXCEPT ![fp[h]] =
               Abstract!Overlay(Abstract!Overlay(@, Abstract!Only(Pending[h], S)),
                                Abstract!Only(ws, U))]
          /\ Pending' = [Pending EXCEPT ![h] = Abstract!Only(ws, Abstract!Blocks \ U)]
    BY <1>3, <2>1, BlocksAreBlocks, Zenon DEF Overlay, Only
  <2>3. Abstract!Return("Write", h, "kSuccess", d) /\ UNCHANGED <<dir, fp>>
    BY Zenon DEF Write, Return, Abstract!Return
  <2> QED BY <2>2, <2>3, Zenon DEF Abstract!Write, NewWrites
<1>4. CASE SetContent(h, F) /\ SetBuffer(h, <<[block |-> b, data |-> d]>>)
  <2> DEFINE T == Blocks \ {b}
  <2>1. Only(ws, T) = Only(Pending[h], T) /\ DOMAIN Only(Pending[h], T) \subseteq DOMAIN Pending[h]
    BY Zenon DEF Only, Abstract!Only, NewWrites
  <2>2. \A c \in DOMAIN Only(Pending[h], T) : Only(Pending[h], T)[c] = Pending[h][c]
    BY Zenon DEF Only, Abstract!Only
  <2>3. Overlay(F, Only(ws, T)) = F
    <3> HIDE DEF T, ws
    <3> QED BY <1>2, <2>1, <2>2, OverlaySame
  <2>4. Only(ws, Blocks \ T) = [c \in {b} |-> d]
    BY Zenon DEF Only, Abstract!Only, NewWrites
  <2>5. Pending' = [Pending EXCEPT ![h] = Only(ws, Blocks \ T)]
    BY <1>4, <2>4, PendingStep, Zenon
  <2> HIDE DEF T, ws
  <2>6. T \in SUBSET Blocks
    BY Zenon DEF T
  <2> QED BY <1>1, <1>3, <1>4, <2>3, <2>5, <2>6, Zenon DEF SetContent
<1>5. CASE SetContent(h, Written(F, b, d)) /\ SetBuffer(h, <<>>)
  <2> DEFINE new == Only(ws, Blocks)
  <2>1. /\ DOMAIN new = DOMAIN Pending[h] \union {b} /\ new[b] = d
        /\ \A c \in DOMAIN new : c # b => new[c] = Pending[h][c]
    BY <1>2 DEF Only, Abstract!Only, NewWrites
  <2>2. Overlay(F, new) = Written(F, b, d)
    <3> HIDE DEF new
    <3>1. DOMAIN new \subseteq Blocks /\ b \in DOMAIN new
      BY <1>2, <2>1, Zenon
    <3>2. \A c \in DOMAIN new : c # b => c < Len(F) /\ F[c + 1] = new[c]
      BY <1>2, <2>1, Zenon
    <3>3. Overlay(F, new) = Written(F, b, new[b])
      BY <1>2, <3>1, <3>2, OverlayOne
    <3> QED BY <2>1, <3>3, Zenon
  <2>3. Only(ws, Blocks \ Blocks) = NoWrites
    BY Zenon DEF Only, NoWrites, Abstract!Only, Abstract!NoWrites
  <2>4. Pending' = [Pending EXCEPT ![h] = Only(ws, Blocks \ Blocks)]
    BY <1>5, <2>3, PendingStep, Zenon
  <2> HIDE DEF ws
  <2> QED BY <1>1, <1>3, <1>5, <2>2, <2>4, Zenon DEF SetContent
<1> QED BY <1>1, <1>4, <1>5, Zenon DEF Write, F

\* fflush hands over what the object has held back.
LEMMA FlushIsFlush ==
  ASSUME VfsTypeOK, NEW h \in Handles, NEW call, Flush(h, call)
  PROVE  fp[h] # NoNode /\ Abstract!Flush(h, call)
<1>1. fp[h] # NoNode
  BY Zenon DEF Flush, VfsTypeOK, IsOpen
<1>2. Abstract!HandOver(h, Blocks) /\ Pending' = [Pending EXCEPT ![h] = NoWrites]
  BY <1>1, HandOverAll, PendingStep, Zenon DEF Flush
<1> QED BY <1>1, <1>2, BlocksAreBlocks, Zenon
    DEF Flush, Return, NoWrites, Abstract!Flush, Abstract!Return

\* A failing call does what vfs.h allows it to do.
LEMMA FailsIsFail ==
  ASSUME VfsTypeOK, NEW h \in Handles, NEW call, Fails(h, call)
  PROVE  fp[h] # NoNode /\ Abstract!Fail(h, call)
<1> DEFINE F == Flushed(h)
           old == content[fp[h]]
<1>1. fp[h] # NoNode /\ fp[h] \in Nodes /\ content \in [Nodes -> Seq(Data \union {Hole, Torn})]
  BY OpenFile, Zenon DEF Fails, VfsTypeOK, IsOpen
<1>2. /\ IsFile(F) /\ Overlay(old, Pending[h]) = F /\ Overlay(old, NoWrites) = old
      /\ Only(Pending[h], Blocks) = Pending[h] /\ Only(Pending[h], {}) = NoWrites
  BY <1>1, FlushedFile, ViewIsFlushed, Zenon
<1>3. Overlay(F, NoWrites) = F
  BY <1>2, OverlaySame, Zenon DEF NoWrites, Abstract!NoWrites
<1>4. 0 \in Blocks
  BY VfsAssumption DEF Blocks
<1> HIDE DEF F
<1>5. ASSUME NEW L \in SUBSET Blocks, NEW S \in SUBSET Blocks, NEW b \in Blocks,
             NEW torn \in {call = "Write", FALSE},
             Pending' = [Pending EXCEPT ![h] = Only(Pending[h], L)],
             content' = [content EXCEPT ![fp[h]] =
                           Overlay(Overlay(old, Only(Pending[h], S)),
                                   IF torn THEN [c \in {b} |-> Torn] ELSE NoWrites)]
      PROVE  Abstract!Fail(h, call)
  <2>1. \E M \in SUBSET Abstract!Blocks : Pending' = [Pending EXCEPT ![h] = Abstract!Only(@, M)]
    BY <1>5, BlocksAreBlocks, Zenon DEF Only, Pending
  <2>2. content' = [content EXCEPT ![fp[h]] =
                      Overlay(Overlay(@, Only(Pending[h], S)),
                              IF torn THEN [c \in {b} |-> Torn] ELSE NoWrites)]
    BY <1>1, <1>5, Zenon
  <2>3. Abstract!Return(call, h, "kIoError", Hole) /\ UNCHANGED <<dir, fp>>
    BY Zenon DEF Fails, Return, Abstract!Return
  <2> QED BY <2>1, <2>2, <2>3, BlocksAreBlocks, Zenon DEF Abstract!Fail, Overlay, Only, NoWrites
<1>6. CASE UNCHANGED <<content, buffer>>
  <2>1. Pending' = [Pending EXCEPT ![h] = Only(Pending[h], Blocks)]
    <3>1. Pending' = Pending
      BY <1>6, Zenon DEF Pending
    <3>2. Pending = [Pending EXCEPT ![h] = Pending[h]]
      BY Zenon DEF Pending
    <3> QED BY <1>2, <3>1, <3>2, Zenon
  <2>2. content' = [content EXCEPT ![fp[h]] =
                      Overlay(Overlay(old, Only(Pending[h], {})), NoWrites)]
    BY <1>1, <1>2, <1>6, Zenon
  <2> QED BY <1>1, <1>4, <1>5, <2>1, <2>2, Zenon
<1>7. CASE SetBuffer(h, <<>>) /\ UNCHANGED content
  <2>1. Pending' = [Pending EXCEPT ![h] = Only(Pending[h], {})]
    BY <1>2, <1>7, PendingStep, Zenon
  <2>2. content' = [content EXCEPT ![fp[h]] =
                      Overlay(Overlay(old, Only(Pending[h], {})), NoWrites)]
    BY <1>1, <1>2, <1>7, Zenon
  <2> QED BY <1>1, <1>4, <1>5, <2>1, <2>2, Zenon
<1>8. CASE SetBuffer(h, <<>>) /\ SetContent(h, F)
  <2>1. Pending' = [Pending EXCEPT ![h] = Only(Pending[h], {})]
    BY <1>2, <1>8, PendingStep, Zenon
  <2>2. content' = [content EXCEPT ![fp[h]] =
                      Overlay(Overlay(old, Only(Pending[h], Blocks)), NoWrites)]
    BY <1>1, <1>2, <1>3, <1>8, Zenon DEF SetContent
  <2> QED BY <1>1, <1>4, <1>5, <2>1, <2>2, Zenon
<1>9. CASE /\ call = "Write" /\ SetBuffer(h, <<>>)
           /\ \E b \in Blocks : SetContent(h, Written(F, b, Torn))
  <2>1. PICK b \in Blocks : SetContent(h, Written(F, b, Torn))
    BY <1>9, Zenon
  <2>2. Pending' = [Pending EXCEPT ![h] = Only(Pending[h], {})]
    BY <1>2, <1>9, PendingStep, Zenon
  <2>3. Overlay(F, [c \in {b} |-> Torn]) = Written(F, b, Torn)
    BY <1>2, OverlayOne
  <2>4. content' = [content EXCEPT ![fp[h]] =
                      Overlay(Overlay(old, Only(Pending[h], Blocks)), [c \in {b} |-> Torn])]
    BY <1>1, <1>2, <2>1, <2>3, Zenon DEF SetContent
  <2> QED BY <1>1, <1>5, <1>9, <2>2, <2>4, Zenon
<1> QED BY <1>1, <1>6, <1>7, <1>8, <1>9, Zenon DEF Fails, F

\* Closing a stream closes the file object.
LEMMA CloseIsClose ==
  ASSUME VfsTypeOK, NEW h \in Handles, Close(h)
  PROVE  fp[h] # NoNode /\ Abstract!Close(h)
<1>1. fp[h] # NoNode
  BY Zenon DEF Close, VfsTypeOK, IsOpen
<1>2. Pending' = [Pending EXCEPT ![h] = NoWrites]
  BY PendingStep, Zenon DEF Close
<1>3. \E S \in SUBSET Blocks : Abstract!HandOver(h, S)
  BY <1>1, HandOverAll, HandOverNothing, Zenon DEF Close
<1> QED BY <1>1, <1>2, <1>3, BlocksAreBlocks, Zenon DEF Close, NoWrites, Abstract!Close

\* The first fopen opens the file, creates it, or does nothing yet.
LEMMA OpenIsOpen ==
  ASSUME VfsTypeOK, NEW h \in Handles, NEW kind \in {"random", "block"}, NEW p \in Paths,
         NEW o \in Options, Open(h, kind, p, o)
  PROVE  Abstract!VfsNext
<1>1. Pending' = Pending /\ fp[h] = NoNode /\ fp \in [Handles -> Nodes \union {NoNode}]
  BY SMTT(30) DEF Open, Pending, VfsTypeOK
<1>2. ASSUME dir[p] = NoNode, CreateFile(p)
      PROVE  \E n \in Nodes : Abstract!CreateFile(p, n)
  BY <1>1, <1>2, Zenon DEF CreateFile, Used, Abstract!CreateFile, Abstract!Used
<1>3. ASSUME OpenFails(h), UNCHANGED <<dir, content>>
      PROVE  Abstract!VfsNext
  <2>1. fp' = fp
    BY <1>1, <1>3, Zenon DEF OpenFails
  <2>2. result'.call \notin {"Read", "Write", "Flush", "Sync"}
    BY <1>3, Zenon DEF OpenFails, Return
  <2> QED BY <1>1, <1>3, <2>1, <2>2, Zenon DEF Abstract!VfsNext
<1>4. CASE o.error_if_exists
  <2>1. CASE /\ dir[p] = NoNode /\ CreateFile(p) /\ fp' = [fp EXCEPT ![h] = dir'[p]]
             /\ UNCHANGED result
    <3>1. Abstract!OpenFile(h, p)
      BY <1>1, <2>1, Zenon DEF Abstract!OpenFile
    <3>2. Abstract!Opens(h)
      BY <1>2, <2>1, <3>1, Zenon DEF Abstract!Opens
    <3> QED BY <2>1, <3>2, Zenon DEF Abstract!VfsNext
  <2> QED BY <1>3, <1>4, <2>1, Zenon DEF Open, OpenExclusive
<1>5. CASE ~o.error_if_exists
  <2>1. UNCHANGED <<fp, result>>
    BY <1>5, Zenon DEF Open
  <2>2. CASE dir[p] = NoNode /\ CreateFile(p)
    BY <1>2, <2>1, <2>2, Zenon DEF Abstract!VfsNext
  <2>3. CASE UNCHANGED <<dir, content>>
    BY <1>1, <2>1, <2>3, Zenon DEF Abstract!VfsNext
  <2> QED BY <1>5, <2>2, <2>3, Zenon DEF Open
<1> QED BY <1>4, <1>5, Zenon

\* The second fopen opens the file, or the call fails.
LEMMA OpenExistingIsOpen ==
  ASSUME VfsTypeOK, NEW h \in Handles, OpenExisting(h)
  PROVE  Abstract!VfsNext
<1>1. /\ Pending' = Pending /\ fp[h] = NoNode /\ fp \in [Handles -> Nodes \union {NoNode}]
      /\ UNCHANGED <<dir, content>>
  <2>1. phase[h] = "reopen" /\ UNCHANGED <<dir, content, buffer>>
    BY Zenon DEF OpenExisting
  <2>2. fp[h] = NoNode /\ fp \in [Handles -> Nodes \union {NoNode}]
    BY <2>1, Zenon DEF VfsTypeOK
  <2>3. Pending' = Pending
    BY <2>1, Zenon DEF Pending
  <2> QED BY <2>1, <2>2, <2>3, Zenon
<1>2. args[h].path \in Paths
  <2>1. args[h] # NoArgs /\ args[h] \in [kind : {"random", "block"}, path : Paths] \union {NoArgs}
    BY Zenon DEF OpenExisting, VfsTypeOK
  <2> QED BY <2>1, Zenon
<1>3. CASE fp' = [fp EXCEPT ![h] = dir[args[h].path]] /\ UNCHANGED result
  <2>1. Abstract!OpenFile(h, args[h].path)
    BY <1>1, <1>3, Zenon DEF Abstract!OpenFile
  <2>2. Abstract!Opens(h)
    BY <1>1, <1>2, <2>1, Zenon DEF Abstract!Opens
  <2> QED BY <1>3, <2>2, Zenon DEF Abstract!VfsNext
<1>4. CASE OpenFails(h)
  <2>1. fp' = fp
    BY <1>1, <1>4, Zenon DEF OpenFails
  <2>2. result'.call \notin {"Read", "Write", "Flush", "Sync"}
    BY <1>4, Zenon DEF OpenFails, Return
  <2> QED BY <1>1, <2>1, <2>2, Zenon DEF Abstract!VfsNext
<1> QED BY <1>3, <1>4, Zenon DEF OpenExisting

\* Measuring completes the open, or closes the stream again.
LEMMA MeasureFileIsOpenOrClose ==
  ASSUME VfsTypeOK, NEW h \in Handles, MeasureFile(h)
  PROVE  Abstract!VfsNext
<1>1. /\ Pending' = Pending /\ fp[h] # NoNode /\ UNCHANGED <<dir, content>>
      /\ buffer[h] = <<>> /\ buffer' = [buffer EXCEPT ![h] = <<>>]
  <2>1. phase[h] = "measure" /\ UNCHANGED <<dir, content, buffer>>
    BY Zenon DEF MeasureFile
  <2>2. buffer[h] = <<>> /\ fp[h] # NoNode /\ buffer = [buffer EXCEPT ![h] = buffer[h]]
    BY <2>1, Zenon DEF VfsTypeOK, IsOpen
  <2>3. Pending' = Pending
    BY <2>1, Zenon DEF Pending
  <2> QED BY <2>1, <2>2, <2>3, Zenon
<1>2. result'.call \notin {"Read", "Write", "Flush", "Sync"}
  BY DEF MeasureFile, OpenFails, Return
<1>3. CASE UNCHANGED fp
  BY <1>1, <1>2, <1>3, Zenon DEF Abstract!VfsNext
<1>4. CASE fp' = [fp EXCEPT ![h] = NoNode]
  <2>1. Pending' = [Pending EXCEPT ![h] = NoWrites]
    BY <1>1, PendingStep, Zenon DEF SetBuffer
  <2>2. Abstract!HandOver(h, {})
    BY <1>1, HandOverNothing, Zenon
  <2>3. Abstract!Close(h)
    BY <1>1, <1>4, <2>1, <2>2, Zenon DEF Abstract!Close, NoWrites
  <2> QED BY <1>1, <1>2, <2>3, Zenon DEF Abstract!VfsNext
<1> QED BY <1>3, <1>4, Zenon DEF MeasureFile, OpenFails

\* What a dying process has held back is lost, and nothing else.
LEMMA CrashIsCrash ==
  ASSUME NEW process, Crash(process)
  PROVE  Abstract!VfsNext
<1> DEFINE H == {h \in Handles : ProcessOf[h] = process}
<1>1. fp' = [h \in Handles |-> IF h \in H THEN NoNode ELSE fp[h]]
  BY Zenon DEF Crash
<1>2. \A h \in Handles : buffer'[h] = IF h \in H THEN <<>> ELSE buffer[h]
  BY Zenon DEF Crash
<1>3. Pending' = [h \in Handles |-> IF h \in H THEN NoWrites ELSE Pending[h]]
  <2> HIDE DEF H
  <2>1. \A h \in Handles : Pending'[h] = IF h \in H THEN NoWrites ELSE Pending[h]
    <3> SUFFICES ASSUME NEW h \in Handles
                 PROVE  Pending'[h] = IF h \in H THEN NoWrites ELSE Pending[h]
      BY Zenon
    <3>1. Pending'[h] = [b \in {buffer'[h][i].block : i \in DOMAIN buffer'[h]} |->
                          buffer'[h][1].data]
      BY Zenon DEF Pending
    <3>2. CASE h \in H
      BY <1>2, <3>1, <3>2 DEF NoWrites, Abstract!NoWrites
    <3>3. CASE h \notin H
      BY <1>2, <3>1, <3>3 DEF Pending
    <3> QED BY <3>2, <3>3, Zenon
  <2> QED BY <2>1, Zenon DEF Pending
<1>4. UNCHANGED <<dir, content>> /\ result'.call \notin {"Read", "Write", "Flush", "Sync"}
  BY Zenon DEF Crash
<1>5. Abstract!Crash(H)
  BY <1>1, <1>3, <1>4, Zenon DEF Abstract!Crash, NoWrites
<1> HIDE DEF H
<1>6. H \in SUBSET Handles
  BY Zenon DEF H
<1> QED BY <1>4, <1>5, <1>6, Zenon DEF Abstract!VfsNext

\* Every step of LibcVfs is a step of Vfs or changes nothing of it.
LEMMA VfsStep ==
  ASSUME VfsTypeOK, [VfsNext]_vfsVars
  PROVE  [Abstract!VfsNext]_(Abstract!fileVars)
<1>1. CASE UNCHANGED vfsVars
  BY <1>1, Zenon DEF vfsVars, Abstract!fileVars, Pending
<1>2. ASSUME NEW h \in Handles, fp[h] # NoNode /\ Abstract!Calls(h)
      PROVE  Abstract!VfsNext
  BY <1>2, Zenon DEF Abstract!VfsNext
<1>3. ASSUME NEW h \in Handles, Calls(h)
      PROVE  Abstract!VfsNext
  <2>1. ASSUME NEW b \in Blocks, Read(h, b) PROVE Abstract!VfsNext
    BY <1>2, <2>1, ReadIsRead, BlocksAreBlocks, Zenon DEF Abstract!Calls
  <2>2. ASSUME NEW b \in Blocks, NEW d \in Data, Write(h, b, d) PROVE Abstract!VfsNext
    BY <1>2, <2>2, WriteIsWrite, BlocksAreBlocks, Zenon DEF Abstract!Calls
  <2>3. ASSUME NEW call \in {"Flush", "Sync"}, Flush(h, call) PROVE Abstract!VfsNext
    BY <1>2, <2>3, FlushIsFlush, Zenon DEF Abstract!Calls
  <2>4. ASSUME NEW call \in {"Read", "Write", "Flush", "Sync"}, Fails(h, call)
        PROVE  Abstract!VfsNext
    BY <1>2, <2>4, FailsIsFail, Zenon DEF Abstract!Calls
  <2>5. ASSUME Lock(h) PROVE Abstract!VfsNext
    <3>1. result'.call \notin {"Read", "Write", "Flush", "Sync"}
      BY <2>5, Zenon DEF Lock, Return
    <3>2. Pending' = Pending /\ UNCHANGED <<dir, content, fp>>
      BY <2>5, Zenon DEF Lock, Pending
    <3> QED BY <3>1, <3>2, Zenon DEF Abstract!VfsNext
  <2>6. ASSUME Close(h) PROVE Abstract!VfsNext
    <3>1. result'.call \notin {"Read", "Write", "Flush", "Sync"}
      BY <2>6, Zenon DEF Close, Return
    <3> QED BY <2>6, <3>1, CloseIsClose, Zenon DEF Abstract!VfsNext
  <2> QED BY <1>3, <2>1, <2>2, <2>3, <2>4, <2>5, <2>6, OpenIsOpen, OpenExistingIsOpen,
             MeasureFileIsOpenOrClose, Zenon DEF Calls
<1>4. ASSUME NEW p \in Paths, RemoveFile(p)
      PROVE  Abstract!VfsNext
  <2>1. result'.call \notin {"Read", "Write", "Flush", "Sync"}
    BY <1>4 DEF RemoveFile
  <2>2. Pending' = Pending /\ UNCHANGED <<content, fp>>
    BY <1>4, Zenon DEF RemoveFile, Pending
  <2>3. CASE UNCHANGED dir
    BY <2>1, <2>2, <2>3, Zenon DEF Abstract!VfsNext
  <2>4. CASE dir' = [dir EXCEPT ![p] = NoNode]
    <3>1. Abstract!RemoveFile(p)
      BY <2>2, <2>4, Zenon DEF Abstract!RemoveFile
    <3> QED BY <2>1, <3>1, Zenon DEF Abstract!VfsNext
  <2> QED BY <1>4, <2>3, <2>4, Zenon DEF RemoveFile
<1> QED BY <1>1, <1>3, <1>4, CrashIsCrash, Zenon DEF VfsNext

\* The file objects of libc_vfs.cc keep what vfs.h promises of a file object,
\* whatever the C library's calls return and whenever a process crashes: reads
\* see the newest data, a successful Flush or Sync leaves nothing behind in the
\* stream's buffer, and a crash loses nothing but buffered writes.
THEOREM StreamsAreFiles == VfsSpec => IsVfs
<1>1. VfsInit => Abstract!VfsInit
  BY DEF VfsInit, Abstract!VfsInit, Abstract!NoWrites, Pending
<1>2. VfsTypeOK /\ [VfsNext]_vfsVars => [Abstract!VfsNext]_(Abstract!fileVars)
  BY VfsStep, Zenon
<1> QED BY <1>1, <1>2, StreamsAreTyped, PTL DEF VfsSpec, IsVfs, Abstract!VfsSpec

=============================================================================
