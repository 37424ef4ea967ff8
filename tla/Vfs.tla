-------------------------------- MODULE Vfs --------------------------------
(***************************************************************************)
(* What vfs.h promises the code that keeps its data in files.  A file is a *)
(* sequence of blocks.  A file object may hold back any of the writes that *)
(* were made through it, and hand them to the operating system when it     *)
(* pleases and in any order, but must have handed over all of them when    *)
(* Flush or Sync succeeds.  Its own reads see them at once; an application *)
(* crash loses them, and loses nothing else.                               *)
(***************************************************************************)
EXTENDS Integers, Sequences

CONSTANTS Paths, Nodes, Handles, Data, Hole, Torn, MaxBlocks, NoNode

VARIABLES dir,      \* the file that each path names, or NoNode
          content,  \* the blocks of each file, as the operating system has them
          node,     \* the file that each file object is for, or NoNode
          pending,  \* the blocks that each file object holds back
          result    \* what the last call returned

fileVars == <<dir, content, node, pending, result>>

Blocks == 0..(MaxBlocks - 1)

NoWrites == [b \in {} |-> Hole]

\* The blocks of a file after the writes ws, a function from blocks.
Overlay(old, ws) ==
  LET last == {b \in Blocks : b < Len(old) \/ \E c \in DOMAIN ws : b <= c}
  IN  [i \in {b + 1 : b \in last} |->
         IF i - 1 \in DOMAIN ws THEN ws[i - 1]
         ELSE IF i <= Len(old) THEN old[i] ELSE Hole]

\* What reads through h see.
View(h) == Overlay(content[node[h]], pending[h])

Only(ws, S) == [b \in DOMAIN ws \intersect S |-> ws[b]]

\* h hands its writes to the blocks S to the operating system.
HandOver(h, S) ==
  content' = [content EXCEPT ![node[h]] = Overlay(@, Only(pending[h], S))]

Used(n) == (\E p \in Paths : dir[p] = n) \/ (\E h \in Handles : node[h] = n)

Return(call, h, status, value) ==
  result' = [call |-> call, handle |-> h, status |-> status, value |-> value]

-----------------------------------------------------------------------------
\* An empty file comes to be.
CreateFile(p, n) ==
  /\ dir[p] = NoNode /\ ~Used(n)
  /\ dir' = [dir EXCEPT ![p] = n]
  /\ content' = [content EXCEPT ![n] = <<>>]
  /\ UNCHANGED pending

RemoveFile(p) ==
  /\ dir' = [dir EXCEPT ![p] = NoNode]
  /\ UNCHANGED <<content, node, pending>>

OpenFile(h, p) ==
  /\ node[h] = NoNode
  /\ node' = [node EXCEPT ![h] = dir'[p]]

\* A read returns the newest data and changes nothing that a later read sees.
Read(h, b) ==
  /\ IF b < Len(View(h)) THEN Return("Read", h, "kSuccess", View(h)[b + 1])
     ELSE Return("Read", h, "kIoError", Hole)
  /\ \E S \in SUBSET Blocks :
       HandOver(h, S) /\ pending' = [pending EXCEPT ![h] = Only(@, Blocks \ S)]
  /\ UNCHANGED <<dir, node>>

Write(h, b, d) ==
  /\ Return("Write", h, "kSuccess", d)
  /\ \E S, T \in SUBSET Blocks :
       LET ws == [c \in DOMAIN pending[h] \union {b} |->
                    IF c = b THEN d ELSE pending[h][c]]
       IN  /\ content' = [content EXCEPT ![node[h]] =
                            Overlay(Overlay(@, Only(pending[h], S)), Only(ws, T))]
           /\ pending' = [pending EXCEPT ![h] = Only(ws, Blocks \ T)]
  /\ UNCHANGED <<dir, node>>

\* RandomAccessFile::Flush, Sync.
Flush(h, call) ==
  /\ Return(call, h, "kSuccess", Hole)
  /\ HandOver(h, Blocks)
  /\ pending' = [pending EXCEPT ![h] = NoWrites]
  /\ UNCHANGED <<dir, node>>

\* A call that fails may lose what was held back, and the block it was writing.
Fail(h, call) ==
  /\ Return(call, h, "kIoError", Hole)
  /\ \E L \in SUBSET Blocks : pending' = [pending EXCEPT ![h] = Only(@, L)]
  /\ \E S \in SUBSET Blocks, b \in Blocks, torn \in {call = "Write", FALSE} :
       content' = [content EXCEPT ![node[h]] =
                     Overlay(Overlay(@, Only(pending[h], S)),
                             IF torn THEN [c \in {b} |-> Torn] ELSE NoWrites)]
  /\ UNCHANGED <<dir, node>>

\* Close deallocates the object; its writes reach the file unless it fails.
Close(h) ==
  /\ node' = [node EXCEPT ![h] = NoNode]
  /\ pending' = [pending EXCEPT ![h] = NoWrites]
  /\ \E S \in SUBSET Blocks : HandOver(h, S)
  /\ UNCHANGED dir

\* The objects H vanish with their process.
Crash(H) ==
  /\ node' = [h \in Handles |-> IF h \in H THEN NoNode ELSE node[h]]
  /\ pending' = [h \in Handles |-> IF h \in H THEN NoWrites ELSE pending[h]]
  /\ UNCHANGED <<dir, content>>

-----------------------------------------------------------------------------
VfsInit ==
  /\ dir = [p \in Paths |-> NoNode]
  /\ content = [n \in Nodes |-> <<>>]
  /\ node = [h \in Handles |-> NoNode]
  /\ pending = [h \in Handles |-> NoWrites]
  /\ result = [call |-> "none"]

Opens(h) ==
  \/ \E p \in Paths : OpenFile(h, p) /\ UNCHANGED <<dir, content, pending>>
  \/ \E p \in Paths, n \in Nodes : CreateFile(p, n) /\ OpenFile(h, p)

Calls(h) ==
  \/ \E b \in Blocks : Read(h, b)
  \/ \E b \in Blocks, d \in Data : Write(h, b, d)
  \/ \E call \in {"Flush", "Sync"} : Flush(h, call)
  \/ \E call \in {"Read", "Write", "Flush", "Sync"} : Fail(h, call)

\* Only Calls report the end of a read, a write or a flush.
VfsNext ==
  \/ /\ result' = result \/ result'.call \notin {"Read", "Write", "Flush", "Sync"}
     /\ \/ UNCHANGED <<dir, content, node, pending>>
        \/ \E h \in Handles : Opens(h) \/ (node[h] # NoNode /\ Close(h))
        \/ \E p \in Paths, n \in Nodes : CreateFile(p, n) /\ UNCHANGED node
        \/ \E p \in Paths : RemoveFile(p)
        \/ \E H \in SUBSET Handles : Crash(H)
  \/ \E h \in Handles : node[h] # NoNode /\ Calls(h)

VfsSpec == VfsInit /\ [][VfsNext]_fileVars
=============================================================================
