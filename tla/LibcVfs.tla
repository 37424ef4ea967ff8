------------------------------ MODULE LibcVfs ------------------------------
(***************************************************************************)
(* The file objects of vfs/libc_vfs.cc, which keep their data in C library *)
(* streams, and the files behind them.  File objects live in processes,    *)
(* which share the file system and may crash.  A file is a sequence of     *)
(* blocks; every read and write is of one block.                           *)
(*                                                                         *)
(* Of the C library and the operating system we assume what their          *)
(* standards say: fseek writes out what the stream has buffered, a removed *)
(* file stays usable for those who have it open, and what has been written *)
(* out survives the process.  Any call may fail, and then leaves buffered  *)
(* data where it is, writes it or loses it.  A buffered stream may also    *)
(* have read ahead, so a random access file is not shared while it is      *)
(* open: transaction logs belong to one store.                             *)
(***************************************************************************)
EXTENDS Integers, Sequences, FiniteSets

CONSTANTS Paths,
          Nodes,      \* the files that exist or have been removed
          Handles,    \* file objects
          ProcessOf,  \* the process of each of them
          Data,       \* the blocks that are written
          Hole,       \* a block that was skipped
          Torn,       \* a block whose write failed half-way
          MaxBlocks,  \* bound: blocks in a file
          CanFail,    \* do the C library's calls fail without a reason?
          NoNode

ASSUME VfsAssumption ==
  /\ MaxBlocks \in Nat \ {0} /\ CanFail \in BOOLEAN
  /\ NoNode \notin Nodes
  /\ Data \intersect {Hole, Torn} = {}

VARIABLES dir,      \* the file that each path names, or NoNode
          content,  \* the blocks of each file, as the operating system has them
          fp,       \* the file of each object's stream, or NoNode
          buffer,   \* the write that the stream has buffered, at most one
          phase,    \* where the object's open call is; "open", or "none"
          args,     \* the arguments of the open call
          result    \* what the last call returned

vfsVars == <<dir, content, fp, buffer, phase, args, result>>

Blocks == 0..(MaxBlocks - 1)

\* create_if_missing and error_if_exists; the latter requires the former.
Options == {o \in [create_if_missing : BOOLEAN, error_if_exists : BOOLEAN] :
              o.error_if_exists => o.create_if_missing}

NoArgs == [kind |-> "none"]

\* Blocks b of the file becomes d; a write behind the end leaves a hole.
Written(old, b, d) ==
  [i \in 1..(IF b < Len(old) THEN Len(old) ELSE b + 1) |->
     IF i = b + 1 THEN d ELSE IF i <= Len(old) THEN old[i] ELSE Hole]

\* The file of h once its stream's buffer has been written out.
Flushed(h) ==
  IF buffer[h] = <<>> THEN content[fp[h]]
  ELSE Written(content[fp[h]], buffer[h][1].block, buffer[h][1].data)

SetContent(h, blocks) == content' = [content EXCEPT ![fp[h]] = blocks]

SetBuffer(h, writes) == buffer' = [buffer EXCEPT ![h] = writes]

Used(n) == (\E p \in Paths : dir[p] = n) \/ (\E h \in Handles : fp[h] = n)

Return(call, h, status, value) ==
  result' = [call |-> call, handle |-> h, status |-> status, value |-> value]

-----------------------------------------------------------------------------
(* OpenLibcFile, with OpenForRandomAccess and OpenForBlockAccess around it *)

SetPhase(h, label) == phase' = [phase EXCEPT ![h] = label]

OpenFails(h) ==
  /\ SetPhase(h, "none")
  /\ fp' = [fp EXCEPT ![h] = NoNode]
  /\ args' = [args EXCEPT ![h] = NoArgs]
  /\ Return("Open", h, "kIoError", 0)

\* fopen creates path p.
CreateFile(p) ==
  \E n \in Nodes : /\ ~Used(n)
                   /\ dir' = [dir EXCEPT ![p] = n]
                   /\ content' = [content EXCEPT ![n] = <<>>]

\* Mutant: the file is opened with "wb+", which truncates it.
OpenExclusiveTruncates(h, kind, p) ==
  \/ /\ IF dir[p] = NoNode THEN CreateFile(p)
        ELSE content' = [content EXCEPT ![dir[p]] = <<>>] /\ UNCHANGED dir
     /\ fp' = [fp EXCEPT ![h] = dir'[p]]
     /\ SetPhase(h, "measure")
     /\ args' = [args EXCEPT ![h] = [kind |-> kind, path |-> p]]
     /\ UNCHANGED result
  \/ (CanFail \/ dir[p] # NoNode) /\ OpenFails(h) /\ UNCHANGED <<dir, content>>

\* fopen(path, "wb+x").
OpenExclusive(h, kind, p) ==
  \/ /\ dir[p] = NoNode
     /\ CreateFile(p)
     /\ fp' = [fp EXCEPT ![h] = dir'[p]]
     /\ SetPhase(h, "measure")
     /\ args' = [args EXCEPT ![h] = [kind |-> kind, path |-> p]]
     /\ UNCHANGED result
  \/ (CanFail \/ dir[p] # NoNode) /\ OpenFails(h) /\ UNCHANGED <<dir, content>>

\* Nobody else has path p open, or everybody has it open for block access.
MayShare(h, kind, p) ==
  \A g \in Handles \ {h} :
    phase[g] # "none" /\ args[g].path = p => kind = "block" /\ args[g].kind = "block"

\* The call starts; it creates a missing file, or fails to, before it opens it.
Open(h, kind, p, o) ==
  /\ phase[h] = "none" /\ MayShare(h, kind, p)
  /\ IF o.error_if_exists THEN OpenExclusive(h, kind, p)
     ELSE /\ SetPhase(h, "reopen")
          /\ args' = [args EXCEPT ![h] = [kind |-> kind, path |-> p]]
          /\ \/ o.create_if_missing /\ dir[p] = NoNode /\ CreateFile(p)
             \/ /\ CanFail \/ ~o.create_if_missing \/ dir[p] # NoNode
                /\ UNCHANGED <<dir, content>>
          /\ UNCHANGED <<fp, result>>
  /\ UNCHANGED buffer

\* fopen(path, "rb+").
OpenExisting(h) ==
  /\ phase[h] = "reopen"
  /\ \/ /\ dir[args[h].path] # NoNode
        /\ fp' = [fp EXCEPT ![h] = dir[args[h].path]]
        /\ SetPhase(h, "measure") /\ UNCHANGED <<args, result>>
     \/ (CanFail \/ dir[args[h].path] = NoNode) /\ OpenFails(h)
  /\ UNCHANGED <<dir, content, buffer>>

\* Mutant: the stream is not closed when it cannot be measured.
MeasureFileLeaks(h) ==
  /\ phase[h] = "measure"
  /\ \/ SetPhase(h, "open") /\ Return("Open", h, "kSuccess", Len(content[fp[h]]))
     \/ CanFail /\ SetPhase(h, "none") /\ Return("Open", h, "kIoError", 0)
  /\ UNCHANGED <<dir, content, fp, buffer, args>>

\* fseek and ftell; the size is in blocks.  The code does not look for an error
\* of ftell, whose -1 becomes the size.
MeasureFile(h) ==
  /\ phase[h] = "measure"
  /\ \/ /\ SetPhase(h, "open")
        /\ \/ Return("Open", h, "kSuccess", Len(content[fp[h]]))
           \/ CanFail /\ Return("Open", h, "kSuccess", -1)
        /\ UNCHANGED <<fp, args>>
     \/ CanFail /\ OpenFails(h)
  /\ UNCHANGED <<dir, content, buffer>>

-----------------------------------------------------------------------------
(* LibcRandomAccessFile and LibcBlockAccessFile *)

IsOpen(h) == phase[h] = "open"

\* Only random access files are buffered: the other constructor calls setbuf.
IsBuffered(h) == args[h].kind = "random"

\* ReadLibcFile.  Reading behind the end of the file is an error.
Read(h, b) ==
  /\ IsOpen(h)
  /\ SetContent(h, Flushed(h)) /\ SetBuffer(h, <<>>)
  /\ IF b < Len(Flushed(h))
     THEN Return("Read", h, "kSuccess", Flushed(h)[b + 1])
     ELSE Return("Read", h, "kIoError", Hole)
  /\ UNCHANGED <<dir, fp, phase, args>>

\* WriteLibcFile.  A buffered stream may write through.
Write(h, b, d) ==
  /\ IsOpen(h)
  /\ \/ /\ IsBuffered(h)
        /\ SetContent(h, Flushed(h))
        /\ SetBuffer(h, <<[block |-> b, data |-> d]>>)
     \/ /\ SetContent(h, Written(Flushed(h), b, d))
        /\ SetBuffer(h, <<>>)
  /\ Return("Write", h, "kSuccess", d)
  /\ UNCHANGED <<dir, fp, phase, args>>

\* Mutant: the buffer is not written out.
FlushDoesNothing(h, call) ==
  /\ IsOpen(h)
  /\ Return(call, h, "kSuccess", Hole)
  /\ UNCHANGED <<dir, content, fp, buffer, phase, args>>

\* LibcRandomAccessFile::Flush, and SyncLibcFile, which calls fflush too.
Flush(h, call) ==
  /\ IsOpen(h) /\ (call = "Flush" => IsBuffered(h))
  /\ SetContent(h, Flushed(h)) /\ SetBuffer(h, <<>>)
  /\ Return(call, h, "kSuccess", Hole)
  /\ UNCHANGED <<dir, fp, phase, args>>

\* fseek, fread, fwrite or fflush fails.
Fails(h, call) ==
  /\ CanFail /\ IsOpen(h) /\ (call = "Flush" => IsBuffered(h))
  /\ \/ UNCHANGED <<content, buffer>>
     \/ SetBuffer(h, <<>>) /\ UNCHANGED content
     \/ SetBuffer(h, <<>>) /\ SetContent(h, Flushed(h))
     \/ /\ call = "Write" /\ SetBuffer(h, <<>>)
        /\ \E b \in Blocks : SetContent(h, Written(Flushed(h), b, Torn))
  /\ Return(call, h, "kIoError", Hole)
  /\ UNCHANGED <<dir, fp, phase, args>>

\* LibcBlockAccessFile::Lock.
Lock(h) ==
  /\ IsOpen(h) /\ ~IsBuffered(h)
  /\ Return("Lock", h, "kSuccess", Hole)
  /\ UNCHANGED <<dir, content, fp, buffer, phase, args>>

\* Close destroys the object.  It ignores what fclose returns.
Close(h) ==
  /\ IsOpen(h)
  /\ SetContent(h, Flushed(h)) \/ (CanFail /\ UNCHANGED content)
  /\ SetBuffer(h, <<>>)
  /\ fp' = [fp EXCEPT ![h] = NoNode]
  /\ SetPhase(h, "none")
  /\ args' = [args EXCEPT ![h] = NoArgs]
  /\ Return("Close", h, "kSuccess", Hole)
  /\ UNCHANGED dir

\* LibcVfs::RemoveFile.
RemoveFile(p) ==
  /\ \/ /\ dir[p] # NoNode
        /\ dir' = [dir EXCEPT ![p] = NoNode]
        /\ result' = [call |-> "RemoveFile", status |-> "kSuccess"]
     \/ /\ CanFail \/ dir[p] = NoNode
        /\ result' = [call |-> "RemoveFile", status |-> "kIoError"]
        /\ UNCHANGED dir
  /\ UNCHANGED <<content, fp, buffer, phase, args>>

Crash(process) ==
  LET Survives(h) == ProcessOf[h] # process
  IN  /\ fp' = [h \in Handles |-> IF Survives(h) THEN fp[h] ELSE NoNode]
      /\ buffer' = [h \in Handles |-> IF Survives(h) THEN buffer[h] ELSE <<>>]
      /\ phase' = [h \in Handles |-> IF Survives(h) THEN phase[h] ELSE "none"]
      /\ args' = [h \in Handles |-> IF Survives(h) THEN args[h] ELSE NoArgs]
      /\ result' = [call |-> "none"]
      /\ UNCHANGED <<dir, content>>

-----------------------------------------------------------------------------
VfsInit ==
  /\ dir = [p \in Paths |-> NoNode]
  /\ content = [n \in Nodes |-> <<>>]
  /\ fp = [h \in Handles |-> NoNode]
  /\ buffer = [h \in Handles |-> <<>>]
  /\ phase = [h \in Handles |-> "none"]
  /\ args = [h \in Handles |-> NoArgs]
  /\ result = [call |-> "none"]

Calls(h) ==
  \/ \E kind \in {"random", "block"}, p \in Paths, o \in Options :
       Open(h, kind, p, o)
  \/ OpenExisting(h)
  \/ MeasureFile(h)
  \/ \E b \in Blocks : Read(h, b)
  \/ \E b \in Blocks, d \in Data : Write(h, b, d)
  \/ \E call \in {"Flush", "Sync"} : Flush(h, call)
  \/ \E call \in {"Read", "Write", "Flush", "Sync"} : Fails(h, call)
  \/ Lock(h)
  \/ Close(h)

VfsNext ==
  \/ \E h \in Handles : Calls(h) \/ Crash(ProcessOf[h])
  \/ \E p \in Paths : RemoveFile(p)

VfsSpec == VfsInit /\ [][VfsNext]_vfsVars

-----------------------------------------------------------------------------
(* Properties *)

\* The variables' types.  A stream that has a file belongs to a file object or
\* to a call that is about to make one: the error paths of OpenLibcFile close
\* what they opened.  Only the streams of random access files hold data back.
VfsTypeOK ==
  /\ dir \in [Paths -> Nodes \union {NoNode}]
  /\ content \in [Nodes -> Seq(Data \union {Hole, Torn})]
  /\ \A n \in Nodes : Len(content[n]) <= MaxBlocks
  /\ fp \in [Handles -> Nodes \union {NoNode}]
  /\ buffer \in [Handles -> Seq([block : Blocks, data : Data])]
  /\ phase \in [Handles -> {"none", "reopen", "measure", "open"}]
  /\ args \in [Handles -> [kind : {"random", "block"}, path : Paths] \union {NoArgs}]
  /\ \A h \in Handles :
       /\ args[h] # NoArgs <=> phase[h] # "none"
       /\ fp[h] # NoNode <=> phase[h] \in {"measure", "open"}
       /\ buffer[h] # <<>> => IsOpen(h) /\ IsBuffered(h) /\ Len(buffer[h]) = 1

\* Opening, however it ends, and crashing never shorten a file that someone can
\* still read: only files that nobody names or has open are forgotten.
OpensTruncateNothing ==
  [][\A n \in Nodes : Used(n) => Len(content'[n]) >= Len(content[n])]_vfsVars

\* Streams as the file objects of vfs.h, and a stream's buffer as the writes that
\* vfs.h lets a file object hold back.
Pending ==
  [h \in Handles |-> [b \in {buffer[h][i].block : i \in DOMAIN buffer[h]} |->
                       buffer[h][1].data]]

Abstract == INSTANCE Vfs WITH node <- fp, pending <- Pending

\* The C library files keep what vfs.h promises of reads, writes, Flush and
\* crashes: "any buffering mechanism must obey Flush() and Sync() calls"
\* (vfs.h:101), and "the written data should survive an application crash"
\* (vfs.h:124).
IsVfs == Abstract!VfsSpec
=============================================================================
