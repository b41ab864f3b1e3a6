--------------------------- MODULE CompressedFile ---------------------------
(***************************************************************************)
(* The files built into the program (dkron/templates/templates_vfsdata.go; *)
(* assets_vfsdata.go has the same code).  A file is kept compressed, and a *)
(* gzip reader only goes forward: Seek just notes a position, and the next *)
(* Read starts again from the beginning or skips ahead to get there.       *)
(*                                                                         *)
(* The callers are net/http, which serves ranges that start in the file,   *)
(* and mustLoadTemplate, which reads a file from start to end.             *)
(***************************************************************************)
EXTENDS Integers

CONSTANTS Size,      \* uncompressedSize
          Entries,   \* len(d.entries)
          Lengths,   \* sizes of the buffers read into
          Counts     \* arguments of Readdir

ASSUME FileAssumption ==
  /\ Size \in Nat /\ Entries \in Nat
  /\ Lengths \subseteq Nat \ {0}
  /\ Counts \subseteq Int

VARIABLES gr,        \* how far the gzip reader is
          grPos,     \* f.grPos, how far f thinks it is
          seekPos,   \* f.seekPos
          read,      \* the last bytes read: from where, and how many
          dirPos,    \* d.pos
          entries    \* the last entries returned by Readdir

fileVars == <<gr, grPos, seekPos, read, dirPos, entries>>

\* Open
FileInit ==
  /\ gr = 0 /\ grPos = 0 /\ seekPos = 0 /\ read = <<0, 0>>
  /\ dirPos = 0 /\ entries = {}

\* Up to len bytes from where the reader is; none only at the end.
Pieces(len, at) ==
  {n \in 0..(IF len < Size - at THEN len ELSE Size - at) : n = 0 => at = Size}

\* Mutant of FileRead: either rewind or skip, not one after the other.
RewindOrSkip(len) ==
  LET at == IF grPos > seekPos THEN 0 ELSE gr + (seekPos - grPos)
  IN \E n \in Pieces(len, at) :
       /\ gr' = at + n /\ grPos' = at + n /\ seekPos' = at + n
       /\ read' = <<at, n>>
       /\ UNCHANGED <<dirPos, entries>>

\* Read: rewind if the position is behind, skip if it is ahead.  Skipping past
\* the end fails, with the reader at the end and grPos where it was.
FileRead(len) ==
  LET rewind == grPos > seekPos
      from   == IF rewind THEN 0 ELSE grPos
      at     == (IF rewind THEN 0 ELSE gr) + (seekPos - from)
  IN /\ IF at > Size
          THEN gr' = Size /\ grPos' = from /\ seekPos' = seekPos /\ read' = <<Size, 0>>
          ELSE \E n \in Pieces(len, at) :
                 /\ gr' = at + n
                 /\ grPos' = seekPos + n /\ seekPos' = seekPos + n
                 /\ read' = <<at, n>>
     /\ UNCHANGED <<dirPos, entries>>

\* Seek, to where the callers go: into the file or to its end.
FileSeek(base, offset) ==
  /\ base + offset \in 0..Size
  /\ seekPos' = base + offset
  /\ read' = <<base + offset, 0>>
  /\ UNCHANGED <<gr, grPos, dirPos, entries>>

\* Readdir: all that is left if count is not positive.
Readdir(count) ==
  LET left == Entries - dirPos
      n    == IF count <= 0 \/ count > left THEN left ELSE count
  IN /\ dirPos' = dirPos + n
     /\ entries' = (dirPos + 1)..(dirPos + n)
     /\ UNCHANGED <<gr, grPos, seekPos, read>>

\* Seek of a directory, only to the start.
DirSeek ==
  /\ dirPos' = 0 /\ entries' = {}
  /\ UNCHANGED <<gr, grPos, seekPos, read>>

FileNext ==
  \/ \E len \in Lengths : FileRead(len)
  \/ \E base \in {0, seekPos, Size}, offset \in -Size..Size : FileSeek(base, offset)
  \/ \E count \in Counts : Readdir(count)
  \/ DirSeek

FileSpec == FileInit /\ [][FileNext]_fileVars

-----------------------------------------------------------------------------

Plain == INSTANCE ReadSeeker
           WITH pos <- seekPos, got <- read, rest <- (dirPos + 1)..Entries, listed <- entries

\* A compressed file reads like a plain one: after any sequence of reads and
\* seeks the next bytes are those at the position, and a directory lists every
\* entry once (templates_vfsdata.go:143-177, 208-226).
ReadsLikeAFile == Plain!Spec

=============================================================================
