-------------------------------- MODULE Copy --------------------------------
(***************************************************************************)
(* exercises/04/sol/e1: a file is copied in blocks; read and write may     *)
(* transfer less than they were asked for, or be interrupted (which        *)
(* changes nothing, and they are called again).                            *)
(***************************************************************************)
EXTENDS Integers, SequencesExt

CONSTANTS src,            \* the bytes of the source file
          block_size,
          OldFiles        \* what may be in the destination file before

CopyAssumption == /\ block_size \in Nat \ {0}
                  /\ src \in Seq(0 .. 255) /\ OldFiles \subseteq Seq(0 .. 255)

VARIABLES
    ppc, offset,          \* the program, and its position in the source
    block, written,       \* the bytes of buf in use, and how many are written
    dest, dest_offset,    \* the destination file, and the position in it
    old                   \* history: what was in it before

copyVars == <<ppc, offset, block, written, dest, dest_offset, old>>

\* An existing file is opened as it is.
Init ==
    /\ ppc = "read" /\ offset = 0 /\ block = <<>> /\ written = 0
    /\ old \in OldFiles /\ dest = old /\ dest_offset = 0

\* The block is full, or the file has ended.
Read ==
    /\ ppc = "read"
    /\ \/ \E k \in 1 .. Min({block_size - Len(block), Len(src) - offset}) :
             /\ block' = block \o SubSeq(src, offset + 1, offset + k) /\ offset' = offset + k
             /\ ppc' = IF Len(block) + k = block_size THEN "write" ELSE "read"
       \/ /\ offset = Len(src) /\ UNCHANGED <<offset, block>>
          /\ ppc' = IF block = <<>> THEN "done" ELSE "write"
    /\ written' = 0 /\ UNCHANGED <<dest, dest_offset, old>>

Overwritten(file, at, bytes) ==
    SubSeq(file, 1, at) \o bytes \o SubSeq(file, at + Len(bytes) + 1, Len(file))

Write_FromStart ==     \* defect: the rest of the block is written from its start
    /\ ppc = "write"
    /\ \E k \in 1 .. Len(block) - written :
          /\ dest' = Overwritten(dest, dest_offset, SubSeq(block, 1, k))
          /\ dest_offset' = dest_offset + k /\ written' = written + k
          /\ ppc' = IF written + k = Len(block) THEN "read" ELSE "write"
          /\ block' = IF written + k = Len(block) THEN <<>> ELSE block
    /\ UNCHANGED <<offset, old>>

Write ==
    /\ ppc = "write"
    /\ \E k \in 1 .. Len(block) - written :
          /\ dest' = Overwritten(dest, dest_offset, SubSeq(block, written + 1, written + k))
          /\ dest_offset' = dest_offset + k /\ written' = written + k
          /\ ppc' = IF written + k = Len(block) THEN "read" ELSE "write"
          /\ block' = IF written + k = Len(block) THEN <<>> ELSE block
    /\ UNCHANGED <<offset, old>>

IOError == /\ ppc \in {"read", "write"} /\ ppc' = "failed"
           /\ UNCHANGED <<offset, block, written, dest, dest_offset, old>>

Next == Read \/ Write \/ IOError

Fairness == WF_copyVars(Read \/ Write)

Spec == Init /\ [][Next]_copyVars /\ Fairness

-----------------------------------------------------------------------------
(* Properties. *)

\* However reads and writes are split, the destination starts with what has
\* been written so far, which is the first part of the source; at the end that
\* is all of the source, and the destination is the source, unless it was
\* longer before (below).
CopiedSoFar ==
    /\ dest_offset <= Len(dest) /\ SubSeq(dest, 1, dest_offset) = SubSeq(src, 1, dest_offset)
    /\ ppc = "done" => /\ dest_offset = Len(src)
                       /\ Len(old) <= Len(src) => dest = src

\* And the program ends, unless a call failed.
Copied == []CopiedSoFar /\ <>(ppc \in {"done", "failed"})

\* copy.c line 149: "file already exists, I will overwrite it!".
OverwritesFile == ppc = "done" => dest = src
=============================================================================
