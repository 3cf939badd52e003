----------------------------- MODULE ChunkFile -------------------------------
(***************************************************************************)
(* What the download loop relies on when it calls filesystem_append_bytes: *)
(* a call that succeeds adds one whole chunk, for good; one that fails, or *)
(* that the power cuts short, takes nothing away and leaves at most a part *)
(* of a chunk behind, or the chunk nobody heard of.  After that nothing is *)
(* appended until the file is unlinked.  GetChunk and GetChunkFails of     *)
(* StagedUpdater are written on this promise; FileAppend keeps it.         *)
(***************************************************************************)
EXTENDS Naturals

CONSTANT ChunkSize   (* units in a chunk                                   *)

VARIABLES
  whole,   (* whole chunks in the file                                     *)
  rest,    (* units of one more chunk that follow them                     *)
  over     (* a call failed or the power did: nothing more is appended     *)

chunkVars == <<whole, rest, over>>

ChunkInit == whole = 0 /\ rest = 0 /\ over = FALSE

Unlink == whole' = 0 /\ rest' = 0 /\ over' = FALSE

Append == /\ ~over /\ rest = 0
          /\ whole' = whole + 1
          /\ UNCHANGED <<rest, over>>

AppendFails == /\ ~over /\ over' = TRUE
               /\ rest' \in 0..(ChunkSize - 1)
               /\ UNCHANGED whole

\* During a call that has written the whole chunk but not returned.
PowerLossLate == /\ ~over /\ over' = TRUE
                 /\ whole' = whole + 1
                 /\ UNCHANGED rest

\* After a failed call, some of what it did not bring to the medium.
PowerLossAfter == /\ over
                  /\ rest' \in 0..rest
                  /\ UNCHANGED <<whole, over>>

ChunkNext == Unlink \/ Append \/ AppendFails \/ PowerLossLate \/ PowerLossAfter

ChunkSpec == ChunkInit /\ [][ChunkNext]_chunkVars
==============================================================================
