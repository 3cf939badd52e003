----------------------------- MODULE FileAppend ------------------------------
(***************************************************************************)
(* filesystem_append_bytes: each chunk of a download is appended to        *)
(* UPDATE_PATH by opening the file, seeking to its end, writing as often   *)
(* as the file system takes less than it is given, syncing and closing.    *)
(*                                                                         *)
(* The n-th unit of the download is the number n, so a file is right when  *)
(* it counts 1, 2, 3, ...  The file system is external: it may write a     *)
(* part, write nothing, fail, and lose at a power failure what was neither *)
(* synced nor closed.                                                      *)
(***************************************************************************)
EXTENDS Naturals, Sequences

CONSTANTS
  ChunkSize,    (* units in a chunk                                        *)
  MaxChunks,    (* chunks in a download                                    *)
  Capacity,     (* units that fit on the medium                            *)
  SyncFaults    (* fs_sync and fs_close may fail to reach the medium       *)

ASSUME AppendAssumption == /\ ChunkSize \in Nat \ {0}
                           /\ MaxChunks \in Nat \ {0}
                           /\ Capacity \in Nat
                           /\ SyncFaults \in BOOLEAN

VARIABLES
  content,   (* the file as fs_read would return it                        *)
  safe,      (* its units that a power failure cannot take                 *)
  pos,       (* position of the open file                                  *)
  handles,   (* open files                                                 *)
  written,   (* written_total                                              *)
  pc,        (* where the call is; "idle": there is none                   *)
  done,      (* calls of this download that returned 0                     *)
  aborted    (* a call failed or the power did: the download is given up   *)

vars == <<content, safe, pos, handles, written, pc, done, aborted>>

Init == /\ content = <<>> /\ safe = 0 /\ pos = 0
        /\ handles = 0 /\ written = 0
        /\ pc = "idle" /\ done = 0 /\ aborted = FALSE

\* A new download starts with fs_unlink.
Unlink == /\ pc = "idle"
          /\ content' = <<>> /\ safe' = 0
          /\ done' = 0 /\ aborted' = FALSE
          /\ UNCHANGED <<pos, handles, written, pc>>

Call == /\ pc = "idle"
        /\ ~aborted /\ done < MaxChunks
        /\ pc' = "open"
        /\ written' = 0
        /\ UNCHANGED <<content, safe, pos, handles, done, aborted>>

Open == /\ pc = "open"
        /\ pc' = "seek"
        /\ handles' = handles + 1
        /\ pos' = 0
        /\ UNCHANGED <<content, safe, written, done, aborted>>

OpenFails == /\ pc = "open"
             /\ pc' = "idle"
             /\ aborted' = TRUE
             /\ UNCHANGED <<content, safe, pos, handles, written, done>>

\* Mutant: the file is not positioned at its end.
SeekForgotten == /\ pc = "seek"
                 /\ pc' = "write"
                 /\ UNCHANGED <<content, safe, pos, handles, written, done, aborted>>

Seek == /\ pc = "seek"
        /\ pc' = "write"
        /\ pos' = Len(content)
        /\ UNCHANGED <<content, safe, handles, written, done, aborted>>

\* Mutant: an error return that leaves the file open.
FailKeepsHandle == /\ pc' = "idle"
                   /\ aborted' = TRUE
                   /\ UNCHANGED <<content, safe, pos, handles, written, done>>

\* fs_close and an error code; what was written may reach the medium or not.
Fail == /\ pc' = "idle"
        /\ aborted' = TRUE
        /\ handles' = handles - 1
        /\ safe' \in {safe, Len(content)}
        /\ UNCHANGED <<content, pos, written, done>>

SeekFails == pc = "seek" /\ Fail

\* The file after n more units of the current chunk are written at pos.
Written(n) == [i \in 1..(IF pos + n > Len(content) THEN pos + n ELSE Len(content)) |->
                 IF i \in (pos + 1)..(pos + n)
                 THEN done * ChunkSize + written + (i - pos)
                 ELSE content[i]]

\* Mutant: fs_write is given the whole length again after a partial write.
WriteTooMuch == /\ pc = "write"
                /\ \E n \in 1..ChunkSize :
                     /\ pos + n <= Capacity
                     /\ content' = Written(n)
                     /\ pos' = pos + n
                     /\ written' = written + n
                /\ UNCHANGED <<safe, handles, pc, done, aborted>>

\* fs_write takes some of what is left.
Write == /\ pc = "write"
         /\ \E n \in 1..(ChunkSize - written) :
              /\ pos + n <= Capacity
              /\ content' = Written(n)
              /\ pos' = pos + n
              /\ written' = written + n
         /\ UNCHANGED <<safe, handles, pc, done, aborted>>

\* Mutant: after no progress the write is tried again.
WriteRetries == /\ pc = "write" /\ written < ChunkSize
                /\ UNCHANGED vars

\* fs_write returns an error, or 0: no progress.
WriteFails == pc = "write" /\ written < ChunkSize /\ Fail

\* Mutant: less than the whole chunk counts as written.
SyncEarly == /\ pc = "write"
             /\ written > 0
             /\ pc' = "close"
             /\ safe' = Len(content)
             /\ UNCHANGED <<content, pos, handles, written, done, aborted>>

\* fs_sync; its result is ignored.
Sync == /\ pc = "write"
        /\ written = ChunkSize
        /\ pc' = "close"
        /\ safe' \in {Len(content)} \cup IF SyncFaults THEN {safe} ELSE {}
        /\ UNCHANGED <<content, pos, handles, written, done, aborted>>

\* fs_close, whose result is ignored too, and return 0.
Close == /\ pc = "close"
         /\ pc' = "idle"
         /\ handles' = handles - 1
         /\ done' = done + 1
         /\ safe' \in {Len(content)} \cup IF SyncFaults THEN {safe} ELSE {}
         /\ UNCHANGED <<content, pos, written, aborted>>

PowerLoss == /\ \E n \in safe..Len(content) :
                  /\ content' = SubSeq(content, 1, n)
                  /\ safe' = n
             /\ pc' = "idle" /\ handles' = 0 /\ pos' = 0 /\ written' = 0
             /\ aborted' = TRUE
             /\ UNCHANGED done

Step == \/ Open \/ OpenFails \/ Seek \/ SeekFails
        \/ Write \/ WriteFails \/ Sync \/ Close

Next == Unlink \/ Call \/ Step \/ PowerLoss

Spec == Init /\ [][Next]_vars

\* The thread that called goes on until the call returns.
FairSpec == Spec /\ WF_vars(Step)

----------------------------------------------------------------------------
(* Properties                                                              *)

\* Types of the variables and how far each counts.
TypeOK == /\ content \in Seq(Nat)
          /\ safe \in 0..Len(content)
          /\ pos \in Nat
          /\ handles \in {0, 1}
          /\ written \in 0..ChunkSize
          /\ pc \in {"idle", "open", "seek", "write", "close"}
          /\ done \in 0..MaxChunks
          /\ aborted \in BOOLEAN

\* The file is always the beginning of the download, each unit once and in its
\* place, however often fs_write takes a part and whatever failed or was cut.
InOrder == \A i \in 1..Len(content) : content[i] = i

\* Every way out of the call closes the file: none of the few file objects of
\* the file system is lost to a failed call.
NoHandleLeak == pc \in {"idle", "open"} => handles = 0

\* The comment at fs_sync: a chunk for which the call returned 0 is on the
\* medium, "especially important for power-loss scenarios".
SuccessIsDurable == /\ Len(content) >= done * ChunkSize
                    /\ safe >= done * ChunkSize

\* Seen from the download loop, the whole call is one step: FileAppend keeps the
\* promises of ChunkFile, whatever fs_write takes and wherever the power fails.
Whole == IF pc = "idle" THEN Len(content) \div ChunkSize ELSE done
Rest == IF pc = "idle" THEN Len(content) % ChunkSize ELSE 0

Chunks == INSTANCE ChunkFile WITH whole <- Whole, rest <- Rest, over <- aborted
ImplementsChunks == Chunks!ChunkSpec

\* A call returns, whatever fs_write does.
Returns == pc # "idle" ~> pc = "idle"
==============================================================================
