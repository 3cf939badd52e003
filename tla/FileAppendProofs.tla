-------------------------- MODULE FileAppendProofs ---------------------------
(***************************************************************************)
(* Theorems about FileAppend, for every size of chunk, download and medium.*)
(***************************************************************************)
EXTENDS FileAppend, TLAPS

\* Between seek and close the file is positioned at its end, and the units of
\* the running download are all there: Len(content) counts them.
PlaceInv == /\ pc \in {"seek", "write", "close"} <=> handles = 1
            /\ ~aborted => Len(content) = done * ChunkSize
                              + IF pc \in {"write", "close"} THEN written ELSE 0
            /\ pc # "idle" => ~aborted /\ done < MaxChunks
            /\ pc = "write" => pos = Len(content)
            /\ pc = "seek" => written = 0
            /\ pc = "open" => written = 0
            /\ pc = "close" => written = ChunkSize

IInv == TypeOK /\ InOrder /\ PlaceInv

\* A write at the end continues the count.
LEMMA WrittenInOrder ==
  ASSUME content \in Seq(Nat), \A i \in 1..Len(content) : content[i] = i,
         written \in Nat, done \in Nat, NEW n \in Nat,
         pos = Len(content), Len(content) = done * ChunkSize + written
  PROVE  /\ Written(n) \in Seq(Nat)
         /\ Len(Written(n)) = Len(content) + n
         /\ \A i \in 1..Len(Written(n)) : Written(n)[i] = i
<1> DEFINE L == Len(content)
<1>1. L \in Nat /\ done * ChunkSize \in Nat
  BY AppendAssumption
<1>2. Written(n) = [i \in 1..(L + n) |-> IF i \in (L + 1)..(L + n)
                                         THEN L + (i - L) ELSE content[i]]
  BY <1>1 DEF Written
<1>3. Written(n) = [i \in 1..(L + n) |-> i]
  BY <1>1, <1>2
<1>4. L + n \in Nat /\ \A i \in 1..(L + n) : i \in Nat
  BY <1>1
<1>5. Written(n) \in Seq(Nat) /\ Len(Written(n)) = L + n
  BY <1>3, <1>4
<1>6. QED
  BY <1>1, <1>3, <1>5

\* A file cut off at n units by a power failure.
LEMMA CutInOrder ==
  ASSUME TypeOK, InOrder, NEW n \in safe..Len(content)
  PROVE  LET cut == SubSeq(content, 1, n)
         IN  cut \in Seq(Nat) /\ Len(cut) = n /\ \A i \in 1..n : cut[i] = i
BY DEF TypeOK, InOrder

\* The inductive invariant is kept by every step.
LEMMA IInvStep ==
  ASSUME IInv, [Next]_vars
  PROVE  IInv'
<1> USE AppendAssumption
<1> USE DEF IInv, TypeOK, InOrder, PlaceInv
<1>0. /\ done * ChunkSize \in Nat
      /\ (done + 1) * ChunkSize = done * ChunkSize + ChunkSize
      /\ 0 * ChunkSize = 0
  OBVIOUS
<1>1. CASE Unlink
  <2>1. content' = <<>> /\ content' \in Seq(Nat) /\ Len(content') = 0
    BY <1>1 DEF Unlink
  <2>2. done' = 0 /\ done' * ChunkSize = 0 /\ Len(content') = done' * ChunkSize + 0
    BY <1>0, <1>1, <2>1 DEF Unlink
  <2>3. aborted' \in BOOLEAN
    BY <1>1, Zenon DEF Unlink
  <2>4. TypeOK'
    BY <1>1, <2>1, <2>3 DEF Unlink
  <2>5. InOrder' /\ PlaceInv'
    BY <1>1, <2>1, <2>2 DEF Unlink
  <2>6. QED
    BY <2>4, <2>5
<1>2. CASE Call
  BY <1>0, <1>2 DEF Call
<1>3. CASE Open
  BY <1>0, <1>3 DEF Open
<1>4. CASE OpenFails
  BY <1>0, <1>4 DEF OpenFails
<1>5. CASE Seek
  BY <1>0, <1>5 DEF Seek
<1>6. CASE SeekFails
  BY <1>0, <1>6 DEF SeekFails, Fail
<1>7. CASE Write
  <2>1. PICK n \in 1..(ChunkSize - written) :
               content' = Written(n) /\ pos' = pos + n /\ written' = written + n
    BY <1>7 DEF Write
  <2>2. pos = Len(content) /\ Len(content) = done * ChunkSize + written
    BY <1>7 DEF Write
  <2>3. /\ Written(n) \in Seq(Nat)
        /\ Len(Written(n)) = Len(content) + n
        /\ \A i \in 1..Len(Written(n)) : Written(n)[i] = i
    <3>1. content \in Seq(Nat) /\ \A i \in 1..Len(content) : content[i] = i
      OBVIOUS
    <3>2. written \in Nat /\ done \in Nat /\ n \in Nat
      OBVIOUS
    <3>3. QED
      BY ONLY <2>2, <3>1, <3>2, WrittenInOrder
  <2>4. content' \in Seq(Nat) /\ Len(content') = Len(content) + n /\ InOrder'
    BY <2>1, <2>3
  <2>5. QED
    BY <1>0, <1>7, <2>1, <2>2, <2>4 DEF Write
<1>8. CASE WriteFails
  BY <1>0, <1>8 DEF WriteFails, Fail
<1>9. CASE Sync
  BY <1>0, <1>9 DEF Sync
<1>10. CASE Close
  BY <1>0, <1>10 DEF Close
<1>11. CASE PowerLoss
  <2>1. PICK n \in safe..Len(content) : content' = SubSeq(content, 1, n) /\ safe' = n
    BY <1>11 DEF PowerLoss
  <2>2. content' \in Seq(Nat) /\ Len(content') = n /\ InOrder'
    BY <2>1, CutInOrder
  <2>3. QED
    BY <1>11, <2>1, <2>2 DEF PowerLoss
<1>12. CASE UNCHANGED vars
  BY <1>12 DEF vars
<1>13. QED
  BY <1>1, <1>2, <1>3, <1>4, <1>5, <1>6, <1>7, <1>8, <1>9, <1>10, <1>11, <1>12
  DEF Next, Step

\* So every reachable state has them.
LEMMA Invariant == Spec => []IInv
<1>1. Init => IInv
  <2> SUFFICES ASSUME Init PROVE IInv
    OBVIOUS
  <2> USE AppendAssumption
  <2>1. content \in Seq(Nat) /\ Len(content) = 0 /\ done * ChunkSize = 0
    BY DEF Init
  <2>2. aborted \in BOOLEAN
    BY Zenon DEF Init
  <2>3. TypeOK
    BY <2>1, <2>2 DEF Init, TypeOK
  <2>4. QED
    BY <2>1, <2>3 DEF Init, IInv, InOrder, PlaceInv
<1>2. QED
  BY <1>1, IInvStep, PTL DEF Spec

\* Types, and how far each variable counts.
THEOREM TypeCorrect == Spec => []TypeOK
BY Invariant, PTL DEF IInv

\* The file is always the beginning of the download, each unit once and in its
\* place, for every way fs_write may cut a chunk up and wherever a call fails.
THEOREM FileInOrder == Spec => []InOrder
BY Invariant, PTL DEF IInv

\* No failed call loses a file object.
THEOREM HandlesSafe == Spec => []NoHandleLeak
<1>1. IInv => NoHandleLeak
  BY DEF IInv, TypeOK, PlaceInv, NoHandleLeak
<1>2. QED
  BY <1>1, Invariant, PTL

\* A chunk for which the call returned 0 survives every power failure, provided
\* that the sync or the close whose results the call ignores do work.
THEOREM DurableSafe ==
  ASSUME SyncFaults = FALSE
  PROVE  Spec => []SuccessIsDurable
<1>1. Init => SuccessIsDurable
  BY AppendAssumption DEF Init, SuccessIsDurable
<1>2. IInv /\ IInv' /\ SuccessIsDurable /\ [Next]_vars => SuccessIsDurable'
  <2> SUFFICES ASSUME IInv, IInv', SuccessIsDurable, [Next]_vars
               PROVE  SuccessIsDurable'
    OBVIOUS
  <2> USE AppendAssumption
  <2>0. /\ done * ChunkSize \in Nat
        /\ (done + 1) * ChunkSize = done * ChunkSize + ChunkSize
        /\ 0 * ChunkSize = 0
        /\ safe \in Nat /\ Len(content) \in Nat /\ safe <= Len(content)
    BY DEF IInv, TypeOK
  <2>1. CASE Unlink
    BY <2>0, <2>1 DEF Unlink, SuccessIsDurable
  <2>2. CASE Call \/ Open \/ OpenFails \/ Seek
    BY <2>0, <2>2 DEF Call, Open, OpenFails, Seek, SuccessIsDurable
  <2>3. CASE SeekFails \/ WriteFails
    BY <2>0, <2>3 DEF SeekFails, WriteFails, Fail, SuccessIsDurable
  <2>4. CASE Write
    <3>1. Len(content') = done * ChunkSize + written'
      BY <2>4 DEF Write, IInv, PlaceInv
    <3>2. written' \in Nat /\ safe' = safe /\ done' = done
      BY <2>4 DEF Write, IInv, TypeOK
    <3>3. QED
      BY <2>0, <3>1, <3>2 DEF SuccessIsDurable
  <2>5. CASE Sync
    BY <2>0, <2>5 DEF Sync, SuccessIsDurable
  <2>6. CASE Close
    <3>1. Len(content) = (done + 1) * ChunkSize
      BY <2>0, <2>6 DEF Close, IInv, PlaceInv, TypeOK
    <3>2. done' = done + 1 /\ content' = content /\ safe' = Len(content)
      BY <2>6 DEF Close
    <3>3. QED
      BY <2>0, <3>1, <3>2 DEF SuccessIsDurable
  <2>7. CASE PowerLoss
    <3>1. PICK n \in safe..Len(content) : content' = SubSeq(content, 1, n) /\ safe' = n
      BY <2>7 DEF PowerLoss
    <3>2. Len(content') = n
      BY <3>1, CutInOrder DEF IInv
    <3>3. QED
      BY <2>0, <2>7, <3>1, <3>2 DEF PowerLoss, SuccessIsDurable
  <2>8. CASE UNCHANGED vars
    BY <2>8 DEF vars, SuccessIsDurable
  <2>9. QED
    BY <2>1, <2>2, <2>3, <2>4, <2>5, <2>6, <2>7, <2>8 DEF Next, Step
<1>3. QED
  BY <1>1, <1>2, Invariant, PTL DEF Spec
----------------------------------------------------------------------------
(* A call is one step of ChunkFile                                         *)

\* An aborted download ends within the chunk that was being appended; a last
\* chunk that is complete without a call that returned is one the medium has.
CutInv == aborted => /\ Len(content) <= (done + 1) * ChunkSize
                     /\ Len(content) = (done + 1) * ChunkSize => safe = Len(content)

LEMMA CutStep ==
  ASSUME IInv, CutInv, [Next]_vars
  PROVE  CutInv'
<1> USE AppendAssumption DEF IInv, TypeOK, PlaceInv, CutInv
<1>1. /\ done * ChunkSize \in Nat
      /\ (done + 1) * ChunkSize = done * ChunkSize + ChunkSize
  OBVIOUS
<1>2. CASE Unlink \/ Call \/ Open \/ Seek \/ Write \/ Sync \/ Close
  BY <1>2 DEF Unlink, Call, Open, Seek, Write, Sync, Close
<1>3. CASE OpenFails
  BY <1>1, <1>3 DEF OpenFails
<1>4. CASE SeekFails \/ WriteFails
  BY <1>1, <1>4 DEF SeekFails, WriteFails, Fail
<1>5. CASE PowerLoss
  <2>1. PICK n \in safe..Len(content) : content' = SubSeq(content, 1, n) /\ safe' = n
    BY <1>5 DEF PowerLoss
  <2>2. Len(content') = n
    BY <2>1, CutInOrder
  <2>3. Len(content) <= (done + 1) * ChunkSize /\ done' = done
    BY <1>1, <1>5 DEF PowerLoss
  <2>4. QED
    BY <1>1, <2>1, <2>2, <2>3
<1>6. CASE UNCHANGED vars
  BY <1>6 DEF vars
<1>7. QED
  BY <1>2, <1>3, <1>4, <1>5, <1>6 DEF Next, Step

LEMMA Cut == Spec => []CutInv
<1>1. Init => CutInv
  BY DEF Init, CutInv
<1>2. QED
  BY <1>1, CutStep, Invariant, PTL DEF Spec

\* Division by the size of a chunk.
LEMMA DivMod ==
  ASSUME NEW k \in Nat, NEW c \in Nat \ {0}, NEW r \in 0..(c - 1)
  PROVE  (k * c + r) \div c = k /\ (k * c + r) % c = r
BY SMTT(20)

\* A size between two numbers of whole chunks.
LEMMA Within ==
  ASSUME NEW b \in Nat, NEW c \in Nat \ {0}, NEW n \in Nat,
         b <= n, n <= b + c, n # b + c
  PROVE  n - b \in 0..(c - 1) /\ n = b + (n - b)
OBVIOUS

\* What ChunkFile sees of the file between calls.
LEMMA Parts ==
  ASSUME NEW k \in Nat, NEW r \in 0..(ChunkSize - 1),
         pc = "idle", Len(content) = k * ChunkSize + r
  PROVE  Whole = k /\ Rest = r
<1>1. (k * ChunkSize + r) \div ChunkSize = k /\ (k * ChunkSize + r) % ChunkSize = r
  BY DivMod, AppendAssumption
<1>2. QED
  BY <1>1 DEF Whole, Rest

\* The same after a step.
LEMMA PartsAfter ==
  ASSUME NEW k \in Nat, NEW r \in 0..(ChunkSize - 1),
         pc' = "idle", Len(content') = k * ChunkSize + r
  PROVE  Whole' = k /\ Rest' = r
<1>1. (k * ChunkSize + r) \div ChunkSize = k /\ (k * ChunkSize + r) % ChunkSize = r
  BY DivMod, AppendAssumption
<1>2. QED
  BY <1>1 DEF Whole, Rest

\* What it sees during a call.
LEMMA Hidden ==
  /\ pc # "idle" => Whole = done /\ Rest = 0
  /\ pc' # "idle" => Whole' = done' /\ Rest' = 0
BY DEF Whole, Rest

\* Sizes of the file, in units.
LEMMA Sizes ==
  ASSUME IInv
  PROVE  /\ done \in Nat /\ done * ChunkSize \in Nat
         /\ (done + 1) * ChunkSize = done * ChunkSize + ChunkSize
         /\ done * ChunkSize + 0 = done * ChunkSize
         /\ (done + 1) * ChunkSize + 0 = (done + 1) * ChunkSize
         /\ safe \in Nat /\ Len(content) \in Nat /\ safe <= Len(content)
         /\ 0 \in 0..(ChunkSize - 1)
BY AppendAssumption DEF IInv, TypeOK

\* A call that works, step by step: only the last step is seen.
LEMMA CallStep ==
  ASSUME IInv, Call \/ Open \/ Seek \/ Write \/ Sync \/ Close
  PROVE  Chunks!Append \/ UNCHANGED Chunks!chunkVars
<1>1. CASE Call
  <2>1. Len(content) = done * ChunkSize + 0
    BY <1>1, Sizes DEF Call, IInv, PlaceInv
  <2>2. pc = "idle" /\ pc' # "idle" /\ done' = done /\ aborted' = aborted
    BY <1>1 DEF Call
  <2>3. Whole = done /\ Rest = 0
    BY <2>1, <2>2, Sizes, Parts
  <2>4. QED
    BY <2>2, <2>3, Hidden DEF Chunks!chunkVars
<1>2. CASE Open \/ Seek \/ Write \/ Sync
  <2>1. pc # "idle" /\ pc' # "idle" /\ done' = done /\ aborted' = aborted
    BY <1>2 DEF Open, Seek, Write, Sync
  <2>2. QED
    BY <2>1, Hidden DEF Chunks!chunkVars
<1>3. CASE Close
  <2>1. pc # "idle" /\ pc' = "idle" /\ aborted' = aborted /\ content' = content
    BY <1>3 DEF Close
  <2>2. ~aborted
    BY <1>3 DEF Close, IInv, PlaceInv
  <2>3. Len(content') = (done + 1) * ChunkSize + 0
    BY <1>3, <2>1, Sizes DEF Close, IInv, PlaceInv
  <2>4. Whole' = done + 1 /\ Rest' = 0
    BY <2>1, <2>3, Sizes, PartsAfter
  <2>5. QED
    BY <2>1, <2>2, <2>4, Hidden DEF Chunks!Append
<1>4. QED
  BY <1>1, <1>2, <1>3

\* A call that fails.
LEMMA FailStep ==
  ASSUME IInv, OpenFails \/ SeekFails \/ WriteFails
  PROVE  Chunks!AppendFails
<1>1. pc # "idle" /\ pc' = "idle" /\ aborted' = TRUE /\ content' = content
  BY DEF OpenFails, SeekFails, WriteFails, Fail
<1>2. ~aborted
  BY <1>1 DEF IInv, PlaceInv
<1>3. PICK r \in 0..(ChunkSize - 1) : Len(content) = done * ChunkSize + r
  <2>1. CASE OpenFails \/ SeekFails
    <3>1. Len(content) = done * ChunkSize + 0
      BY <2>1, Sizes DEF OpenFails, SeekFails, IInv, PlaceInv
    <3>2. QED
      BY <3>1, Sizes
  <2>2. CASE WriteFails
    <3>1. Len(content) = done * ChunkSize + written /\ written < ChunkSize
      BY <2>2 DEF WriteFails, IInv, PlaceInv
    <3>2. written \in 0..(ChunkSize - 1)
      BY <3>1, AppendAssumption DEF IInv, TypeOK
    <3>3. QED
      BY <3>1, <3>2
  <2>3. QED
    BY <2>1, <2>2
<1>4. Whole' = done /\ Rest' = r
  BY <1>1, <1>3, Sizes, PartsAfter
<1>5. QED
  BY <1>1, <1>2, <1>4, Hidden DEF Chunks!AppendFails

\* The power fails, during a call, between two, or after one that failed.
LEMMA PowerStep ==
  ASSUME IInv, CutInv, SuccessIsDurable, PowerLoss
  PROVE  Chunks!ChunkNext \/ UNCHANGED Chunks!chunkVars
<1>1. PICK n \in safe..Len(content) : content' = SubSeq(content, 1, n) /\ safe' = n
  BY DEF PowerLoss
<1>2. Len(content') = n /\ pc' = "idle" /\ aborted' = TRUE
  BY <1>1, CutInOrder DEF PowerLoss, IInv
<1>3. n \in Nat /\ done * ChunkSize <= n /\ n <= Len(content)
  BY <1>1, Sizes DEF SuccessIsDurable
<1>4. Len(content) <= (done + 1) * ChunkSize
  <2>1. CASE aborted
    BY <2>1 DEF CutInv
  <2>2. CASE ~aborted
    BY <2>2, Sizes, AppendAssumption DEF IInv, TypeOK, PlaceInv
  <2>3. QED
    BY <2>1, <2>2
<1>5. ~aborted => Whole = done /\ Rest = 0
  <2>1. CASE ~aborted /\ pc = "idle"
    <3>1. Len(content) = done * ChunkSize + 0
      BY <2>1, Sizes DEF IInv, PlaceInv
    <3>2. QED
      BY <2>1, <3>1, Sizes, Parts
  <2>2. QED
    BY <2>1, Hidden
<1>6. aborted => aborted = TRUE /\ pc = "idle"
  BY DEF IInv, TypeOK, PlaceInv
<1>7. CASE n = (done + 1) * ChunkSize
  <2>1. Whole' = done + 1 /\ Rest' = 0
    BY <1>2, <1>7, Sizes, PartsAfter
  <2>2. CASE aborted
    <3>1. Len(content) = (done + 1) * ChunkSize + 0
      BY <1>3, <1>4, <1>7, Sizes
    <3>2. Whole = done + 1 /\ Rest = 0
      BY <1>6, <2>2, <3>1, Sizes, Parts
    <3>3. QED
      BY <1>2, <1>6, <2>1, <2>2, <3>2 DEF Chunks!chunkVars
  <2>3. CASE ~aborted
    <3>1. Chunks!PowerLossLate
      BY <1>2, <1>5, <2>1, <2>3 DEF Chunks!PowerLossLate
    <3>2. QED
      BY <3>1 DEF Chunks!ChunkNext
  <2>4. QED
    BY <2>2, <2>3
<1>8. CASE n # (done + 1) * ChunkSize
  <2> DEFINE r == n - done * ChunkSize
  <2>1. r \in 0..(ChunkSize - 1) /\ n = done * ChunkSize + r
    <3>1. done * ChunkSize \in Nat /\ ChunkSize \in Nat \ {0} /\ Len(content) \in Nat
      BY Sizes, AppendAssumption
    <3>2. (done + 1) * ChunkSize = done * ChunkSize + ChunkSize
      BY Sizes
    <3>3. Len(content) <= done * ChunkSize + ChunkSize /\ n # done * ChunkSize + ChunkSize
      BY <1>4, <1>8, <3>2
    <3>4. n <= done * ChunkSize + ChunkSize
      BY <1>3, <3>1, <3>3
    <3>5. QED
      BY ONLY <1>3, <3>1, <3>3, <3>4, Within
  <2>2. Whole' = done /\ Rest' = r
    BY <1>2, <2>1, Sizes, PartsAfter
  <2>3. CASE aborted
    <3> DEFINE q == Len(content) - done * ChunkSize
    <3>1. Len(content) # (done + 1) * ChunkSize
      BY <1>1, <1>8, <2>3, Sizes DEF CutInv
    <3>2. q \in 0..(ChunkSize - 1) /\ Len(content) = done * ChunkSize + q /\ r <= q
      <4>1. done * ChunkSize \in Nat /\ ChunkSize \in Nat \ {0} /\ Len(content) \in Nat
        BY Sizes, AppendAssumption
      <4>2. (done + 1) * ChunkSize = done * ChunkSize + ChunkSize
        BY Sizes
      <4>3. Len(content) <= done * ChunkSize + ChunkSize /\ Len(content) # done * ChunkSize + ChunkSize
        BY <1>4, <3>1, <4>2
      <4>4. done * ChunkSize <= Len(content)
        BY <1>3, <4>1
      <4>5. q \in 0..(ChunkSize - 1) /\ Len(content) = done * ChunkSize + q
        BY ONLY <4>1, <4>3, <4>4, Within
      <4>6. QED
        BY <1>3, <4>1, <4>5
    <3>3. Whole = done /\ Rest = q
      BY <1>6, <2>3, <3>2, Sizes, Parts
    <3>4. Rest' \in 0..Rest /\ Whole' = Whole
      BY <2>1, <2>2, <3>2, <3>3
    <3>5. QED
      BY <1>2, <1>6, <2>3, <3>4 DEF Chunks!ChunkNext, Chunks!PowerLossAfter
  <2>4. CASE ~aborted
    BY <1>2, <1>5, <2>1, <2>2, <2>4 DEF Chunks!ChunkNext, Chunks!AppendFails
  <2>5. QED
    BY <2>3, <2>4
<1>9. QED
  BY <1>7, <1>8

\* The call is as atomic as the download loop takes it for: a success adds one
\* chunk that stays, a failure or a power loss takes none away, provided that the
\* sync or the close work.
THEOREM AppendImplements ==
  ASSUME SyncFaults = FALSE
  PROVE  Spec => ImplementsChunks
<1>1. Init => Chunks!ChunkInit
  <2> SUFFICES ASSUME Init PROVE Chunks!ChunkInit
    OBVIOUS
  <2>1. pc = "idle" /\ Len(content) = 0 * ChunkSize + 0 /\ 0 \in 0..(ChunkSize - 1)
    <3>1. pc = "idle" /\ Len(content) = 0
      BY DEF Init
    <3>2. QED
      BY <3>1, AppendAssumption
  <2>2. Whole = 0 /\ Rest = 0
    BY <2>1, Parts
  <2>3. QED
    BY <2>2 DEF Init, Chunks!ChunkInit
<1>2. ASSUME IInv, CutInv, SuccessIsDurable, [Next]_vars
      PROVE  [Chunks!ChunkNext]_(Chunks!chunkVars)
  <2>1. CASE Unlink
    <3>1. pc' = "idle" /\ Len(content') = 0 * ChunkSize + 0 /\ 0 \in 0..(ChunkSize - 1)
      BY AppendAssumption, <2>1 DEF Unlink
    <3>2. Whole' = 0 /\ Rest' = 0
      BY <3>1, PartsAfter
    <3>3. QED
      BY <2>1, <3>2 DEF Unlink, Chunks!ChunkNext, Chunks!Unlink
  <2>2. CASE Call \/ Open \/ Seek \/ Write \/ Sync \/ Close
    BY <1>2, <2>2, CallStep DEF Chunks!ChunkNext
  <2>3. CASE OpenFails \/ SeekFails \/ WriteFails
    BY <1>2, <2>3, FailStep DEF Chunks!ChunkNext
  <2>4. CASE PowerLoss
    BY <1>2, <2>4, PowerStep
  <2>5. CASE UNCHANGED vars
    BY <2>5 DEF vars, Chunks!chunkVars, Whole, Rest
  <2>6. QED
    BY <1>2, <2>1, <2>2, <2>3, <2>4, <2>5 DEF Next, Step
<1>3. QED
  BY <1>1, <1>2, Invariant, Cut, DurableSafe, PTL DEF Spec, ImplementsChunks, Chunks!ChunkSpec
----------------------------------------------------------------------------
(* A call comes to its end                                                 *)

\* How many calls of the file system are left at most.
Rank == CASE pc = "open"  -> ChunkSize + 4
          [] pc = "seek"  -> ChunkSize + 3
          [] pc = "write" -> 2 + (ChunkSize - written)
          [] pc = "close" -> 1
          [] OTHER        -> 0

\* Whatever fs_write takes, a call of any size ends after a bounded number of steps:
\* each of them brings it closer to its return.  This is the half of Returns that
\* needs no fairness.
THEOREM CallEnds ==
  Spec => /\ [](Rank \in 0..(ChunkSize + 4))
          /\ [][Step => Rank' < Rank]_vars
<1> USE AppendAssumption
<1>1. ASSUME IInv PROVE Rank \in 0..(ChunkSize + 4)
  <2>1. ChunkSize - written \in 0..ChunkSize
    BY <1>1 DEF IInv, TypeOK
  <2>2. QED
    BY <2>1 DEF Rank
<1>2. ASSUME IInv, Step PROVE Rank' < Rank
  <2> USE <1>2 DEF IInv, TypeOK, Rank
  <2>1. CASE Open \/ OpenFails
    BY <2>1 DEF Open, OpenFails
  <2>2. CASE Seek \/ SeekFails
    BY <2>2 DEF Seek, SeekFails, Fail
  <2>3. CASE Write
    <3>1. PICK n \in 1..(ChunkSize - written) : written' = written + n
      BY <2>3 DEF Write
    <3>2. pc = "write" /\ pc' = "write"
      BY <2>3 DEF Write
    <3>3. QED
      BY <3>1, <3>2
  <2>4. CASE WriteFails
    BY <2>4 DEF WriteFails, Fail
  <2>5. CASE Sync \/ Close
    BY <2>5 DEF Sync, Close
  <2>6. QED
    BY <2>1, <2>2, <2>3, <2>4, <2>5 DEF Step
<1>3. QED
  BY <1>1, <1>2, Invariant, PTL DEF Spec
==============================================================================
