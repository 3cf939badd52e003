---------------------------- MODULE McubootProofs ----------------------------
(***************************************************************************)
(* Facts about images, slots and the boot step, for every number of        *)
(* versions and of blocks: the updaters' proofs rest on them.              *)
(***************************************************************************)
EXTENDS Mcuboot, TLAPS

\* The first n blocks of an image are n well-formed blocks, in order.
LEMMA PrefixType ==
  ASSUME NEW v \in Versions, NEW n \in 0..NumChunks
  PROVE  /\ Prefix(v, n) \in Seq(Block)
         /\ Len(Prefix(v, n)) = n
         /\ \A i \in 1..n : Prefix(v, n)[i] = <<v, i>>
<1>1. \A i \in 1..n : <<v, i>> \in Block
  BY ImageAssumption DEF Block
<1>2. QED
  BY <1>1, ImageAssumption DEF Prefix

\* One more block makes the next longer prefix.
LEMMA PrefixAppend ==
  ASSUME NEW v \in Versions, NEW n \in 0..(NumChunks - 1)
  PROVE  Append(Prefix(v, n), <<v, n + 1>>) = Prefix(v, n + 1)
<1>1. n \in 0..NumChunks /\ n + 1 \in 0..NumChunks
  BY ImageAssumption
<1>2. QED
  BY <1>1, PrefixType, ImageAssumption DEF Prefix

\* MCUboot accepts a whole image and reads its version off the header.
LEMMA ImageBootable ==
  ASSUME NEW v \in Versions
  PROVE  /\ Image(v) \in Seq(Block)
         /\ Len(Image(v)) = NumChunks
         /\ Bootable(Image(v))
         /\ HeaderVersion(Image(v)) = v
<1>1. NumChunks \in 0..NumChunks /\ 1 \in 1..NumChunks
  BY ImageAssumption
<1>2. QED
  BY <1>1, PrefixType DEF Image, Bootable, HeaderVersion

\* Whatever MCUboot accepts carries a real version, never torn data.
LEMMA BootableHeader ==
  ASSUME NEW s \in Seq(Block), Bootable(s)
  PROVE  HeaderVersion(s) \in Versions
<1>1. s[1] = <<HeaderVersion(s), 1>> /\ s[1] \in Block
  BY ImageAssumption DEF Bootable
<1>2. s[1] # Torn
  BY <1>1 DEF Torn
<1>3. QED
  BY <1>1, <1>2 DEF Block, HeaderVersion

\* Torn data is a block, though of no image.
LEMMA TornType == Torn \in Block /\ <<Torn>> \in Seq(Block) /\ <<>> \in Seq(Block)
BY DEF Block

\* What a reset leaves in the slots is well formed, and never lowers the
\* version below that of an image found in slot1.
LEMMA BootType ==
  ASSUME SlotTypeOK, BootSlots
  PROVE  SlotTypeOK'
<1> USE DEF SlotTypeOK
<1>1. ASSUME SwapSlots, Bootable(slot1), confirmed' \in BOOLEAN
      PROVE  SlotTypeOK'
  <2>1. primary' \in Versions
    BY <1>1, BootableHeader DEF SwapSlots
  <2>2. slot1' \in Seq(Block)
    BY <1>1, ImageBootable DEF SwapSlots
  <2>3. QED
    BY <1>1, <2>1, <2>2 DEF SwapSlots
<1>2. CASE TestSwap
  BY <1>1, <1>2 DEF TestSwap, SwapDue
<1>3. CASE RevertSwap
  BY <1>1, <1>3 DEF RevertSwap, RevertDue
<1>4. CASE KeepSlots
  BY <1>4 DEF KeepSlots
<1>5. QED
  BY <1>2, <1>3, <1>4 DEF BootSlots
==============================================================================
