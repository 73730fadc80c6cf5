-------------------------------- MODULE UpdateProofs -------------------------------
(* UpdateClass and its three clients: what an update writes, what end()       *)
(* selects, and what a session leaves behind.                                 *)
EXTENDS UpdateClients, TLAPS

-----------------------------------------------------------------------------
(* Part 1: the flash.                                                         *)
(* For every flash geometry, every set of images and every order of calls,    *)
(* failures and resets: an update touches only its own partition and never    *)
(* the one that runs, provided that clients keep to the size they declared.   *)

(* What a client that keeps to the declared size is.                          *)
HonestClient == Surplus = 0 /\ MinChunk > 0

(* A partition has a positive, a whole number of bytes.                       *)
LEMMA PartSizeType == PartSize \in Nat \ {0}
<1>1. \A m, n \in Nat \ {0} : m * n \in Nat \ {0}
  OBVIOUS
<1> QED BY <1>1, SizesAssumption DEF PartSize

(* Multiplying by the sector size keeps the order.                            *)
LEMMA Monotone ==
  ASSUME NEW s \in Nat \ {0}, NEW x \in Int, NEW y \in Int, x <= y
  PROVE  x * s <= y * s
<1>1. PICK d \in Nat : y = x + d
  <2>1. y - x \in Nat /\ y = x + (y - x)
    OBVIOUS
  <2> QED BY <2>1
<1>2. y * s = x * s + d * s
  BY <1>1
<1>3. d * s \in Nat
  BY <1>1
<1>4. x * s \in Int
  OBVIOUS
<1> QED BY <1>2, <1>3, <1>4

(* Division with remainder, for the sector of an address.                     *)
LEMMA Quotient ==
  ASSUME NEW s \in Nat \ {0}, NEW a \in Nat
  PROVE  /\ a \div s \in Nat
         /\ (a \div s) * s <= a
         /\ a < ((a \div s) + 1) * s
OBVIOUS

(* A sector that starts in a partition lies in it: partitions are whole       *)
(* numbers of sectors and start at one.                                       *)
LEMMA SectorInPartition ==
  ASSUME NEW p \in Parts, NEW t \in Nat,
         Base(p) <= t, t < Base(p) + PartSize
  PROVE  Sector(t) \subseteq Cells(p)
<1> DEFINE q == t \div SecSize
           n == PartSectors
<1>1. SecSize \in Nat \ {0} /\ n \in Nat \ {0}
  BY SizesAssumption
<1>2. q \in Nat /\ q * SecSize <= t /\ t < (q + 1) * SecSize
  BY <1>1, Quotient
<1>3. p \in Nat /\ p * n \in Nat /\ (p + 1) * n \in Nat
  BY <1>1 DEF Parts, Apps, Spiffs
<1> HIDE DEF q, n
<1>4. Base(p) = (p * n) * SecSize
  BY <1>1, <1>3 DEF Base, PartSize, n, Parts, Apps, Spiffs
<1>5. Base(p) + PartSize = ((p + 1) * n) * SecSize
  BY <1>1, <1>3 DEF Base, PartSize, n, Parts, Apps, Spiffs
<1>6. p * n <= q
  <2> SUFFICES ASSUME q + 1 <= p * n PROVE FALSE
    BY <1>2, <1>3
  <2>1. (q + 1) * SecSize <= (p * n) * SecSize
    BY <1>1, <1>2, <1>3, Monotone
  <2> QED BY <2>1, <1>1, <1>2, <1>3, <1>4
<1>7. q + 1 <= (p + 1) * n
  <2> SUFFICES ASSUME (p + 1) * n <= q PROVE FALSE
    BY <1>2, <1>3
  <2>1. ((p + 1) * n) * SecSize <= q * SecSize
    BY <1>1, <1>2, <1>3, Monotone
  <2> QED BY <2>1, <1>1, <1>2, <1>3, <1>5
<1>8. (p * n) * SecSize <= q * SecSize
  BY <1>1, <1>2, <1>3, <1>6, Monotone
<1>9. (q + 1) * SecSize <= ((p + 1) * n) * SecSize
  BY <1>1, <1>2, <1>3, <1>7, Monotone
<1> SUFFICES ASSUME NEW b \in Addrs, b \div SecSize = q
             PROVE  Base(p) <= b /\ b < Base(p) + PartSize
  BY DEF Sector, Cells, q
<1>10. b \in Nat
  BY DEF Addrs
<1>11. q * SecSize <= b /\ b < (q + 1) * SecSize
  BY <1>1, <1>10, Quotient
<1> QED BY <1>1, <1>2, <1>3, <1>4, <1>5, <1>8, <1>9, <1>10, <1>11

(* Two partitions share no cell, and every cell of a partition exists.        *)
LEMMA PartitionsDisjoint ==
  ASSUME NEW p \in Parts, NEW r \in Parts, p # r
  PROVE  Cells(p) \cap Cells(r) = {}
<1>1. PartSize \in Nat \ {0}
  BY PartSizeType
<1>2. Addrs \subseteq Int
  BY <1>1 DEF Addrs, FlashSize
<1>3. Base(0) = 0 /\ Base(1) = PartSize /\ Base(2) = PartSize + PartSize
  BY <1>1 DEF Base
<1>4. \/ Base(p) + PartSize <= Base(r)
      \/ Base(r) + PartSize <= Base(p)
  BY <1>1, <1>3 DEF Parts, Apps, Spiffs
<1>5. Base(p) \in Int /\ Base(r) \in Int
  BY <1>1, <1>3 DEF Parts, Apps, Spiffs
<1>6. ASSUME NEW a, a \in Cells(p), a \in Cells(r) PROVE FALSE
  <2>1. a \in Int /\ Base(p) <= a /\ a < Base(p) + PartSize
    BY <1>2, <1>6 DEF Cells
  <2>2. Base(r) <= a /\ a < Base(r) + PartSize
    BY <1>6 DEF Cells
  <2> QED BY <1>1, <1>4, <1>5, <2>1, <2>2
<1> QED BY <1>6

(* An offset inside a partition is a cell of that partition.                  *)
LEMMA CellOfPartition ==
  ASSUME NEW p \in Parts, NEW o \in Nat, o < PartSize
  PROVE  Base(p) + o \in Cells(p) /\ Base(p) + o \in Addrs
BY PartSizeType DEF Cells, Base, Addrs, FlashSize, Parts, Apps, Spiffs

(* The bytes a source delivers and the result of programming are cells.       *)
LEMMA ByteType == ASSUME NEW i \in Images, NEW o \in Int
                  PROVE  Byte(i, o) \in Cell
BY DEF Byte, Cell

(* Programming a cell leaves a cell.                                          *)
LEMMA ProgrammedType == ASSUME NEW old \in Cell, NEW new \in Cell
                        PROVE  Programmed(old, new) \in Cell
BY DEF Programmed, Cell

(* A verified partition stays verified when none of its cells changes.        *)
LEMMA VerifiedFrame ==
  ASSUME NEW p \in Apps, Verified(p),
         \A a \in Cells(p) : flash'[a] = flash[a]
  PROVE  Verified(p)'
<1>1. PICK i \in Genuine : Holds(p, i)
  BY DEF Verified
<1>2. ImgLen[i] \in Nat /\ ImgLen[i] <= PartSize
  BY <1>1, ImagesAssumption DEF Holds
<1>3. ASSUME NEW o \in 0 .. ImgLen[i] - 1
      PROVE  flash'[Base(p) + o] = Byte(i, o)
  <2>1. o \in Nat /\ o < PartSize
    BY <1>2, PartSizeType
  <2>2. Base(p) + o \in Cells(p)
    BY <2>1, CellOfPartition DEF Parts
  <2> QED BY <1>1, <2>2 DEF Holds
<1> QED BY <1>1, <1>2, <1>3 DEF Verified, Holds

-----------------------------------------------------------------------------
(* How a call ends, or the chip resets, keeps the invariant.                  *)

(* A call that only answers changes neither the flash nor the update.         *)
LEMMA AnswerInv ==
  ASSUME Inv, NEW answer \in {"ok", "fail"}, Answer(answer)
  PROVE  Inv'
<1> USE DEF Inv, Answer, Return, nonvolatile, update, source
<1>1. TypeOK'
  BY DEF TypeOK
<1>2. TargetChosen'
  BY DEF TargetChosen, IsRunning
<1>3. Accounting'
  BY DEF Accounting, IsRunning, TypeOK
<1>4. RunningIntact'
  BY DEF RunningIntact, Verified, Holds
<1> QED BY <1>1, <1>2, <1>3, <1>4

(* _reset() gives the buffer back and forgets the update.                     *)
LEMMA ReturnResetInv ==
  ASSUME Inv, NEW answer \in {"ok", "fail"}, ReturnReset(answer)
  PROVE  Inv'
<1> USE DEF Inv, ReturnReset, Reset, Return, nonvolatile, source
<1>1. TypeOK'
  BY DEF TypeOK
<1>2. TargetChosen'
  BY DEF TargetChosen, IsRunning
<1>3. Accounting'
  BY SizesAssumption DEF Accounting, IsRunning
<1>4. RunningIntact'
  BY DEF RunningIntact, Verified, Holds
<1> QED BY <1>1, <1>2, <1>3, <1>4

(* _abort() resets the update and keeps its error.                            *)
LEMMA ReturnAbortInv ==
  ASSUME Inv, NEW err \in Errors, ReturnAbort(err)
  PROVE  Inv'
<1> USE DEF Inv, ReturnAbort, Abort, Reset, Return, nonvolatile, source
<1>1. TypeOK'
  BY DEF TypeOK
<1>2. TargetChosen'
  BY DEF TargetChosen, IsRunning
<1>3. Accounting'
  BY SizesAssumption DEF Accounting, IsRunning
<1>4. RunningIntact'
  BY DEF RunningIntact, Verified, Holds
<1> QED BY <1>1, <1>2, <1>3, <1>4

(* A restart loses what is in memory and keeps the flash.                     *)
LEMMA RestartInv ==
  ASSUME Inv, Restart, UNCHANGED flash
  PROVE  Inv'
<1> USE DEF Inv, Restart, Reset
<1>1. running' \in Apps /\ Verified(running')
  BY DEF TypeOK, Apps, RunningIntact
<1>2. TypeOK'
  BY <1>1 DEF TypeOK, Errors
<1>3. TargetChosen'
  BY DEF TargetChosen, IsRunning
<1>4. Accounting'
  BY SizesAssumption DEF Accounting, IsRunning
<1>5. RunningIntact'
  BY <1>1 DEF RunningIntact, Verified, Holds
<1> QED BY <1>2, <1>3, <1>4, <1>5

(* A failing _writeBuffer() may leave any cell outside the running partition  *)
(* changed.                                                                   *)
LEMMA FlushFailedInv ==
  ASSUME Inv, NEW err \in Errors, FlushFailed(err), flush # "no",
         flash' \in [Addrs -> Cell],
         \A a \in Cells(running) : flash'[a] = flash[a]
  PROVE  Inv'
<1> USE DEF Inv, FlushFailed, Abort, Reset, source
<1>1. TypeOK'
  BY DEF TypeOK
<1>2. TargetChosen'
  BY DEF TargetChosen, IsRunning
<1>3. Accounting'
  BY SizesAssumption DEF Accounting, IsRunning
<1>4. RunningIntact'
  <2>1. Verified(running)'
    BY VerifiedFrame DEF RunningIntact, TypeOK
  <2> QED BY <2>1 DEF RunningIntact
<1> QED BY <1>1, <1>2, <1>3, <1>4

(* A step that leaves the flash and the running partition alone keeps the     *)
(* device startable.                                                          *)
LEMMA SameFlash ==
  ASSUME RunningIntact, UNCHANGED <<flash, running>>
  PROVE  RunningIntact'
BY DEF RunningIntact, Verified, Holds

-----------------------------------------------------------------------------
(* Calls that start or reject an update.                                      *)

(* begin() rejects a size or a command: the object is as after _reset().      *)
LEMMA BeginRejectedInv ==
  ASSUME Inv, NEW sz \in Nat, NEW c \in Commands, BeginRejected(sz, c)
  PROVE  Inv'
<1> USE DEF Inv, BeginRejected, Abort, Reset, Return, nonvolatile, source
<1>1. BeginError(sz, c) \in Errors
  BY DEF BeginError, Errors
<1>2. partition' \in Parts \cup {NoPart}
  BY DEF TypeOK, PartitionFor, NextUpdatePartition, Parts, Apps, Spiffs
<1>3. TypeOK'
  BY <1>1, <1>2 DEF TypeOK
<1>4. TargetChosen'
  BY DEF TargetChosen, IsRunning
<1>5. Accounting'
  BY SizesAssumption DEF Accounting, IsRunning
<1> QED BY <1>3, <1>4, <1>5, SameFlash

(* begin() accepts: its target is not the running partition and has room for  *)
(* the size, whatever a client declared.                                      *)
LEMMA BeginAcceptedInv ==
  ASSUME Inv, NEW i \in Images, NEW sz \in Nat, NEW c \in Commands,
         BeginAccepted(i, sz, c)
  PROVE  Inv'
<1> USE DEF Inv, BeginAccepted, Return, nonvolatile
<1>1. c \in {"U_FLASH", "U_SPIFFS"} /\ PartitionFor(c) # NoPart
  BY DEF BeginError, Commands
<1>2. partition' \in Parts \ {running}
  BY <1>1 DEF TypeOK, PartitionFor, NextUpdatePartition, Parts, Apps, Spiffs
<1>3. size' \in Nat /\ size' <= PartSize
  <2>1. sz = Unknown \/ sz <= PartSize
    BY PartSizeType DEF BeginError
  <2> QED BY <2>1, PartSizeType
<1>4. TypeOK'
  <2>1. buffer' \in BOOLEAN
    BY Zenon
  <2>2. /\ command' \in {"U_FLASH", "U_SPIFFS"}
        /\ digested' \in Nat /\ ret' \in {"none", "ok", "fail"}
    BY <1>1 DEF TypeOK
  <2>3. /\ error' \in Errors /\ pc' = "idle" /\ flush' = "no" /\ left' = 0
        /\ bufferLen' = 0 /\ progress' = 0 /\ img' \in Images
    BY DEF Errors
  <2>4. UNCHANGED <<flash, boot, running, targetMd5>>
    OBVIOUS
  <2> HIDE DEF BeginAccepted
  <2> QED BY <2>1, <2>2, <2>3, <2>4, <1>2, <1>3 DEF TypeOK
<1>5. TargetChosen'
  BY <1>2 DEF TargetChosen
<1>6. Accounting'
  BY <1>3, SizesAssumption DEF Accounting, IsRunning
<1> QED BY <1>4, <1>5, <1>6, SameFlash

(* The sizes clients declare are natural numbers.                             *)
LEMMA DeclaredSizes ==
  ASSUME NEW i \in Images, NEW sz \in {0, ImgLen[i], Unknown}
  PROVE  sz \in Nat
BY ImagesAssumption, SizesAssumption, PartSizeType DEF Unknown

(* begin(), refused or accepted: the target is a partition that does not run, *)
(* and the image fits into it.                                                *)
LEMMA BeginInv == ASSUME Inv, Begin PROVE Inv'
<1>1. CASE BeginBusy
  BY <1>1, AnswerInv DEF BeginBusy
<1>2. ASSUME NEW i \in Images, NEW c \in Commands,
             NEW sz \in {0, ImgLen[i], Unknown},
             BeginRejected(sz, c) \/ BeginAccepted(i, sz, c)
      PROVE  Inv'
  BY <1>2, DeclaredSizes, BeginRejectedInv, BeginAcceptedInv
<1> QED BY <1>1, <1>2 DEF Begin

(* Calls that change neither the flash nor the bytes of the update.           *)
LEMMA OtherCallsInv ==
  ASSUME Inv, SetMD5 \/ ClearError \/ AbortCall \/ NotReady \/ RollBack
  PROVE  Inv'
<1>1. CASE SetMD5
  <2>1. CASE Answer("fail")
    BY <2>1, AnswerInv
  <2>2. CASE ~Answer("fail")
    <3> USE <1>1, <2>2 DEF Inv, SetMD5, Return, nonvolatile, update
    <3>1. TypeOK'
      BY DEF TypeOK
    <3>2. TargetChosen' /\ Accounting'
      BY DEF TargetChosen, Accounting, IsRunning, TypeOK
    <3> QED BY <3>1, <3>2, SameFlash
  <2> QED BY <2>1, <2>2
<1>2. CASE ClearError
  <2> USE <1>2 DEF Inv, ClearError, nonvolatile, update, source, control
  <2>1. TypeOK'
    BY DEF TypeOK, Errors
  <2>2. TargetChosen' /\ Accounting'
    BY DEF TargetChosen, Accounting, IsRunning
  <2> QED BY <2>1, <2>2, SameFlash
<1>3. CASE AbortCall
  BY <1>3, ReturnAbortInv DEF AbortCall, Errors
<1>4. CASE NotReady
  BY <1>4, AnswerInv DEF NotReady
<1>5. CASE RollBack
  <2>1. CASE Answer("fail")
    BY <2>1, AnswerInv
  <2>2. CASE ~Answer("fail")
    <3> USE <1>5, <2>2 DEF Inv, RollBack, Return, update, source
    <3>1. TypeOK'
      BY DEF TypeOK, NextUpdatePartition, Apps
    <3>2. TargetChosen' /\ Accounting'
      BY DEF TargetChosen, Accounting, IsRunning, TypeOK
    <3> QED BY <3>1, <3>2, SameFlash
  <2> QED BY <2>1, <2>2
<1> QED BY <1>1, <1>2, <1>3, <1>4, <1>5

-----------------------------------------------------------------------------
(* Handing over data.  With an honest client remaining() never wraps.         *)

(* remaining() does not wrap around, and has room for the buffer.             *)
LEMMA RemainingValue ==
  ASSUME Inv, IsRunning
  PROVE  /\ Remaining = size - progress
         /\ bufferLen <= Remaining
         /\ Remaining \in Nat
BY DEF Inv, Accounting, TypeOK, Remaining, Minus, IsRunning

(* An honest client has just the bytes the update still takes.                *)
LEMMA DeliverableValue ==
  ASSUME HonestClient, Inv, IsRunning
  PROVE  Deliverable = size - progress - bufferLen /\ Deliverable \in Nat
BY DEF HonestClient, Inv, Accounting, TypeOK, Deliverable, IsRunning

(* Filling the buffer up to n bytes, with l bytes of the argument left.       *)
LEMMA FillInv ==
  ASSUME Inv, IsRunning, NEW n \in Nat, n > 0, n <= SecSize,
         bufferLen' = n, flush' \in {"check", "no"},
         UNCHANGED <<nonvolatile, running, error, buffer, size, progress,
                     command, partition, source, digested>>,
         left' \in Nat, progress + n + left' <= size,
         pc' \in {"write", "tail", "available2", "stream"},
         ret' \in {"none", "ok", "fail"},
         left' > 0 <=> pc' = "write"
  PROVE  Inv'
<1> USE DEF Inv, nonvolatile, source
<1>1. TypeOK'
  BY DEF TypeOK
<1>2. TargetChosen'
  BY DEF TargetChosen, IsRunning
<1>3. Accounting'
  BY DEF Accounting, IsRunning, TypeOK
<1> QED BY <1>1, <1>2, <1>3, SameFlash

(* Steps that only move the program counter of an update under way.           *)
LEMMA MoveInv ==
  ASSUME Inv, IsRunning \/ pc # "idle", left = 0, flush = "no",
         UNCHANGED <<nonvolatile, running, error, update, partition, source,
                     digested, flush, left>>,
         pc' \in {"available", "stream", "verify", "enable", "activate"},
         pc' \in {"available", "stream"} => IsRunning,
         ret' \in {"none", "ok", "fail"}
  PROVE  Inv'
<1> USE DEF Inv, nonvolatile, update, source
<1>1. TypeOK'
  BY DEF TypeOK
<1>2. TargetChosen'
  BY DEF TargetChosen, IsRunning
<1>3. Accounting'
  BY DEF Accounting, IsRunning
<1> QED BY <1>1, <1>2, <1>3, SameFlash

(* write() and writeStream() are given no more than the update still takes.   *)
LEMMA DataCallsInv ==
  ASSUME HonestClient, Inv,
         WriteTooLong \/ Write \/ WriteAvailable \/ WriteStream
  PROVE  Inv'
<1>0. pc = "idle" => left = 0 /\ flush = "no"
  BY DEF Inv, Accounting, TypeOK
<1>1. CASE WriteTooLong
  BY <1>1, ReturnAbortInv DEF WriteTooLong, Errors
<1>2. CASE Write
  <2> USE <1>2 DEF Inv, Write, Ready, nonvolatile, update, source
  <2>1. PICK len \in MinChunk .. MaxChunk : len <= Deliverable /\ left' = len
    OBVIOUS
  <2>2. left' \in Nat /\ left' > 0 /\ progress + bufferLen + left' <= size
    BY <2>1, DeliverableValue, SizesAssumption
       DEF HonestClient, TypeOK, IsRunning
  <2>3. TypeOK'
    BY <2>2 DEF TypeOK
  <2>4. TargetChosen'
    BY DEF TargetChosen, IsRunning
  <2>5. Accounting'
    BY <2>2 DEF Accounting, IsRunning
  <2> QED BY <2>3, <2>4, <2>5, SameFlash
<1>3. CASE WriteAvailable
  BY <1>0, <1>3, MoveInv DEF WriteAvailable, Ready
<1>4. CASE WriteStream
  BY <1>0, <1>4, MoveInv, ReturnAbortInv DEF WriteStream, Ready, Errors
<1> QED BY <1>1, <1>2, <1>3, <1>4

(* The copying loops of write(data, len), write(T) and writeStream().         *)
LEMMA CopyInv ==
  ASSUME HonestClient, Inv,
         \/ CopyToSectorEnd \/ CopyTail \/ WriteReturns
         \/ ReadAvailable \/ AvailableAgain
         \/ StreamDone \/ StreamRead \/ StreamTimeout
  PROVE  Inv'
<1>0. SecSize \in Nat \ {0}
  BY SizesAssumption
<1>1. CASE CopyToSectorEnd
  <2> USE <1>1 DEF CopyToSectorEnd
  <2>1. /\ left \in Nat /\ left > 0 /\ bufferLen \in Nat /\ progress \in Nat
        /\ bufferLen <= SecSize /\ size \in Nat
    BY DEF Inv, TypeOK, Accounting
  <2>2. IsRunning /\ progress + bufferLen + left <= size
    BY DEF Inv, Accounting
  <2>3. ret' \in {"none", "ok", "fail"}
    BY DEF Inv, TypeOK
  <2>4. left' \in Nat /\ left' > 0 /\ progress + SecSize + left' <= size
    BY <1>0, <2>1, <2>2
  <2> QED BY <1>0, <2>2, <2>3, <2>4, FillInv DEF Fill
<1>2. CASE CopyTail
  <2> USE <1>2 DEF CopyTail
  <2>1. /\ left \in Nat /\ left > 0 /\ bufferLen \in Nat /\ progress \in Nat
        /\ size \in Nat
    BY DEF Inv, TypeOK, Accounting
  <2>2. IsRunning /\ progress + bufferLen + left <= size
    BY DEF Inv, Accounting
  <2>3. ret' \in {"none", "ok", "fail"}
    BY DEF Inv, TypeOK
  <2>4. /\ bufferLen + left \in Nat /\ bufferLen + left > 0
        /\ progress + (bufferLen + left) + left' <= size
    BY <2>1, <2>2
  <2> QED BY <2>1, <2>2, <2>3, <2>4, FillInv DEF Fill
<1>3. CASE WriteReturns
  BY <1>3, AnswerInv DEF WriteReturns
<1>4. CASE ReadAvailable
  <2> USE <1>4 DEF ReadAvailable
  <2>1. PICK k \in 0 .. Deliverable :
          IF k = 0
            THEN Answer("ok")
            ELSE /\ IF bufferLen + Capped(k) > SecSize
                      THEN Fill(SecSize, TRUE)
                      ELSE Fill(bufferLen + Capped(k),
                                bufferLen + Capped(k) = Remaining)
                 /\ pc' = "available2"
                 /\ UNCHANGED <<left, ret>>
    OBVIOUS
  <2>2. CASE k = 0
    BY <2>1, <2>2, AnswerInv
  <2>3. CASE k # 0
    <3>0. IsRunning
      BY DEF Inv, Accounting
    <3>1. /\ bufferLen \in Nat /\ progress \in Nat /\ size \in Nat
          /\ left = 0 /\ ret \in {"none", "ok", "fail"}
      BY DEF Inv, TypeOK, Accounting
    <3>2. k \in Nat /\ k > 0 /\ progress + bufferLen + k <= size
      BY <2>3, <3>0, <3>1, DeliverableValue
    <3>3. Capped(k) = k
      BY <3>0, <3>1, <3>2, RemainingValue DEF Capped
    <3>4. CASE bufferLen + k > SecSize
      <4>1. progress + SecSize + 0 <= size
        BY <1>0, <3>1, <3>2, <3>4
      <4>2. Fill(SecSize, TRUE) /\ pc' = "available2" /\ left' = 0 /\ ret' = ret
        BY <2>1, <2>3, <3>1, <3>3, <3>4
      <4> QED BY <1>0, <3>0, <3>1, <4>1, <4>2, FillInv DEF Fill
    <3>5. CASE ~(bufferLen + k > SecSize)
      <4>1. /\ Fill(bufferLen + k, bufferLen + k = Remaining)
            /\ pc' = "available2" /\ left' = 0 /\ ret' = ret
        BY <2>1, <2>3, <3>1, <3>3, <3>5
      <4>2. /\ bufferLen + k \in Nat /\ bufferLen + k > 0
            /\ bufferLen + k <= SecSize
            /\ progress + (bufferLen + k) + 0 <= size
        BY <1>0, <3>1, <3>2, <3>5
      <4> QED BY <3>0, <3>1, <4>1, <4>2, FillInv DEF Fill
    <3> QED BY <3>4, <3>5
  <2> QED BY <2>2, <2>3
<1>5. CASE AvailableAgain
  <2>1. left = 0 /\ ret \in {"none", "ok", "fail"} /\ IsRunning
    BY <1>5 DEF Inv, Accounting, TypeOK, AvailableAgain
  <2> QED BY <1>5, <2>1, AnswerInv, MoveInv DEF AvailableAgain
<1>6. CASE StreamDone
  BY <1>6, AnswerInv DEF StreamDone
<1>7. CASE StreamRead
  <2> USE <1>7 DEF StreamRead
  <2>1. PICK n \in 1 .. BytesToRead :
          /\ n <= Deliverable
          /\ Fill(bufferLen + n, bufferLen + n \in {Remaining, SecSize})
    OBVIOUS
  <2>2. /\ bufferLen \in Nat /\ progress \in Nat /\ size \in Nat
        /\ left = 0 /\ ret \in {"none", "ok", "fail"} /\ bufferLen <= SecSize
    BY DEF Inv, TypeOK, Accounting
  <2>3. IsRunning
    BY DEF Inv, Accounting
  <2>4. n \in Nat /\ n > 0 /\ progress + bufferLen + n <= size
    BY <2>1, <2>2, <2>3, DeliverableValue
  <2>5. n <= SecSize - bufferLen
    BY <1>0, <2>1, <2>2, <2>3, <2>4, RemainingValue DEF BytesToRead
  <2>6. /\ bufferLen + n \in Nat /\ bufferLen + n > 0
        /\ bufferLen + n <= SecSize
        /\ progress + (bufferLen + n) + 0 <= size
    BY <1>0, <2>2, <2>4, <2>5
  <2> QED BY <2>1, <2>2, <2>3, <2>6, FillInv DEF Fill
<1>8. CASE StreamTimeout
  BY <1>8, ReturnAbortInv DEF StreamTimeout, Errors
<1> QED BY <1>1, <1>2, <1>3, <1>4, <1>5, <1>6, <1>7, <1>8

-----------------------------------------------------------------------------
(* _writeBuffer().                                                            *)

(* Where the buffer goes while it is being flushed.                           *)
LEMMA TargetBounds ==
  ASSUME Inv, flush # "no"
  PROVE  /\ partition \in Parts \ {running} /\ partition \in Nat
         /\ Base(partition) \in Nat /\ Target \in Nat /\ bufferLen \in Nat
         /\ Base(partition) <= Target
         /\ Target < Base(partition) + PartSize
         /\ Target + bufferLen <= Base(partition) + PartSize
<1>1. /\ partition \in Parts \ {running}
      /\ progress \in Nat /\ bufferLen \in Nat /\ left \in Nat /\ size \in Nat
      /\ bufferLen > 0 /\ size <= PartSize
      /\ progress + bufferLen + left <= size
  BY DEF Inv, TargetChosen, Accounting, TypeOK
<1>2. partition \in Nat
  BY <1>1 DEF Parts, Apps, Spiffs
<1>3. Base(partition) \in Nat
  BY <1>2, PartSizeType DEF Base
<1> QED BY <1>1, <1>2, <1>3, PartSizeType DEF Target

(* The area a flush erases or programs lies in the target partition.          *)
LEMMA AreasInTarget ==
  ASSUME Inv, flush # "no"
  PROVE  /\ EraseArea \subseteq Cells(partition)
         /\ ProgramArea(bufferLen) \subseteq Cells(partition)
<1>1. EraseArea \subseteq Cells(partition)
  BY TargetBounds, SectorInPartition DEF EraseArea
<1>2. Addrs \subseteq Int
  BY PartSizeType DEF Addrs, FlashSize
<1>3. ProgramArea(bufferLen) \subseteq Cells(partition)
  <2> SUFFICES ASSUME NEW a \in Addrs, Target <= a, a < Target + bufferLen
               PROVE  Base(partition) <= a /\ a < Base(partition) + PartSize
    BY DEF ProgramArea, Cells
  <2> QED BY <1>2, TargetBounds, PartSizeType
<1> QED BY <1>1, <1>3

(* A programmed prefix of the buffer leaves a flash of cells.                 *)
LEMMA WrittenType ==
  ASSUME Inv, flush # "no", NEW n \in Nat
  PROVE  Written(n) \in [Addrs -> Cell]
<1>1. ASSUME NEW a \in Addrs PROVE Withheld(a) \in Cell
  <2>1. a \in Int /\ a - Base(partition) \in Int
    BY TargetBounds, PartSizeType DEF Addrs, FlashSize
  <2> QED BY <2>1, ByteType DEF Withheld, Cell, Inv, TypeOK
<1>2. ASSUME NEW a \in Addrs
      PROVE  Programmed(flash[a], Withheld(a)) \in Cell /\ flash[a] \in Cell
  BY <1>1, ProgrammedType DEF Inv, TypeOK
<1> QED BY <1>2 DEF Written

(* _writeBuffer() erases and programs inside the target.                      *)
LEMMA WriteBufferInv == ASSUME Inv, WriteBuffer PROVE Inv'
<1>0. flush # "no" /\ Apps \subseteq Parts /\ running \in Apps
  BY DEF WriteBuffer, CheckMagic, EraseSector, WriteFlash, Flushing, Inv,
         TypeOK, Parts
<1>1. CASE CheckMagic
  <2>1. CASE FlushFailed("MAGIC_BYTE") /\ UNCHANGED flash
    <3>1. flash' \in [Addrs -> Cell] /\ "MAGIC_BYTE" \in Errors
      BY <2>1 DEF Inv, TypeOK, Errors
    <3> QED BY <1>0, <2>1, <3>1, FlushFailedInv
  <2>2. CASE ~(FlushFailed("MAGIC_BYTE") /\ UNCHANGED flash)
    <3> USE <1>1, <2>2 DEF Inv, CheckMagic, nonvolatile, update, source
    <3>1. TypeOK'
      BY DEF TypeOK
    <3>2. TargetChosen'
      BY DEF TargetChosen, IsRunning
    <3>3. Accounting'
      BY DEF Accounting, IsRunning, Flushing
    <3> QED BY <3>1, <3>2, <3>3, SameFlash
  <2> QED BY <2>1, <2>2
<1>2. CASE EraseSector
  <2>1. CASE Panic(EraseArea)
    BY <2>1, RestartInv DEF Panic
  <2>2. CASE /\ ~Dangerous(EraseArea)
             /\ \E torn \in Tears : flash' = HalfErased(torn)
             /\ FlushFailed("ERASE")
    <3>1. PICK torn \in Tears : flash' = HalfErased(torn)
      BY <2>2
    <3>2. flash' \in [Addrs -> Cell] /\ "ERASE" \in Errors
      BY <3>1 DEF HalfErased, Cell, Inv, TypeOK, Errors
    <3>3. \A a \in Cells(running) : flash'[a] = flash[a]
      BY <2>2, <3>1 DEF Dangerous, HalfErased, Cells
    <3> QED BY <1>0, <2>2, <3>2, <3>3, FlushFailedInv
  <2>3. CASE /\ ~Dangerous(EraseArea) /\ flash' = Erased /\ flush' = "program"
             /\ UNCHANGED <<boot, running, error, update, partition, source,
                            digested, pc, left, ret>>
    <3> USE <2>3 DEF Inv, update, source
    <3>1. flash' \in [Addrs -> Cell]
      BY DEF Erased, TypeOK, Cell
    <3>2. TypeOK'
      BY <3>1 DEF TypeOK
    <3>3. TargetChosen'
      BY DEF TargetChosen, IsRunning
    <3>4. Accounting'
      BY <1>0 DEF Accounting, IsRunning
    <3>5. \A a \in Cells(running) : flash'[a] = flash[a]
      BY DEF Dangerous, Erased, Cells
    <3>6. Verified(running)'
      BY <1>0, <3>5, VerifiedFrame DEF RunningIntact
    <3> QED BY <3>2, <3>3, <3>4, <3>6 DEF RunningIntact
  <2> QED BY <1>2, <2>1, <2>2, <2>3 DEF EraseSector
<1>3. CASE WriteFlash
  <2>0. EraseArea \cap Cells(running) = {}
        /\ ProgramArea(bufferLen) \cap Cells(running) = {}
    BY <1>0, AreasInTarget, TargetBounds, PartitionsDisjoint
  <2>1. ASSUME NEW n \in 0 .. bufferLen
        PROVE  /\ Written(n) \in [Addrs -> Cell]
               /\ \A a \in Cells(running) : Written(n)[a] = flash[a]
    <3>1. n \in Nat /\ n <= bufferLen /\ bufferLen \in Nat /\ Target \in Nat
      BY <1>0, TargetBounds
    <3>2. ProgramArea(n) \subseteq ProgramArea(bufferLen)
      BY <3>1, PartSizeType DEF ProgramArea, Addrs, FlashSize
    <3>3. Written(n) \in [Addrs -> Cell]
      BY <1>0, <3>1, WrittenType
    <3>4. \A a \in Cells(running) : a \notin ProgramArea(n) /\ a \in Addrs
      BY <2>0, <3>2 DEF Cells
    <3> QED BY <3>3, <3>4 DEF Written
  <2>2. CASE Panic(ProgramArea(bufferLen))
    BY <2>2, RestartInv DEF Panic
  <2>3. CASE (\E n \in 0 .. bufferLen : flash' = Written(n))
             /\ FlushFailed("WRITE")
    BY <1>0, <2>1, <2>3, FlushFailedInv DEF Errors
  <2>4. CASE /\ flash' = Written(bufferLen) /\ digested' = digested + bufferLen
             /\ progress' = progress + bufferLen /\ bufferLen' = 0
             /\ flush' = "no"
             /\ UNCHANGED <<boot, running, error, buffer, size, command,
                            partition, source, pc, left, ret>>
    <3> USE <2>4 DEF Inv, source
    <3>0. bufferLen \in 0 .. bufferLen
      BY DEF TypeOK
    <3>1. /\ flash' \in [Addrs -> Cell]
          /\ \A a \in Cells(running) : flash'[a] = flash[a]
      BY <2>1, <3>0
    <3>2. TypeOK'
      BY <3>1 DEF TypeOK
    <3>3. TargetChosen'
      BY DEF TargetChosen, IsRunning
    <3>4. Accounting'
      BY <1>0, SizesAssumption DEF Accounting, IsRunning, TypeOK
    <3>5. Verified(running)'
      BY <1>0, <3>1, VerifiedFrame DEF RunningIntact
    <3> QED BY <3>2, <3>3, <3>4, <3>5 DEF RunningIntact
  <2> QED BY <1>3, <2>2, <2>3, <2>4 DEF WriteFlash
<1> QED BY <1>1, <1>2, <1>3 DEF WriteBuffer

-----------------------------------------------------------------------------
(* end().                                                                     *)

(* end(): the magic byte and the boot selection are written last.             *)
LEMMA EndInv ==
  ASSUME Inv,
         \/ EndPremature \/ EndFinished \/ EndAnyway \/ EndTakesProgress
         \/ VerifyDigest \/ Enable \/ Activate
  PROVE  Inv'
<1>0. /\ Apps \subseteq Parts /\ running \in Apps
      /\ ret \in {"none", "ok", "fail"}
      /\ {"ABORT", "MD5", "READ", "ACTIVATE"} \subseteq Errors
      /\ pc # "write" => left = 0
      /\ pc \in {"idle", "verify", "enable", "activate"} => flush = "no"
  BY DEF Inv, TypeOK, Accounting, Parts, Errors
<1>1. CASE EndPremature
  BY <1>0, <1>1, ReturnAbortInv DEF EndPremature
<1>2. CASE EndFinished
  BY <1>0, <1>2, MoveInv DEF EndFinished, Ready
<1>3. CASE EndAnyway
  <2> USE <1>3 DEF EndAnyway, Ready, Fill, Inv, nonvolatile, source
  <2>1. TypeOK'
    BY DEF TypeOK
  <2>2. TargetChosen'
    BY DEF TargetChosen, IsRunning
  <2>3. Accounting'
    BY DEF Accounting, IsRunning, TypeOK
  <2> QED BY <2>1, <2>2, <2>3, SameFlash
<1>4. CASE EndTakesProgress
  <2> USE <1>4 DEF EndTakesProgress, Inv, nonvolatile, source
  <2>1. TypeOK'
    BY DEF TypeOK
  <2>2. TargetChosen'
    BY DEF TargetChosen, IsRunning
  <2>3. bufferLen = 0 /\ left = 0 /\ progress \in Nat /\ progress <= PartSize
    BY <1>0, PartSizeType DEF Accounting, TypeOK
  <2>4. Accounting'
    BY <2>3 DEF Accounting, IsRunning
  <2> QED BY <2>1, <2>2, <2>4, SameFlash
<1>5. CASE VerifyDigest
  BY <1>0, <1>5, MoveInv, ReturnAbortInv, ReturnResetInv DEF VerifyDigest
<1>6. CASE Enable
  <2> USE <1>6 DEF Enable, Inv, source
  <2>1. partition \in Parts \ {running} /\ Base(partition) \in Cells(partition)
    <3>1. partition \in Parts \ {running}
      BY DEF TargetChosen
    <3>2. Base(partition) \in Nat
      BY <3>1, PartSizeType DEF Base, Parts, Apps, Spiffs
    <3> QED BY <3>1, <3>2, PartSizeType, CellOfPartition
  <2>2. Base(partition) \notin Cells(running)
    BY <1>0, <2>1, PartitionsDisjoint
  <2>3. \A a \in Cells(running) : flash'[a] = flash[a]
    BY <2>2 DEF TypeOK, Cells
  <2>4. flash' \in [Addrs -> Cell]
    BY ProgrammedType DEF TypeOK, Cell
  <2>5. Verified(running)'
    BY <1>0, <2>3, VerifiedFrame DEF RunningIntact
  <2>6. TypeOK'
    BY <1>0, <2>4 DEF TypeOK, Abort, Reset, Return, update
  <2>7. TargetChosen'
    BY DEF TargetChosen, IsRunning, Abort, Reset, Return, update
  <2>8. Accounting'
    BY <1>0, SizesAssumption
       DEF Accounting, IsRunning, Abort, Reset, Return, update
  <2> QED BY <2>5, <2>6, <2>7, <2>8 DEF RunningIntact
<1>7. CASE Activate
  <2>1. CASE ReturnAbort("ACTIVATE")
    BY <1>0, <2>1, ReturnAbortInv
  <2>2. CASE /\ partition \in Apps /\ boot' = partition
             /\ Reset /\ Return("ok")
             /\ UNCHANGED <<flash, running, error, partition, source, digested>>
    <3> USE <2>2 DEF Reset, Return, Inv, source
    <3>1. TypeOK'
      BY DEF TypeOK
    <3>2. TargetChosen' /\ Accounting'
      BY SizesAssumption DEF TargetChosen, Accounting, IsRunning
    <3> QED BY <3>1, <3>2, SameFlash
  <2> QED BY <1>7, <2>1, <2>2 DEF Activate
<1> QED BY <1>1, <1>2, <1>3, <1>4, <1>5, <1>6, <1>7

-----------------------------------------------------------------------------
(* The factory state satisfies the invariant.                                 *)
LEMMA InitInv == ASSUME Init PROVE Inv
<1> USE DEF Init
<1>1. PICK i \in Fitting, j \in {{}} \cup {{k} : k \in Fitting} :
        flash = Preloaded([p \in Apps |-> IF p = running THEN {i} ELSE j])
  OBVIOUS
<1> DEFINE content == [p \in Apps |-> IF p = running THEN {i} ELSE j]
<1>2. /\ i \in Genuine /\ i \in Images /\ i \in WithMagic
      /\ ImgLen[i] \in Nat /\ ImgLen[i] <= PartSize
  BY ImagesAssumption DEF Fitting
<1>3. flash \in [Addrs -> Cell]
  <2>1. ASSUME NEW p \in Apps, content[p] # {}
        PROVE  (CHOOSE k \in content[p] : TRUE) \in Images
    BY <1>2, <2>1, ImagesAssumption DEF Fitting
  <2>2. ASSUME NEW a \in Addrs PROVE Preloaded(content)[a] \in Cell
    <3>1. a \in Int /\ a - 0 * PartSize \in Int /\ a - 1 * PartSize \in Int
      BY PartSizeType DEF Addrs, FlashSize
    <3> QED BY <2>1, <3>1, ByteType DEF Preloaded, Cell, Apps
  <2> QED BY <1>1, <2>2 DEF Preloaded
<1>4. TypeOK
  BY <1>3 DEF TypeOK, Errors
<1>5. TargetChosen /\ Accounting
  BY SizesAssumption DEF TargetChosen, Accounting, IsRunning
<1>6. RunningIntact
  <2>1. content[running] = {i} /\ (CHOOSE k \in content[running] : TRUE) = i
    OBVIOUS
  <2>2. ASSUME NEW o \in 0 .. ImgLen[i] - 1
        PROVE  flash[Base(running) + o] = Byte(i, o)
    <3>1. o \in Nat /\ o < ImgLen[i] /\ o < PartSize
      BY <1>2, PartSizeType
    <3>2. Base(running) + o \in Addrs /\ running \in Parts
      BY <3>1, CellOfPartition DEF Parts
    <3>3. CASE running = 0
      <4>1. /\ Base(running) + o < PartSize
            /\ ~(Base(running) + o >= 2 * PartSize)
            /\ (Base(running) + o) - 0 * PartSize = o
        BY <3>1, <3>3, PartSizeType DEF Base
      <4> QED BY <1>1, <2>1, <3>1, <3>2, <3>3, <4>1 DEF Preloaded
    <3>4. CASE running = 1
      <4>1. /\ ~(Base(running) + o < PartSize)
            /\ ~(Base(running) + o >= 2 * PartSize)
            /\ (Base(running) + o) - 1 * PartSize = o
        BY <3>1, <3>4, PartSizeType DEF Base
      <4> QED BY <1>1, <2>1, <3>1, <3>2, <3>4, <4>1 DEF Preloaded
    <3> QED BY <3>3, <3>4 DEF Apps
  <2> QED BY <1>2, <2>2 DEF RunningIntact, Verified, Holds
<1> QED BY <1>4, <1>5, <1>6 DEF Inv

(* Every step of the updater with an honest client, and every reset, keeps it *)
LEMMA NextInv == ASSUME HonestClient, Inv, [Next]_vars PROVE Inv'
<1>1. CASE Calls
  BY <1>1, BeginInv, OtherCallsInv, DataCallsInv, EndInv DEF Calls
<1>2. CASE Steps
  BY <1>2, WriteBufferInv, CopyInv, EndInv DEF Steps, OwnSteps
<1>3. CASE PowerLoss
  BY <1>3, RestartInv DEF PowerLoss
<1>4. CASE UNCHANGED vars
  <2> USE <1>4 DEF vars, Inv
  <2>1. TypeOK'
    BY DEF TypeOK
  <2>2. TargetChosen' /\ Accounting'
    BY DEF TargetChosen, Accounting, IsRunning
  <2> QED BY <2>1, <2>2, SameFlash
<1> QED BY <1>1, <1>2, <1>3, <1>4 DEF Next

(* Typing, the accounting of bytes and the integrity of the running partition *)
(* are invariants of the updater when clients keep to the declared size.      *)
THEOREM UpdaterInvariant == HonestClient => (Spec => []Inv)
<1> SUFFICES ASSUME HonestClient PROVE Spec => []Inv
  OBVIOUS
<1>1. Init => Inv
  BY InitInv
<1>2. Inv /\ [Next]_vars => Inv'
  BY NextInv
<1> QED BY <1>1, <1>2, PTL DEF Spec

(* An honest client's update, interrupted or failing anywhere, touches no     *)
(* flash outside the partition begin() chose, which is never the running one. *)
THEOREM UpdateTouchesTargetOnly == HonestClient => (Spec => []TouchesTargetOnly)
<1> SUFFICES ASSUME HonestClient PROVE Spec => []TouchesTargetOnly
  OBVIOUS
<1>1. Inv => TouchesTargetOnly
  BY TargetBounds, AreasInTarget DEF TouchesTargetOnly
<1> QED BY <1>1, UpdaterInvariant, PTL

(* Every variable of UpdateClass keeps its type for an honest client.         *)
THEOREM UpdaterTypeCorrect == HonestClient => (Spec => []TypeOK)
<1> SUFFICES ASSUME HonestClient PROVE Spec => []TypeOK
  OBVIOUS
<1>1. Inv => TypeOK
  BY DEF Inv
<1> QED BY <1>1, UpdaterInvariant, PTL

-----------------------------------------------------------------------------
(* Any client: one that hands over more than it declared, in chunks of any    *)
(* length, and ends when it likes.  The counters may wrap then.               *)

(* end() works on an update that it may have taken the size from.             *)
Closing == {"verify", "enable", "activate"}

Counters == /\ size \in Int /\ progress \in Int
            /\ bufferLen \in Int /\ left \in Int

Mapped == flash = [a \in Addrs |-> flash[a]]

Addressed == /\ Mapped
             /\ running \in Apps /\ boot \in Apps

Busy == /\ flush # "no" => pc # "idle"
        /\ pc \notin Closing => (buffer <=> IsRunning)

AnyInv == Counters /\ Addressed /\ TargetChosen /\ RunningIntact /\ Busy

(* A step that only counts and moves the program counter.                     *)
LEMMA AnyKept ==
  ASSUME AnyInv, UNCHANGED <<flash, boot, running, partition, buffer, size>>,
         Counters',
         pc' # "idle" => IsRunning \/ pc # "idle",
         flush' # "no" => pc' # "idle",
         pc \in Closing => pc' \in Closing
  PROVE  AnyInv'
<1> USE DEF AnyInv
<1>1. IsRunning' <=> IsRunning
  BY DEF IsRunning
<1>2. Addressed'
  BY DEF Addressed, Mapped
<1>3. TargetChosen'
  BY <1>1 DEF TargetChosen
<1>4. Busy'
  <2>1. buffer' = buffer
    OBVIOUS
  <2> QED BY <1>1, <2>1 DEF Busy
<1> QED BY <1>2, <1>3, <1>4, SameFlash

(* An update ends, with no flash but the one outside the running partition    *)
(* changed.                                                                   *)
LEMMA AnyEnded ==
  ASSUME AnyInv, Reset, left' \in Int, flush' = "no", boot' \in Apps, UNCHANGED running,
         Mapped',
         \A a \in Cells(running) : flash'[a] = flash[a],
         \/ pc' = "idle"
         \/ pc # "idle" /\ UNCHANGED partition
  PROVE  AnyInv'
<1> USE DEF AnyInv, Reset
<1>1. ~IsRunning'
  BY DEF IsRunning
<1>2. Counters' /\ Addressed'
  BY DEF Counters, Addressed
<1>3. TargetChosen'
  BY <1>1 DEF TargetChosen
<1>4. Verified(running)'
  BY VerifiedFrame DEF RunningIntact, Addressed
<1>5. Busy'
  BY <1>1 DEF Busy
<1> QED BY <1>2, <1>3, <1>4, <1>5 DEF RunningIntact

(* With any client: a call that only answers.                                 *)
LEMMA AnyAnswer ==
  ASSUME AnyInv, NEW answer, Answer(answer), pc \notin Closing
  PROVE  AnyInv'
BY AnyKept DEF Answer, Return, nonvolatile, update, AnyInv, Counters

(* With any client: a call that gives the update up.                          *)
LEMMA AnyAbort ==
  ASSUME AnyInv, NEW err, ReturnAbort(err) \/ ReturnReset(err)
  PROVE  AnyInv'
<1>1. UNCHANGED <<flash, boot, running>>
  BY DEF ReturnAbort, ReturnReset, nonvolatile
<1>2. Mapped' /\ boot' \in Apps
  BY <1>1 DEF AnyInv, Addressed, Mapped
<1>3. Reset /\ left' = 0 /\ flush' = "no" /\ pc' = "idle"
  BY DEF ReturnAbort, ReturnReset, Abort, Return
<1> QED BY <1>1, <1>2, <1>3, AnyEnded

(* With any client: a restart.                                                *)
LEMMA AnyRestart ==
  ASSUME AnyInv, Restart, UNCHANGED flash
  PROVE  AnyInv'
<1> USE DEF AnyInv, Restart, Reset
<1>1. running' \in Apps /\ Verified(running')
  BY DEF Addressed, Apps, RunningIntact
<1>2. ~IsRunning'
  BY DEF IsRunning
<1>3. Counters' /\ Addressed' /\ TargetChosen' /\ Busy'
  BY <1>1, <1>2 DEF Counters, Addressed, Mapped, TargetChosen, Busy
<1>4. RunningIntact'
  BY <1>1 DEF RunningIntact, Verified, Holds
<1> QED BY <1>3, <1>4

(* With any client: bytes copied into the buffer, more of them than the       *)
(* update takes perhaps.                                                      *)
LEMMA AnyFill ==
  ASSUME AnyInv, NEW n \in Int, NEW need, Fill(n, need),
         left' \in Int, pc \notin Closing, pc' # "idle",
         IsRunning \/ pc # "idle"
  PROVE  AnyInv'
BY AnyKept DEF Fill, nonvolatile, AnyInv, Counters

(* With any client: begin() refuses a size or a command.                      *)
LEMMA AnyBeginRejected ==
  ASSUME AnyInv, NEW sz \in Nat, NEW c \in Commands, BeginRejected(sz, c)
  PROVE  AnyInv'
<1>1. UNCHANGED <<flash, boot, running>>
  BY DEF BeginRejected, nonvolatile
<1>2. Mapped' /\ boot' \in Apps
  BY <1>1 DEF AnyInv, Addressed, Mapped
<1>3. Reset /\ left' = 0 /\ flush' = "no" /\ pc' = "idle"
  BY DEF BeginRejected, Abort, Return
<1> QED BY <1>1, <1>2, <1>3, AnyEnded

(* With any client: begin() starts an update of a partition that does not     *)
(* run.                                                                       *)
LEMMA AnyBeginAccepted ==
  ASSUME AnyInv, NEW i \in Images, NEW sz \in Nat, NEW c \in Commands,
         BeginAccepted(i, sz, c)
  PROVE  AnyInv'
<1> USE DEF AnyInv, BeginAccepted, Return, nonvolatile
<1>1. sz # 0 /\ PartitionFor(c) # NoPart
  BY DEF BeginError
<1>2. partition' \in Parts \ {running} /\ running' = running
  BY <1>1 DEF Addressed, PartitionFor, NextUpdatePartition, Parts, Apps, Spiffs
<1>3. TargetChosen' /\ Addressed'
  BY <1>2 DEF TargetChosen, Addressed, Mapped
<1>4. size' \in Int /\ (buffer' = TRUE => size' > 0)
  BY <1>1, PartSizeType
<1>5. buffer' = FALSE => size' = 0
  OBVIOUS
<1>6. buffer' = TRUE \/ buffer' = FALSE
  OBVIOUS
<1>7. Counters' /\ pc' = "idle" /\ flush' = "no"
  BY <1>4 DEF Counters
<1>8. Busy'
  <2>1. CASE buffer' = TRUE
    BY <1>4, <1>7, <2>1 DEF Busy, IsRunning, Closing
  <2>2. CASE buffer' = FALSE
    BY <1>5, <1>7, <2>2 DEF Busy, IsRunning, Closing
  <2> QED BY <1>6, <2>1, <2>2
<1> QED BY <1>3, <1>7, <1>8, SameFlash

(* With any client: every outcome of begin().                                 *)
LEMMA AnyBegins == ASSUME AnyInv, Begin PROVE AnyInv'
<1>1. CASE BeginBusy
  BY <1>1, AnyAnswer DEF BeginBusy, Closing
<1>2. ASSUME NEW i \in Images, NEW c \in Commands,
             NEW sz \in {0, ImgLen[i], Unknown},
             BeginRejected(sz, c) \/ BeginAccepted(i, sz, c)
      PROVE  AnyInv'
  BY <1>2, DeclaredSizes, AnyBeginRejected, AnyBeginAccepted
<1> QED BY <1>1, <1>2 DEF Begin

(* With any client: every call, with whatever arguments.                      *)
LEMMA AnyCalls == ASSUME AnyInv, Calls PROVE AnyInv'
<1> USE DEF AnyInv, Counters, nonvolatile, update
<1>1. CASE Begin
  BY <1>1, AnyBegins
<1>2. CASE SetMD5
  <2>1. CASE Answer("fail")
    BY <1>2, <2>1, AnyAnswer DEF SetMD5, Closing
  <2> QED BY <1>2, <2>1, AnyKept DEF SetMD5, Return, Closing
<1>3. CASE ClearError
  BY <1>3, AnyKept DEF ClearError, control, Closing, Busy
<1>4. CASE AbortCall \/ WriteTooLong \/ EndPremature
  BY <1>4, AnyAbort DEF AbortCall, WriteTooLong, EndPremature
<1>5. CASE NotReady
  BY <1>5, AnyAnswer DEF NotReady, Closing
<1>6. CASE Write
  <2>1. left' \in Int /\ pc' = "write" /\ pc = "idle" /\ IsRunning
    BY <1>6, SizesAssumption DEF Write, Ready
  <2> QED BY <1>6, <2>1, AnyKept DEF Write, Closing
<1>7. CASE WriteAvailable \/ EndFinished
  BY <1>7, AnyKept DEF WriteAvailable, EndFinished, Ready, Closing
<1>8. CASE WriteStream
  <2>1. CASE ReturnAbort("MAGIC_BYTE")
    BY <2>1, AnyAbort
  <2> QED BY <1>8, <2>1, AnyKept DEF WriteStream, Ready, Closing
<1>9. CASE EndAnyway
  <2>1. pc' = "end" /\ pc = "idle" /\ IsRunning /\ left' = left
    BY <1>9 DEF EndAnyway, Ready
  <2> QED BY <1>9, <2>1, AnyKept DEF EndAnyway, Fill, Closing
<1>10. CASE RollBack
  <2>1. CASE Answer("fail")
    BY <1>10, <2>1, AnyAnswer DEF RollBack, Closing
  <2>2. CASE ~Answer("fail")
    <3> USE <1>10, <2>2 DEF RollBack, Return
    <3>1. Addressed'
      BY DEF Addressed, Mapped, NextUpdatePartition, Apps
    <3>2. IsRunning' <=> IsRunning
      BY DEF IsRunning
    <3>3. TargetChosen' /\ Counters'
      BY <3>2 DEF TargetChosen
    <3>4. Busy'
      <4>1. buffer' = buffer /\ flush' = "no" /\ pc = "idle"
        OBVIOUS
      <4> QED BY <3>2, <4>1 DEF Busy, Closing
    <3> QED BY <3>1, <3>3, <3>4, SameFlash
  <2> QED BY <2>1, <2>2
<1> QED BY <1>1, <1>2, <1>3, <1>4, <1>5, <1>6, <1>7, <1>8, <1>9, <1>10
        DEF Calls

(* The flash driver answers a write to the running partition by a panic.      *)
LEMMA AnyWriteBuffer == ASSUME AnyInv, WriteBuffer PROVE AnyInv'
<1> USE DEF AnyInv, nonvolatile, update
<1>0. /\ flush # "no" /\ pc # "idle" /\ partition \in Parts \ {running}
      /\ bufferLen \in Int /\ Target \in Int
  <2>1. flush # "no"
    BY DEF WriteBuffer, CheckMagic, EraseSector, WriteFlash, Flushing
  <2>2. pc # "idle"
    BY <2>1 DEF Busy
  <2>3. partition \in Parts \ {running}
    BY <2>2 DEF TargetChosen
  <2>4. Base(partition) \in Int
    BY <2>3, PartSizeType DEF Base, Parts, Apps, Spiffs
  <2> QED BY <2>1, <2>2, <2>3, <2>4 DEF Target, Counters
<1>1. ASSUME NEW err, FlushFailed(err), Mapped',
             \A a \in Cells(running) : flash'[a] = flash[a]
      PROVE  AnyInv'
  <2>1. /\ Reset /\ left' = 0 /\ flush' = "no"
        /\ UNCHANGED <<boot, running, partition>>
    BY <1>1 DEF FlushFailed, Abort
  <2>2. boot' \in Apps
    BY <2>1 DEF Addressed
  <2> QED BY <1>0, <1>1, <2>1, <2>2, AnyEnded
<1>2. ASSUME UNCHANGED flash PROVE Mapped'
  BY <1>2 DEF Addressed, Mapped
<1>3. CASE CheckMagic
  <2>1. CASE FlushFailed("MAGIC_BYTE") /\ UNCHANGED flash
    BY <1>1, <1>2, <2>1
  <2>2. CASE ~(FlushFailed("MAGIC_BYTE") /\ UNCHANGED flash)
    <3>1. Counters'
      BY <1>3, <2>2 DEF CheckMagic, Counters
    <3> QED BY <1>0, <1>3, <2>2, <3>1, AnyKept DEF CheckMagic
  <2> QED BY <2>1, <2>2
<1>4. ASSUME Mapped', \A a \in Cells(running) : flash'[a] = flash[a],
             Counters', flush' \in {"program", "no"},
             UNCHANGED <<boot, running, partition, buffer, size, pc>>
      PROVE  AnyInv'
  <2> USE <1>4
  <2>1. IsRunning' <=> IsRunning
    BY DEF IsRunning
  <2>2. Addressed' /\ TargetChosen'
    BY <2>1 DEF Addressed, TargetChosen
  <2>3. Busy'
    <3>1. buffer' = buffer /\ pc' = pc
      OBVIOUS
    <3> QED BY <1>0, <2>1, <3>1 DEF Busy
  <2>4. Verified(running)'
    BY VerifiedFrame DEF RunningIntact, Addressed
  <2> QED BY <2>2, <2>3, <2>4 DEF RunningIntact
<1>5. CASE EraseSector
  <2>1. CASE Panic(EraseArea)
    BY <2>1, AnyRestart DEF Panic
  <2>2. CASE /\ ~Dangerous(EraseArea)
             /\ \E torn \in Tears : flash' = HalfErased(torn)
             /\ FlushFailed("ERASE")
    <3>1. PICK torn \in Tears : flash' = HalfErased(torn)
      BY <2>2
    <3>2. Mapped'
      BY <3>1 DEF Mapped, HalfErased
    <3>3. \A a \in Cells(running) : flash'[a] = flash[a]
      BY <2>2, <3>1 DEF Dangerous, HalfErased, Cells
    <3> QED BY <1>1, <2>2, <3>2, <3>3
  <2>3. CASE /\ ~Dangerous(EraseArea) /\ flash' = Erased /\ flush' = "program"
             /\ UNCHANGED <<boot, running, error, update, partition, source,
                            digested, pc, left, ret>>
    <3>1. Mapped' /\ Counters'
      BY <2>3 DEF Mapped, Erased, Counters
    <3>2. \A a \in Cells(running) : flash'[a] = flash[a]
      BY <2>3 DEF Dangerous, Erased, Cells
    <3> QED BY <1>4, <2>3, <3>1, <3>2
  <2> QED BY <1>5, <2>1, <2>2, <2>3 DEF EraseSector
<1>6. CASE WriteFlash
  <2>1. CASE Panic(ProgramArea(bufferLen))
    BY <2>1, AnyRestart DEF Panic
  <2>2. ASSUME ~Dangerous(ProgramArea(bufferLen)), NEW n \in Int,
               n <= bufferLen, flash' = Written(n)
        PROVE  Mapped' /\ \A a \in Cells(running) : flash'[a] = flash[a]
    <3>1. ProgramArea(n) \subseteq ProgramArea(bufferLen)
      BY <1>0, <2>2, PartSizeType DEF ProgramArea, Addrs, FlashSize
    <3>2. \A a \in Cells(running) : a \in Addrs /\ a \notin ProgramArea(n)
      BY <2>2, <3>1 DEF Dangerous, Cells
    <3> QED BY <2>2, <3>2 DEF Mapped, Written
  <2>3. CASE /\ ~Dangerous(ProgramArea(bufferLen))
             /\ \E n \in 0 .. bufferLen : flash' = Written(n)
             /\ FlushFailed("WRITE")
    <3>1. PICK n \in 0 .. bufferLen : flash' = Written(n)
      BY <2>3
    <3>2. n \in Int /\ n <= bufferLen
      BY <1>0
    <3> QED BY <1>1, <2>2, <2>3, <3>1, <3>2
  <2>4. CASE /\ ~Dangerous(ProgramArea(bufferLen))
             /\ flash' = Written(bufferLen)
             /\ progress' = progress + bufferLen /\ bufferLen' = 0
             /\ flush' = "no"
             /\ UNCHANGED <<boot, running, error, buffer, size, command,
                            partition, source, pc, left, ret>>
    <3>1. Counters'
      BY <2>4 DEF Counters
    <3>2. Mapped' /\ \A a \in Cells(running) : flash'[a] = flash[a]
      BY <1>0, <2>2, <2>4
    <3> QED BY <1>4, <2>4, <3>1, <3>2
  <2> QED BY <1>6, <2>1, <2>3, <2>4 DEF WriteFlash
<1> QED BY <1>3, <1>5, <1>6 DEF WriteBuffer

(* remaining() is a number, though it may have wrapped around.                *)
LEMMA AnyRemaining == ASSUME Counters PROVE Remaining \in Int
BY SizesAssumption DEF Counters, Remaining, Minus

(* With any client: the loops of write() and writeStream().                   *)
LEMMA AnyCopies ==
  ASSUME AnyInv,
         \/ CopyToSectorEnd \/ CopyTail \/ WriteReturns
         \/ ReadAvailable \/ AvailableAgain
         \/ StreamDone \/ StreamRead \/ StreamTimeout
  PROVE  AnyInv'
<1>0. pc # "idle" /\ pc \notin Closing
  BY DEF CopyToSectorEnd, CopyTail, WriteReturns, ReadAvailable, Closing,
         AvailableAgain, StreamDone, StreamRead, StreamTimeout
<1>1. /\ bufferLen \in Int /\ left \in Int /\ progress \in Int /\ size \in Int
      /\ SecSize \in Int /\ Remaining \in Int /\ Deliverable \in Int
  BY SizesAssumption, AnyRemaining DEF AnyInv, Counters, Deliverable
<1>2. CASE CopyToSectorEnd
  <2>1. left' \in Int
    BY <1>1, <1>2 DEF CopyToSectorEnd
  <2> QED BY <1>0, <1>1, <1>2, <2>1, AnyFill DEF CopyToSectorEnd
<1>3. CASE CopyTail
  <2>1. bufferLen + left \in Int /\ left' \in Int
    BY <1>1, <1>3 DEF CopyTail
  <2> QED BY <1>0, <1>3, <2>1, AnyFill DEF CopyTail
<1>4. CASE WriteReturns \/ StreamDone
  BY <1>0, <1>4, AnyAnswer DEF WriteReturns, StreamDone
<1>5. CASE StreamTimeout
  BY <1>5, AnyAbort DEF StreamTimeout
<1>6. CASE AvailableAgain
  <2>1. CASE Answer("ok")
    BY <1>0, <2>1, AnyAnswer
  <2> QED BY <1>0, <1>6, <2>1, AnyKept
             DEF AvailableAgain, nonvolatile, update, AnyInv, Counters
<1>7. CASE ReadAvailable
  <2>1. PICK k \in 0 .. Deliverable :
          \/ Answer("ok")
          \/ /\ \/ Fill(SecSize, TRUE)
                \/ Fill(bufferLen + Capped(k), bufferLen + Capped(k) = Remaining)
             /\ pc' = "available2"
             /\ UNCHANGED <<left, ret>>
    BY <1>7 DEF ReadAvailable
  <2>2. bufferLen + Capped(k) \in Int
    BY <1>1, SizesAssumption DEF Capped, Minus
  <2>3. CASE Answer("ok")
    BY <1>0, <2>3, AnyAnswer
  <2>4. CASE Fill(SecSize, TRUE) /\ pc' = "available2" /\ left' = left
    BY <1>0, <1>1, <2>4, AnyFill
  <2>5. CASE /\ Fill(bufferLen + Capped(k), bufferLen + Capped(k) = Remaining)
             /\ pc' = "available2" /\ left' = left
    BY <1>0, <1>1, <2>2, <2>5, AnyFill
  <2> QED BY <2>1, <2>3, <2>4, <2>5
<1>8. CASE StreamRead
  <2>1. PICK n \in 1 .. BytesToRead :
          Fill(bufferLen + n, bufferLen + n \in {Remaining, SecSize})
    BY <1>8 DEF StreamRead
  <2>2. bufferLen + n \in Int /\ left' = left /\ pc' = pc
    BY <1>1, <1>8, <2>1 DEF StreamRead
  <2> QED BY <1>0, <1>1, <2>1, <2>2, AnyFill
<1> QED BY <1>2, <1>3, <1>4, <1>5, <1>6, <1>7, <1>8

(* With any client: end() selects a partition that can be booted.             *)
LEMMA AnyEnds ==
  ASSUME AnyInv, EndTakesProgress \/ VerifyDigest \/ Enable \/ Activate
  PROVE  AnyInv'
<1> USE DEF AnyInv, nonvolatile, update
<1>1. CASE EndTakesProgress
  <2> USE <1>1 DEF EndTakesProgress
  <2>1. Counters' /\ Addressed' /\ TargetChosen'
    BY DEF Counters, Addressed, Mapped, TargetChosen
  <2>2. Busy'
    BY DEF Busy, Closing
  <2> QED BY <2>1, <2>2, SameFlash
<1>2. CASE VerifyDigest
  <2>1. CASE ReturnAbort("MD5") \/ ReturnReset("ok")
    BY <2>1, AnyAbort
  <2>2. CASE ~(ReturnAbort("MD5") \/ ReturnReset("ok"))
    <3>1. Counters'
      BY <1>2, <2>2 DEF VerifyDigest, Counters
    <3> QED BY <1>2, <2>2, <3>1, AnyKept DEF VerifyDigest, Closing
  <2> QED BY <2>1, <2>2
<1>3. CASE Enable
  <2>1. partition \in Parts \ {running} /\ running \in Parts
    BY <1>3 DEF Enable, TargetChosen, Addressed, Parts
  <2>2. Base(partition) \notin Cells(running)
    <3>1. Base(partition) + 0 \in Cells(partition)
      BY <2>1, CellOfPartition, PartSizeType
    <3>2. Base(partition) + 0 = Base(partition)
      BY <2>1, PartSizeType DEF Base, Parts, Apps, Spiffs
    <3> QED BY <2>1, <3>1, <3>2, PartitionsDisjoint
  <2>3. Mapped' /\ \A a \in Cells(running) : flash'[a] = flash[a]
    BY <1>3, <2>2 DEF Enable, Addressed, Mapped, Cells
  <2>4. UNCHANGED <<boot, running, partition>> /\ boot' \in Apps
    BY <1>3 DEF Enable, Addressed
  <2>5. CASE Abort("READ") /\ Return("fail")
    BY <2>3, <2>4, <2>5, AnyEnded DEF Abort, Return
  <2>6. CASE pc' = "activate" /\ UNCHANGED <<error, update, flush, left, ret>>
    <3> USE <2>4, <2>6
    <3>1. Counters' /\ Addressed' /\ TargetChosen' /\ Busy'
      BY <1>3, <2>3 DEF Counters, Addressed, TargetChosen, Busy, Closing, Enable
    <3>2. Verified(running)'
      BY <2>3, VerifiedFrame DEF RunningIntact, Addressed
    <3> QED BY <3>1, <3>2 DEF RunningIntact
  <2> QED BY <1>3, <2>5, <2>6 DEF Enable
<1>4. CASE Activate
  <2>1. CASE ReturnAbort("ACTIVATE")
    BY <2>1, AnyAbort
  <2>2. CASE ~ReturnAbort("ACTIVATE")
    <3>1. /\ Reset /\ Return("ok") /\ boot' \in Apps
          /\ UNCHANGED <<flash, running>>
      BY <1>4, <2>2 DEF Activate
    <3>2. Mapped'
      BY <3>1 DEF Addressed, Mapped
    <3> QED BY <3>1, <3>2, AnyEnded DEF Return
  <2> QED BY <2>1, <2>2
<1> QED BY <1>1, <1>2, <1>3, <1>4

(* The steps of a call and a reset.                                           *)
LEMMA AnySteps ==
  ASSUME AnyInv, Steps \/ PowerLoss \/ UNCHANGED vars
  PROVE  AnyInv'
<1>1. CASE Steps
  BY <1>1, AnyWriteBuffer, AnyCopies, AnyEnds DEF Steps, OwnSteps
<1>2. CASE PowerLoss
  BY <1>2, AnyRestart DEF PowerLoss
<1>3. CASE UNCHANGED vars
  <2>1. Counters'
    BY <1>3 DEF vars, AnyInv, Counters
  <2> QED BY <1>3, <2>1, AnyKept DEF vars, AnyInv, Busy
<1> QED BY <1>1, <1>2, <1>3

(* The factory state has it.                                                  *)
LEMMA AnyInit == ASSUME Init PROVE AnyInv
<1>1. TypeOK /\ TargetChosen /\ RunningIntact
  BY InitInv DEF Inv
<1>2. Counters /\ Addressed
  BY <1>1 DEF TypeOK, Counters, Addressed, Mapped
<1>3. Busy
  BY DEF Init, Busy, IsRunning
<1> QED BY <1>1, <1>2, <1>3 DEF AnyInv

(* What holds for any client is an invariant.                                 *)
THEOREM AnyClientInvariant == Spec => []AnyInv
<1>1. Init => AnyInv
  BY AnyInit
<1>2. AnyInv /\ [Next]_vars => AnyInv'
  BY AnyCalls, AnySteps DEF Next
<1> QED BY <1>1, <1>2, PTL DEF Spec

(* begin(), which looks at _size, and canRollBack(), which looks at _buffer,  *)
(* agree between two calls on whether an update runs, whatever clients did.   *)
THEOREM BusyAlwaysAgrees == Spec => []BusyAgrees
<1>1. AnyInv => BusyAgrees
  BY DEF AnyInv, Busy, BusyAgrees, Closing
<1> QED BY <1>1, AnyClientInvariant, PTL

-----------------------------------------------------------------------------
(* Part 2: the images.                                                        *)
(* What the bytes of an update are, for every flash geometry, set of images,  *)
(* order of calls, failures and resets: end() selects only what was sent, and *)
(* the two application slots change as AtomicUpdate allows.  The clients keep *)
(* to the size they declared and call end(false).                             *)

(* The calls of such clients, whatever size they declare, and what follows.   *)
AnyBegin ==
    \/ BeginBusy
    \/ \E c \in Commands, sz \in Nat :
         BeginRejected(sz, c) \/ \E i \in Images : BeginAccepted(i, sz, c)

HonestCalls == \/ AnyBegin \/ SetMD5 \/ ClearError \/ AbortCall \/ NotReady
               \/ WriteTooLong \/ Write \/ WriteAvailable \/ WriteStream
               \/ EndPremature \/ EndFinished \/ RollBack

HonestNext == HonestCalls \/ Steps \/ PowerLoss

(* The calls of the updater's own specification are among them.               *)
LEMMA NextIsHonest ==
  ASSUME TRUE \notin EndModes, [Next]_vars
  PROVE  [HonestNext]_vars
<1>1. ASSUME Begin PROVE AnyBegin
  BY <1>1, DeclaredSizes DEF Begin, AnyBegin
<1>2. ~EndAnyway
  BY DEF EndAnyway
<1> QED BY <1>1, <1>2 DEF Next, Calls, HonestNext, HonestCalls

(* The bookkeeping of the updater holds for any declared size.                *)
LEMMA HonestInv ==
  ASSUME HonestClient, Inv, [HonestNext]_vars
  PROVE  Inv'
<1>1. CASE AnyBegin
  <2>1. CASE BeginBusy
    BY <2>1, AnswerInv DEF BeginBusy
  <2> QED BY <1>1, <2>1, BeginRejectedInv, BeginAcceptedInv DEF AnyBegin
<1>2. CASE HonestCalls /\ ~AnyBegin
  BY <1>2, OtherCallsInv, DataCallsInv, EndInv DEF HonestCalls
<1>3. CASE Steps
  BY <1>3, WriteBufferInv, CopyInv, EndInv DEF Steps, OwnSteps
<1>4. CASE PowerLoss
  BY <1>4, RestartInv DEF PowerLoss
<1>5. CASE UNCHANGED vars
  BY <1>5, NextInv
<1> QED BY <1>1, <1>2, <1>3, <1>4, <1>5 DEF HonestNext

(* What holds with any client holds with an honest one.                       *)
LEMMA HonestAny == ASSUME AnyInv, [HonestNext]_vars PROVE AnyInv'
<1>1. CASE AnyBegin
  <2>1. CASE BeginBusy
    BY <2>1, AnyAnswer DEF BeginBusy, Closing
  <2> QED BY <1>1, <2>1, AnyBeginRejected, AnyBeginAccepted DEF AnyBegin
<1>2. CASE HonestCalls /\ ~AnyBegin
  BY <1>2, AnyCalls DEF HonestCalls, Calls
<1> QED BY <1>1, <1>2, AnySteps DEF HonestNext

-----------------------------------------------------------------------------
(* The inductive invariant.                                                   *)

Sketch == command = "U_FLASH"

(* A sketch goes to the other application partition, a file system to SPIFFS. *)
ImageChosen ==
    IsRunning => partition = IF Sketch THEN 1 - running ELSE Spiffs

(* Whole sectors are flushed; only the last flush of an update may be short.  *)
SectorWise ==
    /\ IsRunning /\ progress < size => progress % SecSize = 0
    /\ flush # "no" => bufferLen = SecSize \/ progress + bufferLen = size

(* Nothing of a sketch is written unless it starts with the magic byte.       *)
MagicSeen ==
    Sketch /\ (progress > 0 \/ flush \in {"erase", "program"})
      => Byte(img, 0) = Magic

(* The buffer is programmed into a sector that was erased.                    *)
SectorErased == flush = "program" => \A a \in EraseArea : flash[a] = Blank

(* The first byte of the partition stays blank until _enablePartition().      *)
Withholding ==
    Sketch /\ progress > 0 /\ pc # "activate" => flash[Base(partition)] = Blank

(* The bytes that progress counts are in the flash, behind the first one.     *)
Delivered ==
    IsRunning /\ Sketch =>
      \A o \in 1 .. progress - 1 : flash[Base(partition) + o] = Byte(img, o)

(* The second byte, which tells images apart, is of no other image.           *)
SecondByte ==
    IsRunning /\ Sketch /\ progress > 0
      => flash[Base(partition) + 1] \in {Blank, img}

(* What end() has established.                                                *)
Ending ==
    /\ pc # "end"
    /\ pc \in Closing => IsRunning /\ progress = size
    /\ pc \in {"enable", "activate"} => Sketch /\ targetMd5 \in {NoDigest, img}
    /\ pc = "activate" => flash[Base(partition)] = Magic

ImageFacts == /\ ImageChosen /\ SectorWise /\ MagicSeen /\ SectorErased
              /\ Withholding /\ Delivered /\ SecondByte /\ Ending

ImageInv == Inv /\ ImageFacts

-----------------------------------------------------------------------------
(* Geometry.                                                                  *)

(* A partition holds at least one sector, and a sector two bytes.             *)
LEMMA RoomForTwo == SecSize \in Nat \ {0, 1} /\ PartSize >= SecSize
<1>1. SecSize \in Nat \ {0, 1} /\ PartSectors \in Nat \ {0}
  BY SizesAssumption
<1>2. 1 * SecSize <= PartSectors * SecSize
  BY <1>1, Monotone
<1> QED BY <1>1, <1>2 DEF PartSize

(* One sector behind a sector boundary is the next one.                       *)
LEMMA NextSector ==
  ASSUME NEW s \in Nat \ {0}, NEW a \in Nat, a % s = 0
  PROVE  (a + s) % s = 0
<1> DEFINE k == a \div s
<1>1. k \in Nat /\ a = k * s
  OBVIOUS
<1>2. a + s = (k + 1) * s
  <2> HIDE DEF k
  <2> QED BY <1>1
<1> HIDE DEF k
<1>3. ((k + 1) * s) % s = 0
  BY <1>1
<1> QED BY <1>2, <1>3

(* Partitions start at sectors, so that whole sectors go to whole sectors.    *)
LEMMA SectorOfTarget ==
  ASSUME Inv, flush # "no", progress % SecSize = 0, NEW b \in Addrs
  PROVE  b \in EraseArea <=> Target <= b /\ b < Target + SecSize
<1>1. SecSize \in Nat \ {0} /\ PartSectors \in Nat \ {0}
  BY SizesAssumption
<1>2. partition \in Nat /\ progress \in Nat /\ Target \in Nat
  BY TargetBounds DEF Inv, TypeOK
<1> DEFINE k == progress \div SecSize
           n == partition * PartSectors
           m == n + k
<1>3. k \in Nat /\ progress = k * SecSize
  BY <1>1, <1>2
<1>4. n \in Nat /\ Base(partition) = n * SecSize
  <2>1. n \in Nat
    BY <1>1, <1>2
  <2>2. partition \in {0, 1, 2}
    BY TargetBounds DEF Parts, Apps, Spiffs
  <2> QED BY <1>1, <2>1, <2>2 DEF Base, PartSize
<1>5. m \in Nat
  BY <1>3, <1>4
<1>6. Target = m * SecSize
  <2> HIDE DEF n, k
  <2> QED BY <1>1, <1>3, <1>4 DEF Target, m
<1>7. Target + SecSize = (m + 1) * SecSize
  <2> HIDE DEF m
  <2> QED BY <1>1, <1>5, <1>6
<1> HIDE DEF m
<1>8. Target \div SecSize = m
  BY <1>1, <1>5, <1>6
<1>9. b \in Nat
  BY PartSizeType DEF Addrs, FlashSize
<1> DEFINE q == b \div SecSize
<1>10. q \in Nat /\ q * SecSize <= b /\ b < (q + 1) * SecSize
  BY <1>1, <1>9, Quotient
<1> HIDE DEF q
<1>11. q = m => Target <= b /\ b < Target + SecSize
  BY <1>6, <1>7, <1>10
<1>12. ASSUME q # m PROVE ~(Target <= b /\ b < Target + SecSize)
  <2>1. CASE q + 1 <= m
    <3>1. (q + 1) * SecSize <= m * SecSize
      BY <1>1, <1>5, <1>10, <2>1, Monotone
    <3>2. (q + 1) * SecSize \in Nat
      BY <1>1, <1>10
    <3> QED BY <1>2, <1>6, <1>9, <1>10, <3>1, <3>2
  <2>2. CASE m + 1 <= q
    <3>1. (m + 1) * SecSize <= q * SecSize
      BY <1>1, <1>5, <1>10, <2>2, Monotone
    <3>2. q * SecSize \in Nat
      BY <1>1, <1>10
    <3> QED BY <1>1, <1>2, <1>7, <1>9, <1>10, <3>1, <3>2
  <2> QED BY <1>5, <1>10, <1>12, <2>1, <2>2
<1> QED BY <1>8, <1>11, <1>12 DEF EraseArea, Sector, q

-----------------------------------------------------------------------------
(* How the steps of the updater leave the image.                              *)

(* An update that ended, or has just begun, claims nothing.                   *)
LEMMA ClearedFacts ==
  ASSUME progress' = 0, flush' = "no", pc' = "idle", ImageChosen'
  PROVE  ImageFacts'
<1>1. SectorWise'
  BY RoomForTwo DEF SectorWise
<1>2. Delivered'
  BY DEF Delivered
<1> QED BY <1>1, <1>2 DEF ImageFacts, MagicSeen, SectorErased, Withholding,
                        SecondByte, Ending, Closing

(* A step that touches neither the flash nor the count of bytes, and at most  *)
(* asks for a flush of a full or of the last buffer.                          *)
LEMMA KeptFacts ==
  ASSUME ImageInv,
         UNCHANGED <<flash, running, size, progress, command, partition, img>>,
         pc \notin Closing, pc' \notin Closing \cup {"end"},
         \/ flush' = "no"
         \/ /\ flush' = "check"
            /\ bufferLen' = SecSize \/ progress + bufferLen' = size
  PROVE  ImageFacts'
<1> USE DEF ImageInv, ImageFacts, IsRunning, Sketch
<1>1. ImageChosen'
  BY DEF ImageChosen
<1>2. SectorWise'
  BY DEF SectorWise
<1>3. MagicSeen'
  BY DEF MagicSeen, Byte
<1>4. SectorErased' /\ Ending'
  BY DEF SectorErased, Ending, Closing
<1>5. Withholding'
  BY DEF Withholding, Base, Closing
<1>6. Delivered'
  BY DEF Delivered, Base, Byte
<1>7. SecondByte'
  BY DEF SecondByte, Base
<1> QED BY <1>1, <1>2, <1>3, <1>4, <1>5, <1>6, <1>7

(* A call that only answers leaves the image as it is.                        *)
LEMMA AnswerFacts ==
  ASSUME ImageInv, NEW answer, Answer(answer), pc \notin Closing
  PROVE  ImageFacts'
BY KeptFacts DEF Answer, Return, nonvolatile, update, source, Closing

(* After _abort(), _reset() or a restart no update is under way.              *)
LEMMA AbortFacts ==
  ASSUME NEW err, ReturnAbort(err) \/ ReturnReset(err) \/ Restart
  PROVE  ImageFacts'
BY ClearedFacts DEF ReturnAbort, ReturnReset, Restart, Abort, Reset, Return,
                    ImageChosen, IsRunning

(* Nor is one after a flash operation has failed in a write().                *)
LEMMA FlushFailedFacts ==
  ASSUME NEW err, FlushFailed(err), pc # "end"
  PROVE  ImageFacts'
BY ClearedFacts DEF FlushFailed, Abort, Reset, ImageChosen, IsRunning

(* Calls, up to the point where the updater starts to work.                   *)
LEMMA CallFacts ==
  ASSUME ImageInv, HonestCalls, ~EndFinished
  PROVE  ImageFacts'
<1>0. pc = "idle" => flush = "no" /\ pc \notin Closing
  BY DEF ImageInv, Inv, Accounting, TypeOK, Closing
<1>1. CASE AnyBegin
  <2>1. CASE BeginBusy
    BY <1>0, <2>1, AnswerFacts DEF BeginBusy
  <2>2. ASSUME NEW c \in Commands, NEW sz \in Nat, BeginRejected(sz, c)
        PROVE  ImageFacts'
    BY <2>2, ClearedFacts
       DEF BeginRejected, Abort, Reset, Return, ImageChosen, IsRunning
  <2>3. ASSUME NEW c \in Commands, NEW sz \in Nat, NEW i \in Images,
               BeginAccepted(i, sz, c)
        PROVE  ImageFacts'
    <3>1. progress' = 0 /\ flush' = "no" /\ pc' = "idle"
      BY <2>3 DEF BeginAccepted, Return
    <3>2. ImageChosen'
      <4>1. c \in {"U_FLASH", "U_SPIFFS"} /\ PartitionFor(c) # NoPart
        BY <2>3 DEF BeginAccepted, BeginError, Commands
      <4> QED BY <2>3, <4>1
                 DEF BeginAccepted, ImageChosen, IsRunning, Sketch,
                     PartitionFor, NextUpdatePartition, nonvolatile
    <3> QED BY <3>1, <3>2, ClearedFacts
  <2> QED BY <1>1, <2>1, <2>2, <2>3 DEF AnyBegin
<1>2. CASE SetMD5
  <2>1. CASE Answer("fail")
    BY <1>0, <1>2, <2>1, AnswerFacts DEF SetMD5
  <2> QED BY <1>0, <1>2, <2>1, KeptFacts
             DEF SetMD5, Return, nonvolatile, update, Closing
<1>3. CASE ClearError
  BY <1>0, <1>3, KeptFacts
     DEF ClearError, nonvolatile, update, source, control, Closing
<1>4. CASE AbortCall \/ WriteTooLong \/ EndPremature
  BY <1>4, AbortFacts DEF AbortCall, WriteTooLong, EndPremature
<1>5. CASE NotReady
  BY <1>0, <1>5, AnswerFacts DEF NotReady
<1>6. CASE Write \/ WriteAvailable
  BY <1>0, <1>6, KeptFacts
     DEF Write, WriteAvailable, Ready, nonvolatile, update, source, Closing
<1>7. CASE WriteStream
  <2>1. CASE ReturnAbort("MAGIC_BYTE")
    BY <2>1, AbortFacts
  <2> QED BY <1>0, <1>7, <2>1, KeptFacts
             DEF WriteStream, Ready, nonvolatile, update, source, Closing
<1>8. CASE RollBack
  <2>1. CASE Answer("fail")
    BY <1>0, <1>8, <2>1, AnswerFacts DEF RollBack
  <2> QED BY <1>0, <1>8, <2>1, KeptFacts
             DEF RollBack, Return, update, source, Closing
<1> QED BY <1>1, <1>2, <1>3, <1>4, <1>5, <1>6, <1>7, <1>8 DEF HonestCalls

(* The copying loops flush full buffers and the last one.                     *)
LEMMA CopyFacts ==
  ASSUME HonestClient, ImageInv,
         \/ CopyToSectorEnd \/ CopyTail \/ WriteReturns
         \/ ReadAvailable \/ AvailableAgain
         \/ StreamDone \/ StreamRead \/ StreamTimeout
  PROVE  ImageFacts'
<1>0. Inv
  BY DEF ImageInv
<1>1. pc \in {"write", "tail", "available", "available2", "stream"}
  BY DEF CopyToSectorEnd, CopyTail, WriteReturns, ReadAvailable,
         AvailableAgain, StreamDone, StreamRead, StreamTimeout
<1>2. IsRunning /\ pc \notin Closing
  BY <1>0, <1>1 DEF Inv, Accounting, Closing
<1>3. /\ Remaining = size - progress /\ Remaining \in Nat
      /\ size \in Nat /\ progress \in Nat /\ bufferLen \in Nat
  BY <1>0, <1>2, RemainingValue DEF Inv, TypeOK
<1>4. ASSUME NEW n \in Int, n = Remaining PROVE progress + n = size
  BY <1>3, <1>4
<1>5. CASE CopyToSectorEnd
  BY <1>2, <1>5, KeptFacts
     DEF Fill, nonvolatile, source, CopyToSectorEnd, Closing
<1>6. CASE CopyTail
  <2>1. bufferLen + left \in Int
    BY <1>0, <1>3 DEF Inv, TypeOK
  <2> QED BY <1>2, <1>4, <1>6, <2>1, KeptFacts
             DEF Fill, nonvolatile, source, CopyTail, Closing
<1>7. CASE WriteReturns \/ StreamDone
  BY <1>2, <1>7, AnswerFacts DEF WriteReturns, StreamDone
<1>8. CASE StreamTimeout
  BY <1>8, AbortFacts DEF StreamTimeout
<1>9. CASE AvailableAgain
  <2>1. CASE Answer("ok")
    BY <1>2, <2>1, AnswerFacts
  <2> QED BY <1>1, <1>2, <1>9, <2>1, KeptFacts
             DEF AvailableAgain, nonvolatile, update, source, Closing
<1>10. CASE ReadAvailable
  <2>1. PICK k \in 0 .. Deliverable :
          IF k = 0
            THEN Answer("ok")
            ELSE /\ IF bufferLen + Capped(k) > SecSize
                      THEN Fill(SecSize, TRUE)
                      ELSE Fill(bufferLen + Capped(k),
                                bufferLen + Capped(k) = Remaining)
                 /\ pc' = "available2"
                 /\ UNCHANGED <<left, ret>>
    BY <1>10 DEF ReadAvailable
  <2>2. CASE k = 0
    BY <1>2, <2>1, <2>2, AnswerFacts
  <2>3. CASE k # 0
    <3>1. k \in Nat /\ bufferLen + k <= Remaining
      BY <1>0, <1>2, <1>3, <2>1, DeliverableValue
    <3>2. Capped(k) = k
      BY <1>3, <3>1 DEF Capped
    <3>3. CASE Fill(SecSize, TRUE)
      BY <1>2, <2>1, <2>3, <3>3, KeptFacts
         DEF Fill, nonvolatile, source, Closing
    <3>4. CASE Fill(bufferLen + k, bufferLen + k = Remaining)
      <4>1. bufferLen + k \in Int
        BY <1>3, <3>1
      <4> QED BY <1>2, <1>4, <2>1, <2>3, <3>4, <4>1, KeptFacts
                 DEF Fill, nonvolatile, source, Closing
    <3> QED BY <2>1, <2>3, <3>2, <3>3, <3>4
  <2> QED BY <2>2, <2>3
<1>11. CASE StreamRead
  <2>1. PICK n \in 1 .. BytesToRead :
          Fill(bufferLen + n, bufferLen + n \in {Remaining, SecSize})
    BY <1>11 DEF StreamRead
  <2>2. bufferLen + n \in Int /\ pc' = "stream"
    BY <1>3, <1>11, <2>1 DEF StreamRead
  <2>3. (bufferLen + n \in {Remaining, SecSize}) \in BOOLEAN
    OBVIOUS
  <2> QED BY <1>2, <1>4, <2>1, <2>2, <2>3, KeptFacts
             DEF Fill, nonvolatile, source, Closing
<1> QED BY <1>5, <1>6, <1>7, <1>8, <1>9, <1>10, <1>11

-----------------------------------------------------------------------------
(* _writeBuffer() and the image.                                              *)

(* Addresses of the image while it is being written.                          *)
LEMMA ImageAddress ==
  ASSUME Inv, IsRunning, NEW o \in Nat, o < PartSize
  PROVE  /\ Base(partition) \in Nat
         /\ Base(partition) + o \in Addrs
         /\ Base(partition) + o - Base(partition) = o
<1>1. partition \in Parts /\ partition \in {0, 1, 2}
  BY DEF Inv, TargetChosen, Parts, Apps, Spiffs
<1>2. Base(partition) \in Nat
  BY <1>1, PartSizeType DEF Base
<1> QED BY <1>1, <1>2, CellOfPartition

(* Where a flush stands: at a sector boundary, with room behind it.           *)
LEMMA FlushPlace ==
  ASSUME ImageInv, flush # "no"
  PROVE  /\ Inv /\ IsRunning /\ progress % SecSize = 0
         /\ progress \in Nat /\ bufferLen \in Nat /\ size \in Nat
         /\ bufferLen > 0 /\ bufferLen <= SecSize
         /\ progress + bufferLen <= size /\ size <= PartSize
         /\ pc \notin Closing /\ pc # "end"
         /\ progress = 0 \/ progress >= SecSize
         /\ bufferLen = SecSize \/ progress + bufferLen = size
<1>1. /\ Inv /\ IsRunning
      /\ progress \in Nat /\ bufferLen \in Nat /\ size \in Nat /\ left \in Nat
      /\ bufferLen > 0 /\ bufferLen <= SecSize
      /\ progress + bufferLen + left <= size /\ size <= PartSize
      /\ pc \notin Closing /\ pc # "end"
  BY DEF ImageInv, ImageFacts, Ending, Inv, Accounting, TypeOK, Closing
<1>2. progress + bufferLen <= size /\ progress < size
  BY <1>1
<1>3. /\ progress % SecSize = 0
      /\ bufferLen = SecSize \/ progress + bufferLen = size
  BY <1>1, <1>2 DEF ImageInv, ImageFacts, SectorWise
<1>4. progress = 0 \/ progress >= SecSize
  BY <1>1, <1>3, RoomForTwo
<1> QED BY <1>1, <1>2, <1>3, <1>4

(* Erasing the next sector touches nothing that was written before it.        *)
LEMMA EraseFacts ==
  ASSUME ImageInv, Flushing("erase"), flash' = Erased, flush' = "program",
         UNCHANGED <<boot, running, error, update, partition, source,
                     digested, pc, left, ret>>
  PROVE  ImageFacts'
<1> USE DEF update, source
<1>0. flush = "erase" /\ flush # "no"
  BY DEF Flushing
<1>1. /\ Inv /\ IsRunning /\ progress \in Nat /\ size \in Nat
      /\ progress < size /\ size <= PartSize /\ pc \notin Closing /\ pc # "end"
      /\ progress % SecSize = 0 /\ PartSize \in Nat /\ PartSize > 1
  BY <1>0, FlushPlace, RoomForTwo, PartSizeType
<1>2. ASSUME NEW a \in Addrs
      PROVE  /\ flash'[a] \in {Blank, flash[a]}
             /\ a \in EraseArea => flash'[a] = Blank
  BY DEF Erased
<1>3. ASSUME NEW o \in Nat, o < progress
      PROVE  flash'[Base(partition) + o] = flash[Base(partition) + o]
  <2>1. Base(partition) \in Nat /\ Base(partition) + o \in Addrs
    BY <1>1, <1>3, ImageAddress
  <2>2. Base(partition) + o \notin EraseArea
    BY <1>0, <1>1, <1>3, <2>1, SectorOfTarget DEF Target
  <2> QED BY <2>1, <2>2 DEF Erased
<1>4. Base(partition) \in Addrs /\ Base(partition) + 1 \in Addrs
  <2>1. Base(partition) \in Nat /\ Base(partition) + 0 \in Addrs
        /\ Base(partition) + 1 \in Addrs
    BY <1>1, ImageAddress
  <2> QED BY <2>1
<1> USE DEF ImageInv, ImageFacts, IsRunning, Sketch
<1>5. ImageChosen'
  BY DEF ImageChosen
<1>6. SectorWise'
  BY <1>0 DEF SectorWise
<1>7. MagicSeen'
  BY <1>0 DEF MagicSeen, Byte
<1>8. SectorErased'
  <2>1. EraseArea' = EraseArea /\ EraseArea \subseteq Addrs
    BY DEF EraseArea, Sector, Target, Base
  <2> QED BY <1>2, <2>1 DEF SectorErased
<1>9. Withholding'
  BY <1>1, <1>2, <1>4 DEF Withholding, Base, Closing
<1>10. Delivered'
  <2> SUFFICES ASSUME Sketch, NEW o \in 1 .. progress - 1
               PROVE  flash'[Base(partition) + o] = Byte(img, o)
    BY DEF Delivered, Base, Byte
  <2>1. o \in Nat /\ o < progress
    BY <1>1
  <2> QED BY <1>1, <1>3, <2>1 DEF Delivered
<1>11. SecondByte'
  BY <1>1, <1>2, <1>4 DEF SecondByte, Base
<1>12. Ending'
  BY <1>1 DEF Ending, Closing
<1> QED BY <1>5, <1>6, <1>7, <1>8, <1>9, <1>10, <1>11, <1>12

(* Programming an erased byte stores it; withheld or missing, it stays blank. *)
LEMMA WrittenByte ==
  ASSUME ImageInv, Flushing("program"), NEW o \in Nat, o < PartSize
  PROVE  LET a == Base(partition) + o
             written == Written(bufferLen)
         IN  /\ o < progress => written[a] = flash[a]
             /\ progress <= o /\ o < progress + bufferLen =>
                  written[a] = IF FirstBytes /\ o = 0 THEN Blank ELSE Byte(img, o)
             /\ progress = 0 /\ o < SecSize /\ bufferLen <= o =>
                  written[a] = Blank
<1> DEFINE a == Base(partition) + o
<1>0. flush = "program" /\ flush # "no"
  BY DEF Flushing
<1>1. /\ Inv /\ IsRunning /\ progress % SecSize = 0
      /\ progress \in Nat /\ bufferLen \in Nat /\ bufferLen <= SecSize
  BY <1>0, FlushPlace
<1>2. Base(partition) \in Nat /\ a \in Addrs /\ a - Base(partition) = o
  BY <1>1, ImageAddress
<1>3. SecSize \in Nat
  BY RoomForTwo
<1>4. a \in EraseArea <=> progress <= o /\ o < progress + SecSize
  BY <1>0, <1>1, <1>2, <1>3, SectorOfTarget DEF Target
<1>5. a \in ProgramArea(bufferLen) <=> progress <= o /\ o < progress + bufferLen
  BY <1>1, <1>2 DEF ProgramArea, Target
<1>6. Written(bufferLen)[a] = IF a \in ProgramArea(bufferLen)
                              THEN Programmed(flash[a], Withheld(a))
                              ELSE flash[a]
  BY <1>2 DEF Written
<1>7. a \in EraseArea => flash[a] = Blank
  BY <1>0 DEF ImageInv, ImageFacts, SectorErased
<1>8. Withheld(a) = IF FirstBytes /\ o = 0 THEN Blank ELSE Byte(img, o)
  BY <1>2 DEF Withheld
<1>9. a \in EraseArea => Programmed(flash[a], Withheld(a)) = Withheld(a)
  BY <1>7 DEF Programmed
<1> HIDE DEF a
<1>10. o < progress => Written(bufferLen)[a] = flash[a]
  BY <1>1, <1>5, <1>6
<1>11. progress <= o /\ o < progress + bufferLen =>
         Written(bufferLen)[a] = IF FirstBytes /\ o = 0 THEN Blank
                                                        ELSE Byte(img, o)
  BY <1>1, <1>3, <1>4, <1>5, <1>6, <1>8, <1>9
<1>12. progress = 0 /\ o < SecSize /\ bufferLen <= o =>
         Written(bufferLen)[a] = Blank
  BY <1>1, <1>3, <1>4, <1>5, <1>6, <1>7
<1> QED BY <1>10, <1>11, <1>12 DEF a

(* Programming the buffer puts the next bytes of the image behind those that  *)
(* are there, and the first of them without its magic byte.                   *)
LEMMA ProgramFacts ==
  ASSUME ImageInv, Flushing("program"), flash' = Written(bufferLen),
         progress' = progress + bufferLen, bufferLen' = 0, flush' = "no",
         UNCHANGED <<boot, running, error, buffer, size, command, partition,
                     source, pc, left, ret>>
  PROVE  ImageFacts'
<1> USE DEF source
<1>0. flush = "program" /\ flush # "no"
  BY DEF Flushing
<1>1. /\ Inv /\ IsRunning /\ progress \in Nat /\ size \in Nat /\ img \in Images
      /\ bufferLen \in Nat /\ bufferLen > 0 /\ bufferLen <= SecSize
      /\ progress + bufferLen <= size /\ size <= PartSize
      /\ pc \notin Closing /\ pc # "end" /\ progress % SecSize = 0
      /\ bufferLen = SecSize \/ progress + bufferLen = size
      /\ progress = 0 \/ progress >= SecSize
      /\ PartSize \in Nat /\ PartSize > 1 /\ SecSize \in Nat /\ SecSize > 1
  BY <1>0, FlushPlace, RoomForTwo, PartSizeType DEF Inv, TypeOK
<1>2. Base(partition) \in Nat
  BY <1>1, ImageAddress
<1> USE DEF ImageInv, ImageFacts, IsRunning, Sketch
<1>3. ImageChosen'
  BY DEF ImageChosen
<1>4. SectorWise'
  <2>0. SecSize \in Nat \ {0}
    BY <1>1
  <2>1. (progress + SecSize) % SecSize = 0
    BY <1>1, <2>0, NextSector
  <2> QED BY <1>1, <2>1 DEF SectorWise
<1>5. MagicSeen' /\ SectorErased' /\ Ending'
  BY <1>0, <1>1 DEF MagicSeen, Byte, SectorErased, Ending, Closing
<1>6. Withholding'
  <2> SUFFICES ASSUME Sketch PROVE flash'[Base(partition)] = Blank
    BY DEF Withholding, Base
  <2>1. Base(partition) + 0 = Base(partition)
    BY <1>2
  <2>2. CASE progress = 0
    BY <1>1, <2>1, <2>2, WrittenByte DEF FirstBytes
  <2>3. CASE progress # 0
    <3>1. flash[Base(partition)] = Blank
      BY <1>1, <2>3 DEF Withholding, Closing
    <3>2. 0 \in Nat /\ 0 < PartSize /\ 0 < progress
      BY <1>1, <2>3
    <3> QED BY <2>1, <3>1, <3>2, WrittenByte
  <2> QED BY <2>2, <2>3
<1>7. Delivered'
  <2>0. img' = img /\ Base(partition)' = Base(partition)
    BY DEF Base
  <2> SUFFICES ASSUME Sketch, NEW o \in 1 .. progress' - 1
               PROVE  flash'[Base(partition) + o] = Byte(img, o)
    BY <2>0 DEF Delivered
  <2>1. o \in Nat /\ o > 0 /\ o < progress + bufferLen /\ o < PartSize
    BY <1>1
  <2>2. CASE o < progress
    <3>1. o \in 1 .. progress - 1
      BY <1>1, <2>1, <2>2
    <3>2. flash[Base(partition) + o] = Byte(img, o)
      BY <1>1, <3>1 DEF Delivered
    <3> QED BY <2>1, <2>2, <3>2, WrittenByte
  <2>3. CASE progress <= o
    BY <2>1, <2>3, WrittenByte
  <2> QED BY <1>1, <2>1, <2>2, <2>3
<1>8. SecondByte'
  <2> SUFFICES ASSUME Sketch
               PROVE  flash'[Base(partition) + 1] \in {Blank, img}
    BY DEF SecondByte, Base
  <2>1. Byte(img, 1) = img
    BY <1>1, ImagesAssumption DEF Byte
  <2>2. 1 \in Nat /\ 1 < PartSize /\ 1 < SecSize
    BY <1>1
  <2>3. CASE progress = 0
    <3>1. CASE bufferLen <= 1
      BY <2>2, <2>3, <3>1, WrittenByte
    <3>2. CASE 1 < bufferLen
      <4>1. progress <= 1 /\ 1 < progress + bufferLen
        BY <1>1, <2>3, <3>2
      <4> QED BY <2>1, <2>2, <4>1, WrittenByte
    <3> QED BY <1>1, <3>1, <3>2
  <2>4. CASE progress # 0
    <3>1. 1 < progress
      BY <1>1, <2>4
    <3>2. flash[Base(partition) + 1] \in {Blank, img}
      BY <1>1, <2>4 DEF SecondByte
    <3> QED BY <2>2, <3>1, <3>2, WrittenByte
  <2> QED BY <2>3, <2>4
<1> QED BY <1>3, <1>4, <1>5, <1>6, <1>7, <1>8

(* Every step of _writeBuffer().                                              *)
LEMMA WriteBufferFacts == ASSUME ImageInv, WriteBuffer PROVE ImageFacts'
<1>0. flush # "no"
  BY DEF WriteBuffer, CheckMagic, EraseSector, WriteFlash, Flushing
<1>1. pc # "end" /\ pc \notin Closing
  BY <1>0, FlushPlace
<1>2. ASSUME NEW err, FlushFailed(err) PROVE ImageFacts'
  BY <1>1, <1>2, FlushFailedFacts
<1>3. CASE CheckMagic
  <2>1. CASE FlushFailed("MAGIC_BYTE")
    BY <1>2, <2>1
  <2>2. CASE ~FlushFailed("MAGIC_BYTE")
    <3> USE DEF ImageInv, ImageFacts, IsRunning, Sketch, nonvolatile, update,
                source
    <3>1. /\ flush' = "erase" /\ ~(FirstBytes /\ Byte(img, 0) # Magic)
          /\ UNCHANGED <<nonvolatile, running, error, update, partition,
                         source, digested, pc, left, ret>>
      BY <1>3, <2>2 DEF CheckMagic
    <3>2. progress \in Nat
      BY DEF Inv, TypeOK
    <3>3. ImageChosen'
      BY <3>1 DEF ImageChosen
    <3>4. SectorWise'
      BY <1>0, <3>1 DEF SectorWise
    <3>5. MagicSeen'
      BY <3>1, <3>2 DEF MagicSeen, FirstBytes, Byte
    <3>6. SectorErased' /\ Withholding'
      BY <3>1 DEF SectorErased, Withholding, Base
    <3>7. Delivered' /\ SecondByte'
      BY <3>1 DEF Delivered, SecondByte, Base, Byte
    <3>8. Ending'
      BY <1>1, <3>1 DEF Ending, Closing
    <3> QED BY <3>3, <3>4, <3>5, <3>6, <3>7, <3>8
  <2> QED BY <2>1, <2>2
<1>4. CASE EraseSector
  BY <1>2, <1>4, AbortFacts, EraseFacts DEF EraseSector, Panic
<1>5. CASE WriteFlash
  BY <1>2, <1>5, AbortFacts, ProgramFacts DEF WriteFlash, Panic
<1> QED BY <1>3, <1>4, <1>5 DEF WriteBuffer

-----------------------------------------------------------------------------
(* end() and the image: the magic byte goes to a partition that has the rest. *)

(* The first byte of the partition of a finished sketch.                      *)
LEMMA EnableFacts ==
  ASSUME ImageInv, Enable
  PROVE  /\ ImageFacts'
         /\ Base(partition) \in Addrs
         /\ \A a \in Addrs \ {Base(partition)} : flash'[a] = flash[a]
<1> USE DEF Enable, ImageInv, ImageFacts
<1>1. /\ Inv /\ IsRunning /\ Sketch /\ progress = size /\ size \in Nat
      /\ size > 0 /\ size <= PartSize /\ PartSize \in Nat /\ PartSize > 1
      /\ flush = "no" /\ flash \in [Addrs -> Cell]
  BY RoomForTwo, PartSizeType
     DEF Inv, TypeOK, Accounting, Ending, Closing, IsRunning
<1>2. Base(partition) \in Nat /\ Base(partition) \in Addrs
  <2>1. Base(partition) \in Nat /\ Base(partition) + 0 \in Addrs
    BY <1>1, ImageAddress
  <2> QED BY <2>1
<1>3. \A a \in Addrs \ {Base(partition)} : flash'[a] = flash[a]
  BY <1>1, <1>2
<1>4. CASE Abort("READ") /\ Return("fail")
  BY <1>2, <1>3, <1>4, ClearedFacts
     DEF Abort, Reset, Return, ImageChosen, IsRunning
<1>5. CASE /\ flash'[Base(partition)] = Magic /\ pc' = "activate"
           /\ UNCHANGED <<error, update, flush, left, ret>>
           /\ UNCHANGED <<boot, running, partition, source, digested>>
  <2> USE <1>5 DEF IsRunning, Sketch, update, source
  <2>1. ImageChosen'
    BY DEF ImageChosen
  <2>2. SectorWise' /\ MagicSeen'
    BY <1>1 DEF SectorWise, MagicSeen, Byte
  <2>3. SectorErased' /\ Withholding'
    BY <1>1 DEF SectorErased, Withholding
  <2>4. Delivered'
    <3> SUFFICES ASSUME NEW o \in 1 .. progress - 1
                 PROVE  flash'[Base(partition) + o] = Byte(img, o)
      BY DEF Delivered, Base, Byte
    <3>1. o \in Nat /\ o > 0 /\ o < PartSize
      BY <1>1
    <3>2. Base(partition) + o \in Addrs \ {Base(partition)}
      BY <1>1, <1>2, <3>1, ImageAddress
    <3> QED BY <1>1, <1>3, <3>2 DEF Delivered
  <2>5. SecondByte'
    <3>1. Base(partition) + 1 \in Addrs \ {Base(partition)}
      BY <1>1, <1>2, ImageAddress
    <3> QED BY <1>1, <1>3, <3>1 DEF SecondByte, Base
  <2>6. Ending'
    BY <1>1 DEF Ending, Closing, Base
  <2> QED BY <1>2, <1>3, <2>1, <2>2, <2>3, <2>4, <2>5, <2>6
<1> QED BY <1>4, <1>5

(* The steps of end(): the update is closed at its progress, and the image is *)
(* checked before it is made bootable.                                        *)
LEMMA EndFacts ==
  ASSUME ImageInv,
         EndFinished \/ EndTakesProgress \/ VerifyDigest \/ Activate
  PROVE  ImageFacts'
<1> USE DEF ImageInv, ImageFacts
<1>0. pc \in {"idle", "verify"} => flush = "no"
  BY DEF Inv, Accounting
<1>1. ASSUME UNCHANGED <<nonvolatile, running, error, update, partition, source,
                         digested, flush, left>>,
             flush = "no", pc # "activate", pc' # "activate", Ending'
      PROVE  ImageFacts'
  <2> USE <1>1 DEF IsRunning, Sketch, nonvolatile, update, source
  <2>1. ImageChosen' /\ SectorWise' /\ MagicSeen'
    BY DEF ImageChosen, SectorWise, MagicSeen, Byte
  <2>2. SectorErased' /\ Withholding'
    BY DEF SectorErased, Withholding, Base
  <2>3. Delivered' /\ SecondByte'
    BY DEF Delivered, SecondByte, Base, Byte
  <2> QED BY <2>1, <2>2, <2>3
<1>2. CASE EndFinished
  <2>1. Ending'
    BY <1>2 DEF EndFinished, Ready, IsFinished, Ending, Closing, IsRunning,
                update
  <2> QED BY <1>0, <1>1, <1>2, <2>1 DEF EndFinished, Ready
<1>3. CASE EndTakesProgress
  BY <1>3 DEF EndTakesProgress, Ending
<1>4. CASE VerifyDigest
  <2>1. CASE ReturnAbort("MD5") \/ ReturnReset("ok")
    BY <2>1, AbortFacts
  <2>2. CASE ~(ReturnAbort("MD5") \/ ReturnReset("ok"))
    <3>1. /\ targetMd5 = NoDigest \/ DigestMatches
          /\ command # "U_SPIFFS" /\ pc = "verify" /\ pc' = "enable"
          /\ UNCHANGED <<nonvolatile, running, error, update, partition,
                         source, digested, flush, left, ret>>
      BY <1>4, <2>2 DEF VerifyDigest
    <3>2. Ending'
      BY <3>1 DEF Ending, Closing, Inv, TypeOK, Sketch, DigestMatches,
                  IsRunning, update, source
    <3> QED BY <1>0, <1>1, <3>1, <3>2
  <2> QED BY <2>1, <2>2
<1>5. CASE Activate
  BY <1>5, AbortFacts, ClearedFacts
     DEF Activate, Reset, Return, ImageChosen, IsRunning
<1> QED BY <1>2, <1>3, <1>4, <1>5

-----------------------------------------------------------------------------
(* The invariant holds in the factory state, and every step keeps it.         *)
LEMMA ImageInitInv == ASSUME Init PROVE ImageInv
<1>1. /\ progress = 0 /\ flush = "no" /\ pc = "idle" /\ ~IsRunning
  BY DEF Init, IsRunning
<1>2. SectorWise /\ Delivered
  BY <1>1, RoomForTwo DEF SectorWise, Delivered
<1> QED BY <1>1, <1>2, InitInv
           DEF ImageInv, ImageFacts, ImageChosen, MagicSeen, SectorErased,
               Withholding, SecondByte, Ending, Closing

(* Every step of an honest client, of the Updater and of a power cut keeps    *)
(* the invariant.                                                             *)
LEMMA HonestImageInv ==
  ASSUME HonestClient, ImageInv, [HonestNext]_vars
  PROVE  ImageInv'
<1>1. Inv'
  BY HonestInv DEF ImageInv
<1>2. CASE HonestCalls
  BY <1>1, <1>2, CallFacts, EndFacts DEF ImageInv
<1>3. CASE Steps
  BY <1>1, <1>3, WriteBufferFacts, CopyFacts, EndFacts, EnableFacts
     DEF ImageInv, Steps, OwnSteps
<1>4. CASE PowerLoss
  BY <1>1, <1>4, AbortFacts DEF ImageInv, PowerLoss
<1>5. CASE UNCHANGED vars
  <2> USE <1>5 DEF vars, ImageInv, ImageFacts, IsRunning, Sketch
  <2>1. ImageChosen' /\ SectorWise' /\ MagicSeen'
    BY DEF ImageChosen, SectorWise, MagicSeen, Byte
  <2>2. SectorErased' /\ Withholding' /\ Ending'
    BY DEF SectorErased, EraseArea, Sector, Target, Withholding, Ending, Base
  <2>3. Delivered' /\ SecondByte'
    BY DEF Delivered, SecondByte, Base, Byte
  <2> QED BY <1>1, <2>1, <2>2, <2>3
<1> QED BY <1>2, <1>3, <1>4, <1>5 DEF HonestNext

-----------------------------------------------------------------------------
(* What a step does to the flash.                                             *)

Quiet == UNCHANGED <<flash, boot, running, img>>

(* A flush changes the target only, and leaves a sketch without its first     *)
(* byte.                                                                      *)
Flushed ==
    /\ UNCHANGED <<boot, running, img>>
    /\ IsRunning
    /\ \A a \in Addrs \ Cells(partition) : flash'[a] = flash[a]
    /\ Sketch => flash'[Base(partition)] = Blank

(* A failing erase leaves half erased bytes in the target.  When the magic    *)
(* byte of the former image survives it, they are in the first sector.        *)
HalfDone ==
    /\ UNCHANGED <<boot, running, img>>
    /\ IsRunning
    /\ \A a \in Addrs \ Cells(partition) : flash'[a] = flash[a]
    /\ \A a \in Addrs : flash'[a] \in {flash[a], Torn}
    /\ Sketch /\ flash'[Base(partition)] = Magic =>
         \A a \in Addrs : flash'[a] # flash[a] => a \in Sector(Base(partition))

(* A step of _writeBuffer() leaves the slot it writes unbootable, or half     *)
(* erased, and every other slot alone.                                        *)
LEMMA FlushKinds ==
  ASSUME ImageInv, WriteBuffer
  PROVE  Quiet \/ Flushed \/ HalfDone \/ (Restart /\ UNCHANGED flash)
<1>0. flush # "no" /\ Inv /\ IsRunning
  <2>1. flush # "no"
    BY DEF WriteBuffer, CheckMagic, EraseSector, WriteFlash, Flushing
  <2> QED BY <2>1, FlushPlace
<1>1. /\ progress \in Nat /\ bufferLen \in Nat /\ progress % SecSize = 0
      /\ SecSize \in Nat /\ SecSize > 1 /\ pc \notin Closing
      /\ Base(partition) \in Nat /\ Base(partition) \in Addrs
  <2>1. Base(partition) \in Nat /\ Base(partition) + 0 \in Addrs
    BY <1>0, ImageAddress, PartSizeType
  <2> QED BY <1>0, <2>1, FlushPlace, RoomForTwo
<1>2. /\ EraseArea \subseteq Cells(partition)
      /\ ProgramArea(bufferLen) \subseteq Cells(partition)
  BY <1>0, AreasInTarget
<1>3. ASSUME Sketch, progress # 0 PROVE flash[Base(partition)] = Blank
  BY <1>1, <1>3 DEF ImageInv, ImageFacts, Withholding, Closing
<1>4. progress = 0 => Base(partition) \in EraseArea
  <2>1. progress = 0 => Target = Base(partition)
    BY <1>1 DEF Target
  <2> QED BY <1>0, <1>1, <2>1, SectorOfTarget
<1>5. CASE CheckMagic
  BY <1>5 DEF CheckMagic, FlushFailed, Quiet, nonvolatile, source
<1>6. CASE EraseSector
  <2>1. CASE Panic(EraseArea)
    BY <2>1 DEF Panic
  <2>2. CASE /\ \E torn \in Tears : flash' = HalfErased(torn)
             /\ FlushFailed("ERASE")
    <3>1. PICK torn \in Tears : flash' = HalfErased(torn)
      BY <2>2
    <3>2. \A a \in Addrs : /\ flash'[a] \in {flash[a], Torn}
                           /\ flash'[a] # flash[a] => a \in EraseArea
      BY <3>1 DEF HalfErased
    <3>3. ASSUME Sketch, flash'[Base(partition)] = Magic
          PROVE  EraseArea = Sector(Base(partition))
      <4>1. flash[Base(partition)] = Magic
        BY <1>1, <3>2, <3>3, ImagesAssumption
      <4>2. progress = 0
        BY <1>3, <3>3, <4>1, ImagesAssumption
      <4> QED BY <1>1, <4>2 DEF EraseArea, Target
    <3> QED BY <1>0, <1>2, <2>2, <3>2, <3>3 DEF HalfDone, FlushFailed, source
  <2>3. CASE flash' = Erased /\ UNCHANGED <<boot, running, source>>
    <3>1. \A a \in Addrs \ Cells(partition) : flash'[a] = flash[a]
      BY <1>2, <2>3 DEF Erased
    <3>2. Sketch => flash'[Base(partition)] = Blank
      BY <1>1, <1>3, <1>4, <2>3 DEF Erased
    <3> QED BY <1>0, <2>3, <3>1, <3>2 DEF Flushed, source
  <2> QED BY <1>6, <2>1, <2>2, <2>3 DEF EraseSector
<1>7. CASE WriteFlash
  <2>1. CASE Panic(ProgramArea(bufferLen))
    BY <2>1 DEF Panic
  <2>2. ASSUME NEW n \in 0 .. bufferLen, flash' = Written(n),
               UNCHANGED <<boot, running, source>>
        PROVE  Flushed
    <3>1. n \in Nat /\ n <= bufferLen /\ Target \in Nat
      BY <1>0, <1>1, TargetBounds
    <3>2. ProgramArea(n) \subseteq ProgramArea(bufferLen)
      BY <1>1, <3>1, PartSizeType DEF ProgramArea, Addrs, FlashSize
    <3>3. \A a \in Addrs \ Cells(partition) : flash'[a] = flash[a]
      BY <1>2, <2>2, <3>2 DEF Written
    <3>4. ASSUME Sketch PROVE flash'[Base(partition)] = Blank
      <4>1. flash'[Base(partition)] =
              IF Base(partition) \in ProgramArea(n)
              THEN Programmed(flash[Base(partition)], Withheld(Base(partition)))
              ELSE flash[Base(partition)]
        BY <1>1, <2>2 DEF Written
      <4>2. CASE progress = 0
        <5>1. flash[Base(partition)] = Blank
          BY <1>4, <1>7, <4>2
             DEF WriteFlash, Flushing, ImageInv, ImageFacts, SectorErased
        <5>2. Withheld(Base(partition)) = Blank
          BY <1>1, <3>4, <4>2 DEF Withheld, FirstBytes, Sketch
        <5> QED BY <4>1, <5>1, <5>2 DEF Programmed
      <4>3. CASE progress # 0
        <5>1. Base(partition) \notin ProgramArea(n)
          BY <1>1, <4>3 DEF ProgramArea, Target
        <5> QED BY <1>3, <3>4, <4>1, <4>3, <5>1
      <4> QED BY <4>2, <4>3
    <3> QED BY <1>0, <2>2, <3>3, <3>4 DEF Flushed, source
  <2>3. bufferLen \in 0 .. bufferLen
    BY <1>1
  <2> QED BY <1>7, <2>1, <2>2, <2>3 DEF WriteFlash, FlushFailed
<1> QED BY <1>5, <1>6, <1>7 DEF WriteBuffer

(* The steps that a slot, the running partition or the selection notices.     *)
LEMMA StepKinds ==
  ASSUME ImageInv, HonestNext
  PROVE  \/ Quiet \/ Flushed \/ HalfDone \/ Enable \/ Activate \/ RollBack
         \/ Restart /\ UNCHANGED flash
         \/ \E i \in Images, c \in Commands, sz \in Nat : BeginAccepted(i, sz, c)
<1> USE DEF Quiet, nonvolatile, source
<1>1. CASE HonestCalls
  <2>1. CASE AnyBegin
    BY <2>1 DEF AnyBegin, BeginBusy, BeginRejected, Answer
  <2>2. CASE SetMD5 \/ ClearError \/ AbortCall \/ NotReady
    BY <2>2 DEF SetMD5, ClearError, AbortCall, NotReady, Answer, ReturnAbort
  <2>3. CASE WriteTooLong \/ Write \/ WriteAvailable \/ WriteStream
    BY <2>3 DEF WriteTooLong, Write, WriteAvailable, WriteStream, ReturnAbort
  <2>4. CASE EndPremature \/ EndFinished
    BY <2>4 DEF EndPremature, EndFinished, ReturnAbort
  <2> QED BY <1>1, <2>1, <2>2, <2>3, <2>4 DEF HonestCalls
<1>2. CASE Steps
  <2>1. CASE WriteBuffer
    BY <2>1, FlushKinds
  <2>2. CASE CopyToSectorEnd \/ CopyTail \/ WriteReturns
    BY <2>2 DEF CopyToSectorEnd, CopyTail, WriteReturns, Fill, Answer
  <2>3. CASE ReadAvailable \/ AvailableAgain
    BY <2>3 DEF ReadAvailable, AvailableAgain, Fill, Answer
  <2>4. CASE StreamDone \/ StreamTimeout \/ StreamRead
    BY <2>4 DEF StreamDone, StreamTimeout, StreamRead, Fill, Answer, ReturnAbort
  <2>5. CASE EndTakesProgress \/ VerifyDigest
    BY <2>5 DEF EndTakesProgress, VerifyDigest, ReturnAbort, ReturnReset
  <2> QED BY <1>2, <2>1, <2>2, <2>3, <2>4, <2>5 DEF Steps, OwnSteps
<1>3. CASE PowerLoss
  BY <1>3 DEF PowerLoss
<1> QED BY <1>1, <1>2, <1>3 DEF HonestNext

-----------------------------------------------------------------------------
(* Slots.                                                                     *)

(* The first two bytes of a held genuine image: the magic byte, and one that  *)
(* is of this image and no other.                                             *)
LEMMA HeldBytes ==
  ASSUME NEW p \in Apps, NEW i \in Genuine
  PROVE  /\ Holds(p, i) => flash[Base(p)] = Magic /\ flash[Base(p) + 1] = i
         /\ Holds(p, i)' => flash'[Base(p)] = Magic /\ flash'[Base(p) + 1] = i
<1>1. /\ i \in WithMagic /\ i \in Images /\ ImgLen[i] \in Nat
      /\ ImgLen[i] # 0 /\ ImgLen[i] # 1
  BY ImagesAssumption
<1>2. 0 \in 0 .. ImgLen[i] - 1 /\ 1 \in 0 .. ImgLen[i] - 1
  BY <1>1
<1>3. Byte(i, 0) = Magic /\ Byte(i, 1) = i
  BY <1>1 DEF Byte
<1>4. Base(p) + 0 = Base(p)
  BY PartSizeType DEF Base, Apps
<1>5. Holds(p, i) => flash[Base(p)] = Magic /\ flash[Base(p) + 1] = i
  BY <1>2, <1>3, <1>4 DEF Holds
<1>6. Holds(p, i)' => flash'[Base(p)] = Magic /\ flash'[Base(p) + 1] = i
  BY <1>2, <1>3, <1>4 DEF Holds
<1> QED BY <1>5, <1>6

(* A slot whose cells do not change keeps its content.                        *)
LEMMA HoldsFrame ==
  ASSUME NEW p \in Apps, NEW i \in Images,
         \A a \in Cells(p) : flash'[a] = flash[a]
  PROVE  Holds(p, i)' <=> Holds(p, i)
<1>1. ImgLen[i] \in Nat
  BY ImagesAssumption
<1>2. ASSUME ImgLen[i] <= PartSize, NEW o \in 0 .. ImgLen[i] - 1
      PROVE  flash'[Base(p) + o] = flash[Base(p) + o]
  <2>1. o \in Nat /\ o < PartSize
    BY <1>1, <1>2, PartSizeType
  <2> QED BY <2>1, CellOfPartition DEF Parts
<1> QED BY <1>2 DEF Holds

(* A slot whose cells stay holds what it held.                                *)
LEMMA SlotFrame ==
  ASSUME NEW p \in Apps, \A a \in Cells(p) : flash'[a] = flash[a]
  PROVE  Slot(p)' = Slot(p)
<1>1. \A i \in Genuine : Holds(p, i)' <=> Holds(p, i)
  BY HoldsFrame, ImagesAssumption
<1> QED BY <1>1 DEF Slot

(* A slot holds one image or none.                                            *)
LEMMA SlotContent ==
  ASSUME NEW p \in Apps
  PROVE  Slot(p) \in Abstract!Content
<1>1. ASSUME NEW i \in Slot(p), NEW j \in Slot(p) PROVE i = j
  BY HeldBytes DEF Slot
<1>2. CASE Slot(p) = {}
  BY <1>2 DEF Abstract!Content
<1>3. ASSUME NEW i \in Slot(p) PROVE Slot(p) \in Abstract!Content
  <2>1. Slot(p) = {i} /\ i \in Genuine
    BY <1>1 DEF Slot
  <2> QED BY <2>1 DEF Abstract!Content
<1> QED BY <1>2, <1>3

(* Flushing leaves the other slots alone and the target slot empty.           *)
LEMMA FlushedSlots ==
  ASSUME ImageInv, Flushed
  PROVE  \/ \A p \in Apps : Slot(p)' = Slot(p)
         \/ \A p \in Apps : Slot(p)' = IF p = running THEN Slot(p) ELSE {}
<1>1. /\ partition \in Parts \ {running} /\ running \in Apps
      /\ partition = IF Sketch THEN 1 - running ELSE Spiffs
  BY DEF ImageInv, ImageFacts, ImageChosen, Inv, TargetChosen, TypeOK, Flushed
<1>2. ASSUME NEW p \in Apps, p # partition PROVE Slot(p)' = Slot(p)
  <2>1. Cells(p) \cap Cells(partition) = {}
    BY <1>1, <1>2, PartitionsDisjoint DEF Parts
  <2>2. \A a \in Cells(p) : flash'[a] = flash[a]
    BY <2>1 DEF Flushed, Cells
  <2> QED BY <2>2, SlotFrame
<1>3. CASE Sketch
  <2>1. ASSUME NEW p \in Apps, p # running PROVE Slot(p)' = {}
    <3>1. p = partition
      BY <1>1, <1>3, <2>1 DEF Apps
    <3>2. flash'[Base(p)] = Blank
      BY <1>3, <3>1 DEF Flushed
    <3>3. \A i \in Genuine : ~Holds(p, i)'
      BY <3>2, HeldBytes, ImagesAssumption
    <3> QED BY <3>3 DEF Slot
  <2> QED BY <1>1, <1>2, <2>1
<1>4. CASE ~Sketch
  BY <1>1, <1>2, <1>4 DEF Apps, Spiffs
<1> QED BY <1>3, <1>4

(* A half erased byte is of no image: the target slot keeps its image or      *)
(* loses it, and the other slots are left alone.                              *)
LEMMA HalfDoneSlots ==
  ASSUME ImageInv, HalfDone
  PROVE  \/ \A p \in Apps : Slot(p)' = Slot(p)
         \/ \A p \in Apps : Slot(p)' = IF p = running THEN Slot(p) ELSE {}
<1>1. /\ partition \in Parts \ {running} /\ running \in Apps
      /\ partition = IF Sketch THEN 1 - running ELSE Spiffs
  BY DEF ImageInv, ImageFacts, ImageChosen, Inv, TargetChosen, TypeOK, HalfDone
<1>2. ASSUME NEW p \in Apps, p # partition PROVE Slot(p)' = Slot(p)
  <2>1. Cells(p) \cap Cells(partition) = {}
    BY <1>1, <1>2, PartitionsDisjoint DEF Parts
  <2>2. \A a \in Cells(p) : flash'[a] = flash[a]
    BY <2>1 DEF HalfDone, Cells
  <2> QED BY <2>2, SlotFrame
<1>3. ASSUME NEW p \in Apps, NEW i \in Genuine, Holds(p, i)'
      PROVE  Holds(p, i)
  <2>1. /\ i \in Images /\ ImgLen[i] \in Nat /\ ImgLen[i] <= PartSize
        /\ PartSize \in Nat
    BY <1>3, ImagesAssumption, PartSizeType DEF Holds
  <2>2. ASSUME NEW o \in 0 .. ImgLen[i] - 1
        PROVE  flash[Base(p) + o] = Byte(i, o)
    <3>1. o \in Nat /\ o < PartSize /\ p \in Parts
      BY <2>1 DEF Parts
    <3>2. Base(p) + o \in Addrs
      BY <3>1, CellOfPartition
    <3>3. flash'[Base(p) + o] = Byte(i, o) /\ Byte(i, o) # Torn
      BY <1>3, <2>1, ImagesAssumption DEF Holds, Byte
    <3> QED BY <3>2, <3>3 DEF HalfDone
  <2> QED BY <2>1, <2>2 DEF Holds
<1>4. ASSUME NEW p \in Apps PROVE Slot(p)' \in {{}, Slot(p)}
  <2>1. Slot(p)' \subseteq Slot(p)
    BY <1>3 DEF Slot
  <2> QED BY <2>1, SlotContent DEF Abstract!Content
<1>5. CASE ~Sketch
  BY <1>1, <1>2, <1>5 DEF Apps, Spiffs
<1>6. CASE Sketch
  <2>1. \A p \in Apps : p = partition <=> p # running
    BY <1>1, <1>6 DEF Apps
  <2>2. PICK q \in Apps : q = partition
    BY <1>1, <1>6 DEF Apps
  <2>3. \A p \in Apps : p # q => Slot(p)' = Slot(p)
    BY <1>2, <2>2
  <2>4. CASE Slot(q)' = Slot(q)
    BY <2>3, <2>4
  <2>5. CASE Slot(q)' = {}
    BY <2>1, <2>2, <2>3, <2>5
  <2> QED BY <1>4, <2>4, <2>5
<1> QED BY <1>5, <1>6

(* The magic byte completes the image that was sent, or none.                 *)
LEMMA EnabledSlots ==
  ASSUME ImageInv, Enable
  PROVE  /\ UNCHANGED <<boot, running, img>>
         /\ \A p \in Apps : p = running => Slot(p)' = Slot(p)
         /\ \A p \in Apps : p # running =>
              Slot(p) = {} /\ Slot(p)' \in {{}, {img}}
<1>1. /\ IsRunning /\ Sketch /\ progress > 0 /\ partition = 1 - running
      /\ running \in Apps /\ Inv
      /\ flash[Base(partition)] = Blank
      /\ flash[Base(partition) + 1] \in {Blank, img}
  <2>1. IsRunning /\ Sketch /\ progress = size
    BY DEF Enable, ImageInv, ImageFacts, Ending, Closing
  <2>2. progress > 0
    BY <2>1 DEF IsRunning
  <2> QED BY <2>1, <2>2
             DEF Enable, ImageInv, ImageFacts, ImageChosen, Withholding,
                 SecondByte, Inv, TypeOK
<1>2. UNCHANGED <<boot, running, img, partition>>
  BY DEF Enable, source
<1>3. \A a \in Addrs \ {Base(partition)} : flash'[a] = flash[a]
  BY EnableFacts
<1>4. partition \in Apps /\ partition # running
  BY <1>1 DEF Apps
<1>5. /\ Base(partition) + 1 \in Addrs \ {Base(partition)}
      /\ Base(partition) \in Cells(partition)
  <2>1. 1 < PartSize /\ 0 < PartSize
    BY RoomForTwo, PartSizeType
  <2>2. Base(partition) \in Nat /\ Base(partition) + 1 \in Addrs
    BY <1>1, <2>1, ImageAddress
  <2>3. Base(partition) + 0 \in Cells(partition)
    BY <1>4, <2>1, CellOfPartition DEF Parts
  <2> QED BY <2>2, <2>3
<1>6. ASSUME NEW p \in Apps, p = running PROVE Slot(p)' = Slot(p)
  <2>1. Base(partition) \notin Cells(p)
    BY <1>4, <1>5, <1>6, PartitionsDisjoint DEF Parts
  <2>2. \A a \in Cells(p) : flash'[a] = flash[a]
    BY <1>3, <2>1 DEF Cells
  <2> QED BY <2>2, SlotFrame
<1>7. ASSUME NEW p \in Apps, p # running
      PROVE  Slot(p) = {} /\ Slot(p)' \in {{}, {img}}
  <2>1. p = partition
    BY <1>1, <1>7 DEF Apps
  <2>2. Slot(p) = {}
    BY <1>1, <2>1, HeldBytes, ImagesAssumption DEF Slot
  <2>3. ASSUME NEW i \in Genuine, Holds(p, i)' PROVE i = img
    <3>1. flash'[Base(p) + 1] = i
      BY <2>3, HeldBytes
    <3>2. i \in Images
      BY ImagesAssumption
    <3> QED BY <1>1, <1>3, <1>5, <2>1, <3>1, <3>2, ImagesAssumption
  <2> QED BY <2>2, <2>3 DEF Slot
<1> QED BY <1>2, <1>6, <1>7

-----------------------------------------------------------------------------
(* The refinement.                                                            *)

(* The factory state is an initial state of AtomicUpdate.                     *)
LEMMA InitRefines == ASSUME Init PROVE Abstract!Init
<1> DEFINE slots == [p \in Apps |-> Slot(p)]
<1>1. Inv
  BY InitInv
<1>2. slots \in [Abstract!Slots -> Abstract!Content]
  BY SlotContent DEF Abstract!Slots, Apps
<1>3. running \in Apps /\ boot = running /\ img \in Images
  BY DEF Init
<1>4. slots[running] # {}
  BY <1>1, <1>3 DEF Inv, RunningIntact, Verified, Slot
<1> HIDE DEF slots
<1> QED BY <1>2, <1>3, <1>4 DEF Abstract!Init, Abstract!Slots, Apps, slots

(* Every step of the updater is one of AtomicUpdate, or changes nothing that  *)
(* it sees.                                                                   *)
LEMMA StepRefines ==
  ASSUME ImageInv, [HonestNext]_vars
  PROVE  [Abstract!Next]_(Abstract!vars)
<1> DEFINE slots == [p \in Apps |-> Slot(p)]
<1>0. running \in Apps /\ boot \in Apps /\ Apps = {0, 1}
  BY DEF ImageInv, Inv, TypeOK, Apps
<1>1. ASSUME \A p \in Apps : Slot(p)' = Slot(p) PROVE slots' = slots
  BY <1>1
<1>2. ASSUME UNCHANGED flash PROVE slots' = slots
  BY <1>2 DEF Slot, Holds
<1>3. \A p \in Apps : slots[p] = Slot(p) /\ (slots[p] # {} <=> Verified(p))
  BY DEF Slot, Verified
<1>4. CASE Quiet \/ UNCHANGED vars
  <2>1. UNCHANGED <<flash, running, boot, img>>
    BY <1>4 DEF Quiet, vars
  <2>2. slots' = slots
    BY <1>2, <2>1
  <2> QED BY <2>1, <2>2 DEF Abstract!vars
<1>5. CASE Flushed \/ HalfDone
  <2>1. CASE \A p \in Apps : Slot(p)' = Slot(p)
    BY <1>1, <1>5, <2>1 DEF Flushed, HalfDone, Abstract!vars
  <2>2. CASE \A p \in Apps : Slot(p)' = IF p = running THEN Slot(p) ELSE {}
    <3>1. PICK q \in Apps : q = 1 - running
      BY <1>0
    <3>2. \A p \in Apps : p = q <=> p # running
      BY <1>0, <3>1
    <3>3. slots' = [slots EXCEPT ![q] = {}]
      BY <2>2, <3>2
    <3> QED BY <1>5, <3>1, <3>3
               DEF Flushed, HalfDone, Abstract!Next, Abstract!Damage
  <2> QED BY <1>5, <2>1, <2>2, FlushedSlots, HalfDoneSlots
<1>6. CASE Enable
  <2>1. UNCHANGED <<boot, running, img>>
    BY <1>6, EnabledSlots
  <2>2. PICK q \in Apps : q = 1 - running
    BY <1>0
  <2>3. \A p \in Apps : p = q <=> p # running
    BY <1>0, <2>2
  <2>4. \A p \in Apps : p # q => Slot(p)' = Slot(p)
    BY <1>6, <2>3, EnabledSlots
  <2>5. Slot(q) = {} /\ Slot(q)' \in {{}, {img}}
    BY <1>6, <2>3, EnabledSlots
  <2>6. CASE Slot(q)' = {}
    BY <1>1, <2>1, <2>4, <2>5, <2>6 DEF Abstract!vars
  <2>7. CASE Slot(q)' = {img}
    <3>1. img \in Genuine
      <4>1. img \in Slot(q)'
        BY <2>7
      <4> QED BY <4>1 DEF Slot
    <3>2. slots' = [slots EXCEPT ![q] = {img}]
      BY <2>4, <2>7
    <3> HIDE DEF slots
    <3> QED BY <2>1, <2>2, <3>1, <3>2
               DEF Abstract!Next, Abstract!Install, slots
  <2> QED BY <2>5, <2>6, <2>7
<1>7. CASE Activate \/ RollBack
  <2>1. UNCHANGED <<flash, running, img>>
    BY <1>7 DEF Activate, RollBack, Answer, ReturnAbort, nonvolatile, source
  <2>2. slots' = slots
    BY <1>2, <2>1
  <2>3. \/ UNCHANGED boot
        \/ boot' = 1 - running /\ Verified(1 - running)
    <3>1. pc = "activate" => partition = 1 - running
      BY DEF ImageInv, ImageFacts, ImageChosen, Ending, Closing
    <3> QED BY <1>7, <3>1 DEF Activate, RollBack, Answer, ReturnAbort,
                              nonvolatile, NextUpdatePartition
  <2>4. 1 - running \in Apps
    BY <1>0
  <2>5. CASE UNCHANGED boot
    BY <2>1, <2>2, <2>5 DEF Abstract!vars
  <2>6. CASE boot' = 1 - running /\ Verified(1 - running)
    <3>1. slots[1 - running] # {}
      BY <1>3, <2>4, <2>6
    <3> QED BY <2>1, <2>2, <2>6, <3>1 DEF Abstract!Next, Abstract!Select
  <2> QED BY <2>3, <2>5, <2>6
<1>8. CASE Restart /\ UNCHANGED flash
  <2>1. slots' = slots
    BY <1>2, <1>8
  <2>2. running' = IF slots[boot] # {} THEN boot ELSE 1 - boot
    BY <1>0, <1>3, <1>8 DEF Restart
  <2>3. UNCHANGED <<boot, img>>
    BY <1>8 DEF Restart
  <2> QED BY <2>1, <2>2, <2>3 DEF Abstract!Next, Abstract!Reboot
<1>9. ASSUME NEW i \in Images, NEW c \in Commands, NEW sz \in Nat,
             BeginAccepted(i, sz, c)
      PROVE  Abstract!Next
  <2>1. UNCHANGED <<flash, running, boot>> /\ img' \in Images
    BY <1>9 DEF BeginAccepted, nonvolatile
  <2>2. slots' = slots
    BY <1>2, <2>1
  <2> QED BY <2>1, <2>2 DEF Abstract!Next, Abstract!Offer
<1> QED BY <1>4, <1>5, <1>6, <1>7, <1>8, <1>9, StepKinds

-----------------------------------------------------------------------------
(* Clients that keep to the declared size and call end(false).                *)
KeepsToSize == HonestClient /\ TRUE \notin EndModes

(* What the flash, the counters and the state of end() say of the image of an *)
(* update is an invariant, whatever fails or resets.                          *)
THEOREM UpdateImageInvariant == KeepsToSize => (Spec => []ImageInv)
<1> SUFFICES ASSUME KeepsToSize PROVE Spec => []ImageInv
  OBVIOUS
<1>1. Init => ImageInv
  BY ImageInitInv
<1>2. ImageInv /\ [Next]_vars => ImageInv'
  BY NextIsHonest, HonestImageInv DEF KeepsToSize
<1> QED BY <1>1, <1>2, PTL DEF Spec

(* What end() selects is what was sent: the partition verifies, so that it    *)
(* holds a genuine image, and its second byte can only be of this update's.   *)
LEMMA SelectedIsSent ==
  ASSUME ImageInv, [HonestNext]_vars, pc = "activate", ret' = "ok",
         ~UNCHANGED vars
  PROVE  Holds(partition, img) /\ targetMd5 \in {NoDigest, img}
<1>1. /\ IsRunning /\ Sketch /\ progress = size /\ flush = "no"
      /\ targetMd5 \in {NoDigest, img}
  BY DEF ImageInv, ImageFacts, Ending, Closing, Inv, Accounting
<1>2. progress > 0
  BY <1>1 DEF IsRunning
<1>3. flash[Base(partition) + 1] \in {Blank, img}
  BY <1>1, <1>2 DEF ImageInv, ImageFacts, SecondByte
<1>4. ~HonestCalls
  BY DEF HonestCalls, AnyBegin, BeginBusy, BeginRejected, BeginAccepted,
         SetMD5, ClearError, AbortCall, NotReady, WriteTooLong, Write,
         WriteAvailable, WriteStream, EndPremature, EndFinished, RollBack,
         Ready
<1>5. ~PowerLoss
  BY DEF PowerLoss, Restart
<1>6. ~WriteBuffer
  BY <1>1 DEF WriteBuffer, CheckMagic, EraseSector, WriteFlash, Flushing
<1>7. Activate
  BY <1>4, <1>5, <1>6
     DEF HonestNext, Steps, OwnSteps, CopyToSectorEnd, CopyTail, WriteReturns,
         ReadAvailable, AvailableAgain, StreamDone, StreamTimeout, StreamRead,
         EndTakesProgress, VerifyDigest, Enable
<1>8. partition \in Apps /\ Verified(partition)
  BY <1>7 DEF Activate, ReturnAbort, Return
<1>9. PICK i \in Genuine : Holds(partition, i)
  BY <1>8 DEF Verified
<1>10. i = img
  <2>1. flash[Base(partition) + 1] = i /\ i \in Images
    BY <1>8, <1>9, HeldBytes, ImagesAssumption
  <2> QED BY <1>3, <2>1, ImagesAssumption
<1> QED BY <1>1, <1>9, <1>10

(* end() selects a partition only when all bytes of this update's image are   *)
(* in it and have the digest setMD5() asked for.                              *)
THEOREM SelectsOnlyTheSent == KeepsToSize => (Spec => SelectsWhatWasSent)
<1> SUFFICES ASSUME KeepsToSize PROVE Spec => SelectsWhatWasSent
  OBVIOUS
<1>1. ImageInv /\ [Next]_vars =>
        [pc = "activate" /\ ret' = "ok" =>
           /\ Holds(partition, img)
           /\ targetMd5 \in {NoDigest, img}]_vars
  BY NextIsHonest, SelectedIsSent DEF KeepsToSize
<1> QED BY <1>1, UpdateImageInvariant, PTL DEF Spec, SelectsWhatWasSent

(* The byte-wise updater implements AtomicUpdate: the idle slot loses its     *)
(* image, and gets all of the offered one in the single step that writes the  *)
(* magic byte, or not at all.                                                 *)
THEOREM UpdaterIsAtomic == KeepsToSize => (Spec => ImplementsAtomicUpdate)
<1> SUFFICES ASSUME KeepsToSize PROVE Spec => ImplementsAtomicUpdate
  OBVIOUS
<1>1. Init => Abstract!Init
  BY InitRefines
<1>2. ImageInv /\ [Next]_vars => [Abstract!Next]_(Abstract!vars)
  BY NextIsHonest, StepRefines DEF KeepsToSize
<1> QED BY <1>1, <1>2, UpdateImageInvariant, PTL
           DEF Spec, ImplementsAtomicUpdate, Abstract!Spec

-----------------------------------------------------------------------------
(* "Partially written firmware will not be bootable".                         *)

(* A firmware is declared with its length, or with UPDATE_SIZE_UNKNOWN when   *)
(* it fits a partition.                                                       *)
FirmwareFits == \A i \in WithMagic : ImgLen[i] <= PartSize

WholeDeclared == IsRunning /\ img \in WithMagic => size >= ImgLen[img]

PartialInv == ImageInv /\ WholeDeclared /\ PartialNotBootable

(* A client that keeps to the size declares the whole image, and end() does   *)
(* not cut it down.                                                           *)
LEMMA WholeDeclaredKept ==
  ASSUME FirmwareFits, TRUE \notin EndModes, ImageInv, WholeDeclared,
         [Next]_vars
  PROVE  WholeDeclared'
<1>1. ASSUME UNCHANGED <<size, img>> \/ size' = 0 PROVE WholeDeclared'
  BY <1>1 DEF WholeDeclared, IsRunning
<1> USE DEF update, source, Reset, Abort, ReturnAbort, ReturnReset, Answer
<1>2. CASE Begin
  <2>1. CASE BeginBusy
    BY <1>1, <2>1 DEF BeginBusy
  <2>2. ASSUME NEW i \in Images, NEW c \in Commands,
               NEW sz \in {0, ImgLen[i], Unknown}, BeginRejected(sz, c)
        PROVE  WholeDeclared'
    BY <1>1, <2>2 DEF BeginRejected
  <2>3. ASSUME NEW i \in Images, NEW c \in Commands,
               NEW sz \in {0, ImgLen[i], Unknown}, BeginAccepted(i, sz, c)
        PROVE  WholeDeclared'
    <3>1. img' = i /\ size' \in {ImgLen[i], PartSize, 0} /\ sz # 0
      BY <2>3 DEF BeginAccepted, BeginError
    <3>2. ImgLen[i] \in Nat /\ PartSize \in Nat
      BY ImagesAssumption, PartSizeType
    <3> QED BY <3>1, <3>2 DEF WholeDeclared, IsRunning, FirmwareFits
  <2> QED BY <1>2, <2>1, <2>2, <2>3 DEF Begin
<1>3. CASE Calls /\ ~Begin
  <2>1. ~EndAnyway
    BY DEF EndAnyway
  <2>2. CASE SetMD5 \/ ClearError \/ AbortCall \/ NotReady \/ RollBack
    BY <1>1, <2>2 DEF SetMD5, ClearError, AbortCall, NotReady, RollBack
  <2>3. CASE WriteTooLong \/ Write \/ WriteAvailable \/ WriteStream
    BY <1>1, <2>3 DEF WriteTooLong, Write, WriteAvailable, WriteStream
  <2>4. CASE EndPremature \/ EndFinished
    BY <1>1, <2>4 DEF EndPremature, EndFinished
  <2> QED BY <1>3, <2>1, <2>2, <2>3, <2>4 DEF Calls
<1>4. CASE Steps
  <2>1. CASE WriteBuffer
    BY <1>1, <2>1 DEF WriteBuffer, CheckMagic, EraseSector, WriteFlash,
                      FlushFailed, Panic, Restart
  <2>2. CASE CopyToSectorEnd \/ CopyTail \/ WriteReturns
    BY <1>1, <2>2 DEF CopyToSectorEnd, CopyTail, WriteReturns, Fill
  <2>3. CASE ReadAvailable \/ AvailableAgain
    BY <1>1, <2>3 DEF ReadAvailable, AvailableAgain, Fill
  <2>4. CASE StreamDone \/ StreamTimeout \/ StreamRead
    BY <1>1, <2>4 DEF StreamDone, StreamTimeout, StreamRead, Fill
  <2>5. CASE VerifyDigest \/ Enable \/ Activate
    BY <1>1, <2>5 DEF VerifyDigest, Enable, Activate
  <2>6. ~EndTakesProgress
    BY DEF EndTakesProgress, ImageInv, ImageFacts, Ending
  <2> QED BY <1>4, <2>1, <2>2, <2>3, <2>4, <2>5, <2>6 DEF Steps, OwnSteps
<1>5. CASE PowerLoss
  BY <1>1, <1>5 DEF PowerLoss, Restart
<1>6. CASE UNCHANGED vars
  BY <1>1, <1>6 DEF vars
<1> QED BY <1>2, <1>3, <1>4, <1>5, <1>6 DEF Next

(* A partition other than the target keeps its first byte and its images.     *)
LEMMA BootableFrame ==
  ASSUME PartialNotBootable, NEW p \in Apps, flash'[Base(p)] = Magic,
         \A a \in Cells(p) : flash'[a] = flash[a]
  PROVE  (\E i \in Images : Holds(p, i)') \/ HalfErasedStart(p)'
<1>1. Base(p) \in Cells(p)
  <2>1. Base(p) + 0 \in Cells(p) /\ Base(p) \in Int
    BY CellOfPartition, PartSizeType DEF Parts, Apps, Base
  <2> QED BY <2>1
<1>2. CASE \E i \in Images : Holds(p, i)
  BY <1>2, HoldsFrame
<1>3. CASE HalfErasedStart(p)
  <2>1. Base(p) \in Nat /\ Base(p) < Base(p) + PartSize /\ p \in Parts
    BY PartSizeType DEF Base, Parts, Apps
  <2>2. Sector(Base(p)) \subseteq Cells(p)
    BY <2>1, SectorInPartition
  <2>3. \A a \in Sector(Base(p)) : flash'[a] = flash[a]
    BY <2>2
  <2> QED BY <1>3, <2>3 DEF HalfErasedStart
<1> QED BY <1>1, <1>2, <1>3 DEF PartialNotBootable, PartitionIsBootable

(* No step makes a slot bootable that has only a part of an image.            *)
LEMMA PartialKept ==
  ASSUME PartialInv, HonestNext
  PROVE  PartialNotBootable'
<1> USE DEF PartialInv
<1>1. CASE UNCHANGED flash
  BY <1>1 DEF PartialNotBootable, PartitionIsBootable, Holds, HalfErasedStart
<1> SUFFICES ASSUME ~UNCHANGED flash, NEW p \in Apps, flash'[Base(p)] = Magic
             PROVE  (\E i \in Images : Holds(p, i)') \/ HalfErasedStart(p)'
  BY <1>1 DEF PartialNotBootable, PartitionIsBootable
<1>2. Flushed \/ HalfDone \/ Enable
  BY StepKinds DEF Quiet, Activate, RollBack, Answer, ReturnAbort, nonvolatile,
                   BeginAccepted
<1>3. CASE Flushed
  <2>1. /\ partition \in Parts /\ running \in Apps
        /\ partition = IF Sketch THEN 1 - running ELSE Spiffs
    BY <1>3 DEF ImageInv, ImageFacts, ImageChosen, Inv, TargetChosen, TypeOK,
                Flushed
  <2>2. p # partition
    BY <1>3, <2>1, ImagesAssumption DEF Flushed, Apps, Spiffs
  <2>3. Cells(p) \cap Cells(partition) = {}
    BY <2>1, <2>2, PartitionsDisjoint DEF Parts
  <2>4. \A a \in Cells(p) : flash'[a] = flash[a]
    BY <1>3, <2>3 DEF Flushed, Cells
  <2> QED BY <2>4, BootableFrame
<1>4. CASE Enable
  <2>1. /\ IsRunning /\ Sketch /\ progress = size /\ Inv /\ img \in Images
        /\ size \in Nat /\ size > 0 /\ size <= PartSize
        /\ partition = 1 - running /\ running \in Apps
    BY <1>4 DEF Enable, ImageInv, ImageFacts, Ending, Closing, ImageChosen, Inv,
                TypeOK, Accounting, IsRunning
  <2>2. partition \in Apps /\ partition \in Parts
    BY <2>1 DEF Apps, Parts
  <2>3. Base(partition) \in Addrs
        /\ \A a \in Addrs \ {Base(partition)} : flash'[a] = flash[a]
    BY <1>4, EnableFacts
  <2>4. CASE p # partition
    <3>1. Base(partition) \in Cells(partition)
      <4>1. 0 \in Nat /\ 0 < PartSize
        BY PartSizeType
      <4>2. Base(partition) + 0 \in Cells(partition)
        BY <2>2, <4>1, CellOfPartition
      <4>3. Base(partition) \in Nat
        BY <2>1, <4>1, ImageAddress
      <4> QED BY <4>2, <4>3
    <3>2. Base(partition) \notin Cells(p)
      BY <2>2, <2>4, <3>1, PartitionsDisjoint DEF Parts
    <3>3. \A a \in Cells(p) : flash'[a] = flash[a]
      BY <2>3, <3>2 DEF Cells
    <3> QED BY <3>3, BootableFrame
  <2>5. CASE p = partition
    <3>1. Byte(img, 0) = Magic
      BY <2>1 DEF ImageInv, ImageFacts, MagicSeen
    <3>2. ImgLen[img] \in Nat /\ img \in WithMagic
      BY <2>1, <3>1, ImagesAssumption DEF Byte
    <3>3. ImgLen[img] <= size
      BY <2>1, <3>2 DEF WholeDeclared
    <3>4. ASSUME NEW o \in 0 .. ImgLen[img] - 1
          PROVE  flash'[Base(p) + o] = Byte(img, o)
      <4>1. o \in Nat /\ o < size /\ o < PartSize
        BY <2>1, <3>2, <3>3, PartSizeType
      <4>2. Base(p) \in Nat /\ Base(p) + o \in Addrs
        BY <2>1, <2>5, <4>1, ImageAddress
      <4>3. CASE o = 0
        BY <3>1, <4>2, <4>3
      <4>4. CASE o # 0
        <5>1. o \in 1 .. progress - 1 /\ Base(p) + o # Base(p)
          BY <2>1, <4>1, <4>2, <4>4
        <5>2. flash[Base(p) + o] = Byte(img, o)
          BY <2>1, <2>5, <5>1 DEF ImageInv, ImageFacts, Delivered
        <5> QED BY <2>3, <2>5, <4>2, <5>1, <5>2
      <4> QED BY <4>3, <4>4
    <3>5. ImgLen[img] <= PartSize
      BY <2>1, <3>2, <3>3, PartSizeType
    <3> QED BY <2>1, <3>4, <3>5 DEF Holds
  <2> QED BY <2>4, <2>5
<1>5. CASE HalfDone
  <2>1. /\ partition \in Parts /\ running \in Apps
        /\ partition = IF Sketch THEN 1 - running ELSE Spiffs
    BY <1>5 DEF ImageInv, ImageFacts, ImageChosen, Inv, TargetChosen, TypeOK,
                HalfDone
  <2>2. CASE p # partition
    <3>1. Cells(p) \cap Cells(partition) = {}
      BY <2>1, <2>2, PartitionsDisjoint DEF Parts
    <3>2. \A a \in Cells(p) : flash'[a] = flash[a]
      BY <1>5, <3>1 DEF HalfDone, Cells
    <3> QED BY <3>2, BootableFrame
  <2>3. CASE p = partition /\ \E a \in Addrs : flash'[a] # flash[a]
    <3>1. PICK a \in Addrs : flash'[a] # flash[a]
      BY <2>3
    <3>2. Sketch
      BY <2>1, <2>3 DEF Apps, Spiffs
    <3>3. flash'[a] = Torn /\ a \in Sector(Base(p))
      BY <1>5, <2>3, <3>1, <3>2 DEF HalfDone
    <3>4. HalfErasedStart(p)'
      BY <3>3 DEF HalfErasedStart, Sector
    <3> QED BY <3>4
  <2>4. CASE \A a \in Addrs : flash'[a] = flash[a]
    <3>1. \A a \in Cells(p) : flash'[a] = flash[a]
      BY <2>4 DEF Cells
    <3> QED BY <3>1, BootableFrame
  <2> QED BY <2>2, <2>3, <2>4
<1> QED BY <1>2, <1>3, <1>4, <1>5

(* In the factory state a slot is blank or holds an image.                    *)
LEMMA PartialInit == ASSUME Init PROVE PartialNotBootable /\ WholeDeclared
<1> USE DEF Init
<1>1. PICK i \in Fitting, j \in {{}} \cup {{k} : k \in Fitting} :
        flash = Preloaded([p \in Apps |-> IF p = running THEN {i} ELSE j])
  OBVIOUS
<1> DEFINE content == [p \in Apps |-> IF p = running THEN {i} ELSE j]
<1>2. ASSUME NEW p \in Apps, NEW o \in Nat, o < PartSize
      PROVE  /\ Base(p) + o \in Addrs /\ ~(Base(p) + o >= 2 * PartSize)
             /\ Base(p) + o < PartSize <=> p = 0
             /\ (Base(p) + o) - p * PartSize = o
  <2>1. Base(p) + o \in Addrs
    BY <1>2, CellOfPartition DEF Parts
  <2> QED BY <1>2, <2>1, PartSizeType DEF Base, Apps
<1>3. ASSUME NEW p \in Apps, NEW o \in Nat, o < PartSize, content[p] = {}
      PROVE  flash[Base(p) + o] = Blank
  BY <1>1, <1>2, <1>3 DEF Preloaded, Apps
<1>4. ASSUME NEW p \in Apps, NEW o \in Nat, o < PartSize,
             NEW k \in Fitting, content[p] = {k}, o < ImgLen[k]
      PROVE  flash[Base(p) + o] = Byte(k, o)
  <2>1. (CHOOSE x \in content[p] : TRUE) = k
    BY <1>4
  <2>2. CASE p = 0
    <3>1. /\ Base(p) + o \in Addrs /\ ~(Base(p) + o >= 2 * PartSize)
          /\ Base(p) + o < PartSize /\ (Base(p) + o) - 0 * PartSize = o
      BY <1>2, <1>4, <2>2
    <3> QED BY <1>1, <1>4, <2>1, <2>2, <3>1 DEF Preloaded
  <2>3. CASE p = 1
    <3>1. /\ Base(p) + o \in Addrs /\ ~(Base(p) + o >= 2 * PartSize)
          /\ ~(Base(p) + o < PartSize) /\ (Base(p) + o) - 1 * PartSize = o
      BY <1>2, <1>4, <2>3
    <3> QED BY <1>1, <1>4, <2>1, <2>3, <3>1 DEF Preloaded
  <2> QED BY <2>2, <2>3 DEF Apps
<1>5. \A p \in Apps : content[p] = {} \/ \E k \in Fitting : content[p] = {k}
  OBVIOUS
<1> HIDE DEF content
<1>6. ASSUME NEW p \in Apps, flash[Base(p)] = Magic
      PROVE  \E k \in Images : Holds(p, k)
  <2>1. Base(p) + 0 = Base(p) /\ 0 < PartSize
    BY PartSizeType DEF Base, Apps
  <2>2. content[p] # {}
    BY <1>3, <1>6, <2>1, ImagesAssumption
  <2>3. PICK k \in Fitting : content[p] = {k}
    BY <1>5, <2>2
  <2>4. k \in Images /\ ImgLen[k] \in Nat /\ ImgLen[k] <= PartSize
    BY ImagesAssumption DEF Fitting
  <2>5. ASSUME NEW o \in 0 .. ImgLen[k] - 1
        PROVE  flash[Base(p) + o] = Byte(k, o)
    <3>1. o \in Nat /\ o < PartSize /\ o < ImgLen[k]
      BY <2>4, PartSizeType
    <3> QED BY <1>4, <2>3, <3>1
  <2> QED BY <2>4, <2>5 DEF Holds
<1> QED BY <1>6 DEF PartialNotBootable, PartitionIsBootable, WholeDeclared,
                    IsRunning

(* After any failure or reset an application partition that starts with the   *)
(* magic byte holds all bytes of some image, or its first sector was half     *)
(* erased, if a firmware that is sent without its length fits a partition.    *)
THEOREM PartialNeverBootable ==
  KeepsToSize /\ FirmwareFits => (Spec => []PartialNotBootable)
<1> SUFFICES ASSUME KeepsToSize, FirmwareFits
             PROVE  Spec => []PartialNotBootable
  OBVIOUS
<1>1. Init => PartialInv
  BY ImageInitInv, PartialInit DEF PartialInv
<1>2. PartialInv /\ [Next]_vars => PartialInv'
  <2> SUFFICES ASSUME PartialInv, [Next]_vars PROVE PartialInv'
    OBVIOUS
  <2>1. [HonestNext]_vars
    BY NextIsHonest DEF KeepsToSize
  <2>2. ImageInv'
    BY <2>1, HonestImageInv DEF PartialInv, KeepsToSize
  <2>3. WholeDeclared'
    BY WholeDeclaredKept DEF PartialInv, KeepsToSize
  <2>4. CASE UNCHANGED vars
    BY <2>2, <2>3, <2>4
       DEF PartialInv, vars, PartialNotBootable, PartitionIsBootable, Holds,
           HalfErasedStart
  <2> QED BY <2>1, <2>2, <2>3, <2>4, PartialKept DEF PartialInv
<1>3. PartialInv => PartialNotBootable
  BY DEF PartialInv
<1> QED BY <1>1, <1>2, <1>3, PTL DEF Spec

-----------------------------------------------------------------------------
(* Part 3: the clients.                                                       *)
(* The three clients of the Update object: whatever the servers, the network, *)
(* the flash and the resets do, and for any lengths and invitations, they     *)
(* implement AtomicUpdate, restart the device only into what was sent, and    *)
(* leave it clean when they fail.                                             *)

-----------------------------------------------------------------------------
(* The inductive invariant of the sessions.                                   *)

FwStates == {"requested", "begun", "streaming", "ending", "stopped", "restart"}

(* A client has called end().                                                 *)
Ended == \/ client = "none" /\ fw = "ending"
         \/ client \in {"http", "ota"} /\ step = "ended"

Restarting == fw = "restart" \/ client = "restart"

(* A session of one client at a time, which knows its invitation.             *)
OneAtATime ==
    /\ fw \in FwStates
    /\ client \in {"none", "http", "ota", "restart"}
    /\ client # "none" => fw \in {"requested", "stopped"}
    /\ client = "http" => step \in {"digest", "stream", "written", "ended"}
    /\ client = "ota"  => step \in {"digest", "receive", "end", "ended"}
    /\ ota \in {"waitauth", "run"} => invited \in Invitations
    /\ client = "ota" => ota = "run"
    /\ client = "restart" /\ step = "ota" => ota = "run"

(* A call is under way only in a session, and end() only at its end.          *)
CallsInSessions ==
    /\ pc # "idle" =>
         \/ client = "none" /\ fw \in {"streaming", "ending"}
         \/ client \in {"http", "ota"}
    /\ pc \in Closing => Ended
    /\ Ended => pc \in Closing \cup {"idle"}

(* An update that failed, or came to its end, is closed.                      *)
Closed ==
    /\ HasError => ~IsRunning
    /\ Ended /\ pc = "idle" => ~IsRunning
    /\ client = "http" /\ step = "written" /\ pc = "idle" =>
         ret = "ok" \/ ~IsRunning
    /\ Idle /\ IsRunning => step = "faulty"
    /\ client = "none" /\ fw \in {"begun", "streaming", "ending"} /\ IsRunning
         => Sketch

(* The selected partition holds the image, and a genuine one.                 *)
Sound == Verified(boot) /\ Holds(boot, img)

(* A session has installed what it was sent, and has not yet gone on.         *)
Installed == (Ended /\ pc = "idle" /\ ret = "ok") \/ Restarting

(* Another partition than the running one is selected when an earlier session *)
(* was told not to restart.                                                   *)
OnlyKept == boot # running => kept

(* Otherwise it is selected by the session that wrote it.                     *)
Selected ==
    /\ ~OnlyKept => Installed /\ partition # Spiffs
    /\ Installed => IF partition = Spiffs
                    THEN client # "none"
                    ELSE boot # running /\ partition = boot /\ Sound

(* ArduinoOTA has set the digest of its invitation, and end() compared it.    *)
DigestKept ==
    /\ client = "ota" /\ step # "digest" => targetMd5 = invited.md5
    /\ client = "ota" /\ step = "ended" /\ pc = "idle" /\ ret = "ok" =>
         img = invited.md5
    /\ client = "restart" /\ step = "ota" => img = invited.md5

SessionInv == /\ OneAtATime /\ CallsInSessions /\ Closed
              /\ Selected /\ DigestKept

ClientsInv == AnyInv /\ ImageInv /\ SessionInv

-----------------------------------------------------------------------------
(* The updater, as a session sees it.                                         *)

same == <<boot, running, partition, targetMd5, img>>

(* The call goes on.                                                          *)
Works == /\ pc # "idle" /\ pc' # "idle"
         /\ pc \in Closing <=> pc' \in Closing
         /\ UNCHANGED <<same, size, command, error>>

(* It fails, and closes the update.                                           *)
Fails == /\ pc # "idle" /\ pc' = "idle" /\ ret' = "fail" /\ size' = 0
         /\ UNCHANGED same

(* It has taken what there was.                                               *)
Returns == /\ pc \notin Closing \cup {"idle"} /\ pc' = "idle" /\ ret' = "ok"
           /\ UNCHANGED <<same, size, command, error>>

(* end() has succeeded: a file system is written, or a sketch selected.       *)
Succeeds == /\ pc \in Closing /\ pc' = "idle" /\ ret' = "ok" /\ size' = 0
            /\ UNCHANGED <<running, partition, targetMd5, img>>
            /\ targetMd5 \in {NoDigest, img}
            /\ \/ ~Sketch /\ partition = Spiffs /\ UNCHANGED boot
               \/ /\ partition # Spiffs
                  /\ boot' = partition /\ boot' # running /\ Sound'

(* For an honest client the flash driver has no reason to panic.              *)
LEMMA NoPanic ==
  ASSUME Inv, flush # "no"
  PROVE  ~Dangerous(EraseArea) /\ ~Dangerous(ProgramArea(bufferLen))
<1>1. partition \in Parts \ {running} /\ running \in Parts
  BY TargetBounds DEF Inv, TypeOK, Parts
<1>2. Cells(partition) \cap Cells(running) = {}
  BY <1>1, PartitionsDisjoint
<1> QED BY <1>2, AreasInTarget DEF Dangerous

(* A step of the Updater inside a call of a client works on, fails, returns,  *)
(* or has installed the image.                                                *)
LEMMA OwnKinds ==
  ASSUME ImageInv, Steps
  PROVE  Works \/ Fails \/ Returns \/ Succeeds
<1> USE DEF same, nonvolatile, update, source
<1>0. Inv /\ pc # "end"
  BY DEF ImageInv, ImageFacts, Ending
<1>1. flush # "no" => pc \notin Closing \cup {"idle"}
  BY <1>0 DEF Inv, Accounting, Closing
<1>2. ASSUME NEW err, flush # "no", FlushFailed(err) PROVE Fails
  BY <1>0, <1>1, <1>2 DEF FlushFailed, Abort, Reset, Fails
<1>3. CASE WriteBuffer
  <2>1. flush # "no"
    BY <1>3 DEF WriteBuffer, CheckMagic, EraseSector, WriteFlash, Flushing
  <2>2. CASE CheckMagic
    BY <1>1, <1>2, <2>1, <2>2 DEF CheckMagic, Works
  <2>3. CASE EraseSector
    BY <1>0, <1>1, <1>2, <2>1, <2>3, NoPanic DEF EraseSector, Panic, Works
  <2>4. CASE WriteFlash
    BY <1>0, <1>1, <1>2, <2>1, <2>4, NoPanic DEF WriteFlash, Panic, Works
  <2> QED BY <1>3, <2>2, <2>3, <2>4 DEF WriteBuffer
<1>4. CASE CopyToSectorEnd \/ CopyTail
  BY <1>4 DEF CopyToSectorEnd, CopyTail, Fill, Works, Closing
<1>5. CASE WriteReturns \/ StreamDone
  BY <1>5 DEF WriteReturns, StreamDone, Answer, Return, Returns, Closing
<1>6. CASE ReadAvailable \/ AvailableAgain
  BY <1>6 DEF ReadAvailable, AvailableAgain, Answer, Return, Fill, Works,
              Returns, Closing
<1>7. CASE StreamTimeout
  BY <1>7 DEF StreamTimeout, ReturnAbort, Abort, Reset, Return, Fails
<1>8. CASE StreamRead
  BY <1>8 DEF StreamRead, Fill, Works, Closing
<1>9. CASE EndTakesProgress
  BY <1>0, <1>9 DEF EndTakesProgress
<1>10. CASE VerifyDigest
  <2>1. CASE ReturnAbort("MD5")
    BY <1>10, <2>1
       DEF VerifyDigest, ReturnAbort, Abort, Reset, Return, Fails
  <2>2. CASE ReturnReset("ok") /\ ~ReturnAbort("MD5")
    <3>1. /\ pc = "verify" /\ targetMd5 \in {NoDigest, img}
      BY <1>10, <2>2 DEF VerifyDigest, DigestMatches
    <3>2. command = "U_SPIFFS"
      BY <1>10, <2>2 DEF VerifyDigest, ReturnReset, Return
    <3>3. ~Sketch /\ partition = Spiffs
      BY <3>1, <3>2
         DEF Sketch, ImageInv, ImageFacts, ImageChosen, Ending, Closing
    <3> QED BY <2>2, <3>1, <3>3
               DEF ReturnReset, Reset, Return, Succeeds, Closing
  <2>3. CASE ~ReturnReset("ok") /\ ~ReturnAbort("MD5")
    BY <1>10, <2>3 DEF VerifyDigest, Works, Closing
  <2> QED BY <2>1, <2>2, <2>3
<1>11. CASE Enable
  BY <1>11 DEF Enable, Abort, Reset, Return, Works, Fails, Closing
<1>12. CASE Activate
  <2>1. CASE ReturnAbort("ACTIVATE")
    BY <1>12, <2>1 DEF Activate, ReturnAbort, Abort, Reset, Return, Fails
  <2>2. CASE ~ReturnAbort("ACTIVATE")
    <3>1. /\ pc = "activate" /\ Verified(partition) /\ boot' = partition
          /\ partition # Spiffs /\ Reset /\ Return("ok")
          /\ UNCHANGED <<flash, running, error, partition, source, digested>>
      BY <1>12, <2>2 DEF Activate, Apps, Spiffs
    <3>2. Holds(partition, img) /\ targetMd5 \in {NoDigest, img}
      <4>1. [HonestNext]_vars /\ ret' = "ok" /\ ~UNCHANGED vars
        BY <1>12, <3>1 DEF HonestNext, Steps, OwnSteps, Return, vars
      <4> QED BY <3>1, <4>1, SelectedIsSent
    <3>3. partition # running
      BY <1>0, <3>1 DEF Inv, TargetChosen
    <3>4. Sound'
      BY <3>1, <3>2 DEF Sound, Verified, Holds, Base
    <3> QED BY <3>1, <3>2, <3>3, <3>4 DEF Reset, Return, Succeeds, Closing
  <2> QED BY <2>1, <2>2
<1> QED BY <1>3, <1>4, <1>5, <1>6, <1>7, <1>8, <1>9, <1>10, <1>11, <1>12
        DEF Steps, OwnSteps

(* Every step of a session is one of the updater, or none.                    *)
LEMMA SessionIsHonest ==
  ASSUME OneAtATime, [UcNext]_ucVars
  PROVE  [HonestNext]_vars
<1> USE DEF fwVars
<1>0. Lengths \subseteq Nat /\ {"U_FLASH", "U_SPIFFS"} \subseteq Commands
  BY LengthsAssumption DEF Commands
<1>1. CASE Handler
  <2>1. CASE BeginDownload
    BY <1>0, <2>1 DEF BeginDownload, HonestNext, HonestCalls, AnyBegin
  <2> QED BY <1>1, <2>1
             DEF Handler, InvalidResponse, CallWriteStream, CallRuns, CallEnd,
                 AfterEnd, HonestNext, HonestCalls, Steps
<1>2. CASE ClientRuns \/ DataArrive \/ ServerSends \/ UcReboot
  BY <1>2 DEF ClientRuns, DataArrive, ServerSends, UcReboot, Reboot,
              HonestNext, Steps
<1>3. CASE HttpBegin
  BY <1>0, <1>3 DEF HttpBegin, HonestNext, HonestCalls, AnyBegin
<1>4. CASE OtaBegin
  <2>1. invited \in Invitations
    BY <1>4 DEF OtaBegin, OneAtATime
  <2>2. invited.size \in Nat /\ invited.cmd \in Commands
    BY <1>0, <2>1, ClientsAssumption
  <2> QED BY <1>4, <2>2 DEF OtaBegin, HonestNext, HonestCalls, AnyBegin
<1>5. CASE HttpDigest \/ HttpStream \/ HttpWritten \/ HttpEnded
  BY <1>5 DEF HttpDigest, HttpStream, HttpWritten, HttpEnded, HonestNext,
              HonestCalls
<1>6. CASE OtaDigest \/ OtaWrite \/ OtaTimeout \/ OtaEnd
  BY <1>6 DEF OtaDigest, OtaWrite, OtaTimeout, OtaEnd, HonestNext, HonestCalls
<1>7. CASE OtaRetry \/ OtaReceived \/ OtaEnded \/ OtaInvited \/ OtaAnswered
  BY <1>7 DEF OtaRetry, OtaReceived, OtaEnded, OtaInvited, OtaAnswered
<1>8. CASE UNCHANGED ucVars
  BY <1>8 DEF ucVars
<1> QED BY <1>1, <1>2, <1>3, <1>4, <1>5, <1>6, <1>7, <1>8
        DEF UcNext, Clients

-----------------------------------------------------------------------------
(* The sessions keep their invariant.                                         *)

(* Nothing about the selected partition changes.                              *)
LEMMA SoundFrame ==
  ASSUME UNCHANGED <<flash, boot, img>>
  PROVE  Sound' <=> Sound
  BY DEF Sound, Verified, Holds, Base

USE DEF Installed, OnlyKept

(* The updater works on the call of whoever has the turn.                     *)
LEMMA CallKept ==
  ASSUME ClientsInv, Steps, UNCHANGED <<fw, mine>>
  PROVE  SessionInv'
<1> USE DEF ClientsInv, SessionInv, mine, same
<1>1. Works \/ Fails \/ Returns \/ Succeeds
  BY OwnKinds
<1>2. /\ pc # "idle" /\ OnlyKept
      /\ ~Restarting /\ ~Idle
      /\ pc \in Closing <=> Ended
  BY <1>1 DEF Works, Fails, Returns, Succeeds, Selected, CallsInSessions,
              Restarting, Idle, OneAtATime, Closing
<1>3. OneAtATime' /\ Ended' = Ended /\ ~Restarting' /\ ~Idle'
  BY <1>2 DEF OneAtATime, Ended, Restarting, Idle
<1>4. CallsInSessions'
  BY <1>1, <1>2, <1>3
     DEF CallsInSessions, Works, Fails, Returns, Succeeds, Closing
<1>5. Closed'
  BY <1>1, <1>2, <1>3
     DEF Closed, Works, Fails, Returns, Succeeds, HasError, IsRunning, Sketch
<1>6. pc \in Closing => IsRunning
  BY DEF ImageInv, ImageFacts, Ending
<1>7. Selected'
  <2>1. CASE Works \/ Fails \/ Returns
    BY <1>2, <1>3, <2>1
       DEF Selected, Works, Fails, Returns
  <2>2. CASE Succeeds
    <3>1. ~Sketch => client # "none"
      BY <1>2, <1>6, <2>2 DEF Succeeds, Closed, Ended, OneAtATime
    <3>2. partition = Spiffs => ~Sketch /\ client # "none" /\ UNCHANGED boot
      BY <2>2, <3>1 DEF Succeeds
    <3>3. partition # Spiffs => boot' = partition /\ boot' # running /\ Sound'
      BY <2>2 DEF Succeeds
    <3> QED BY <1>2, <1>3, <2>2, <3>2, <3>3
               DEF Selected, Succeeds
  <2> QED BY <1>1, <2>1, <2>2
<1>8. DigestKept'
  <2>1. client = "ota" => invited.md5 # NoDigest
    BY ClientsAssumption, ImagesAssumption DEF OneAtATime
  <2> QED BY <1>1, <1>2, <1>3, <2>1
             DEF DigestKept, Works, Fails, Returns, Succeeds, Ended, OneAtATime
<1> QED BY <1>3, <1>4, <1>5, <1>7, <1>8

(* begin() answers, and the session begins or is over.                        *)
Began(c) ==
    /\ pc' = "idle" /\ UNCHANGED <<boot, running, targetMd5>>
    /\ \/ ret' = "fail" /\ IsRunning /\ UNCHANGED <<size, error>>
       \/ ret' = "fail" /\ ~IsRunning'
       \/ ret' = "ok" /\ ~HasError' /\ command' = c

(* Every way begin() can answer is one of these.                              *)
LEMMA BeginKinds ==
  ASSUME NEW i, NEW sz, NEW c,
         \/ BeginBusy \/ BeginRejected(sz, c) \/ BeginAccepted(i, sz, c)
  PROVE  Began(c)
<1> USE DEF Began, IsRunning, HasError, nonvolatile, update, source
<1>1. CASE BeginBusy
  BY <1>1 DEF BeginBusy, Answer, Return
<1>2. CASE BeginRejected(sz, c)
  BY <1>2 DEF BeginRejected, Abort, Reset, Return
<1>3. CASE BeginAccepted(i, sz, c)
  BY <1>3 DEF BeginAccepted, Return
<1> QED BY <1>1, <1>2, <1>3

(* Between sessions another partition is selected only where it was left so,  *)
(* and no call is under way.                                                  *)
LEMMA IdleFacts ==
  ASSUME SessionInv, Idle
  PROVE  /\ OnlyKept /\ pc = "idle" /\ ~Ended /\ ~Restarting
         /\ client = "none" /\ fw \in {"requested", "stopped"}
         /\ IsRunning => step = "faulty"
  BY DEF SessionInv, Idle, Selected, CallsInSessions, Closed, Ended, Restarting

(* The three ways to begin a session.                                         *)
LEMMA BeginsKept ==
  ASSUME SessionInv, \/ BeginDownload /\ FwTurn
                     \/ HttpBegin \/ OtaBegin
  PROVE  SessionInv'
<1>1. Idle
  BY DEF BeginDownload, FwTurn, HttpBegin, OtaBegin, Idle
<1>2. /\ OnlyKept /\ pc = "idle" /\ ~Ended /\ ~Restarting
      /\ client = "none" /\ fw \in {"requested", "stopped"}
      /\ IsRunning => step = "faulty"
  BY <1>1, IdleFacts
<1>3. HasError => ~IsRunning
  BY DEF SessionInv, Closed
<1> USE DEF SessionInv, mine
<1>4. CASE BeginDownload /\ FwTurn
  <2>1. Began("U_FLASH")
    BY <1>4, BeginKinds DEF BeginDownload
  <2>2. /\ fw' = IF ret' = "ok" THEN "begun" ELSE "stopped"
        /\ UNCHANGED mine
    BY <1>4 DEF BeginDownload, FwTurn
  <2>3. OneAtATime' /\ ~Ended' /\ ~Restarting'
    BY <1>2, <2>1, <2>2 DEF OneAtATime, Ended, Restarting, FwStates
  <2>4. CallsInSessions' /\ Selected' /\ DigestKept'
    BY <1>2, <2>1, <2>2, <2>3
       DEF CallsInSessions, Selected, DigestKept, Began, Closing
  <2>5. Closed'
    BY <1>2, <1>3, <2>1, <2>2, <2>3
       DEF Closed, Began, Idle, IsRunning, HasError, Sketch
  <2> QED BY <2>3, <2>4, <2>5
<1>5. CASE HttpBegin
  <2>1. \E c : Began(c)
    BY <1>5, BeginKinds DEF HttpBegin
  <2>2. Begun("http") /\ UNCHANGED <<fw, ota, invited, tried, kept>>
    BY <1>5 DEF HttpBegin
  <2>3. OneAtATime' /\ ~Ended' /\ ~Restarting'
    BY <1>2, <2>1, <2>2
       DEF OneAtATime, Ended, Restarting, FwStates, Begun, Session
  <2>4. CallsInSessions' /\ Selected' /\ DigestKept'
    BY <1>2, <2>1, <2>2, <2>3
       DEF CallsInSessions, Selected, DigestKept, Began, Closing, Begun, Session
  <2>5. Closed'
    BY <1>2, <1>3, <2>1, <2>2, <2>3
       DEF Closed, Began, Idle, IsRunning, HasError, Begun, Session
  <2> QED BY <2>3, <2>4, <2>5
<1>6. CASE OtaBegin
  <2>1. Began(invited.cmd)
    BY <1>6, BeginKinds DEF OtaBegin
  <2>2. /\ ota = "run" /\ Begun("ota") /\ UNCHANGED <<fw, kept>>
        /\ IF ret' = "ok" THEN UNCHANGED <<ota, invited, tried>> ELSE OtaOver
    BY <1>6 DEF OtaBegin
  <2>3. OneAtATime' /\ ~Ended' /\ ~Restarting'
    BY <1>2, <2>1, <2>2
       DEF OneAtATime, Ended, Restarting, FwStates, Begun, Session, OtaOver
  <2>4. CallsInSessions' /\ Selected' /\ DigestKept'
    BY <1>2, <2>1, <2>2, <2>3
       DEF CallsInSessions, Selected, DigestKept, Began, Closing, Begun, Session
  <2>5. Closed'
    BY <1>2, <1>3, <2>1, <2>2, <2>3
       DEF Closed, Began, Idle, IsRunning, HasError, Begun, Session
  <2> QED BY <2>3, <2>4, <2>5
<1> QED BY <1>4, <1>5, <1>6

(* A call that a session makes starts, or fails and closes the update, or     *)
(* leaves it as it is.                                                        *)
Starts(to) == /\ pc' = to /\ to # "idle"
              /\ UNCHANGED <<same, size, command, error>>

Breaks == pc' = "idle" /\ ret' = "fail" /\ size' = 0 /\ UNCHANGED same

Refuses == /\ pc' = "idle" /\ ret' = "fail" /\ (HasError \/ ~IsRunning)
           /\ UNCHANGED <<same, size, command, error>>

(* What the calls of a session do.                                            *)
LEMMA CallKinds ==
  /\ WriteStream => Breaks \/ Starts("stream")
  /\ Write => Starts("write")
  /\ WriteTooLong \/ AbortCall \/ EndPremature => Breaks
  /\ EndFinished => Starts("verify")
  /\ NotReady => Refuses
  BY DEF WriteStream, Write, WriteTooLong, AbortCall, EndPremature, EndFinished,
         NotReady, Answer, ReturnAbort, Abort, Reset, Return, Breaks, Starts,
         Refuses, same, nonvolatile, update, source

(* A session that has not come to its end has not selected anything yet.      *)
LEMMA OpenFacts ==
  ASSUME SessionInv, ~Ended, ~Restarting
  PROVE  OnlyKept
  BY DEF SessionInv, Selected

(* The download of the application: its calls and what follows end().         *)
LEMMA DownloadKept ==
  ASSUME ClientsInv, FwTurn,
         InvalidResponse \/ CallWriteStream \/ CallEnd \/ AfterEnd
  PROVE  SessionInv'
<1> USE DEF ClientsInv, SessionInv, mine, FwTurn
<1>1. CASE InvalidResponse
  <2>1. Idle /\ fw' = "stopped" /\ UNCHANGED <<vars, mine>>
    BY <1>1 DEF InvalidResponse, Idle
  <2>2. /\ OnlyKept /\ pc = "idle" /\ client = "none"
        /\ IsRunning => step = "faulty"
    BY <2>1, IdleFacts
  <2>3. OneAtATime' /\ ~Ended' /\ ~Restarting'
    BY <2>1, <2>2 DEF OneAtATime, Ended, Restarting, FwStates
  <2> QED BY <2>1, <2>2, <2>3
             DEF vars, CallsInSessions, Closed, Selected, DigestKept, Closing,
                 HasError, IsRunning, Sketch
<1>2. CASE CallWriteStream
  <2>1. /\ fw = "begun" /\ fw' = "streaming"
        /\ Breaks \/ Starts("stream")
    BY <1>2, CallKinds DEF CallWriteStream
  <2>2. OneAtATime' /\ ~Ended /\ ~Restarting /\ ~Ended' /\ ~Restarting'
    BY <2>1 DEF OneAtATime, Ended, Restarting, FwStates
  <2>3. OnlyKept
    BY <2>2, OpenFacts
  <2> QED BY <2>1, <2>2, <2>3
             DEF CallsInSessions, Closed, Selected, DigestKept, Closing, Idle,
                 HasError, IsRunning, Sketch, Breaks, Starts, same
<1>3. CASE CallEnd
  <2>1. /\ fw = "streaming" /\ fw' = "ending"
        /\ Refuses \/ Starts("verify")
    BY <1>3, CallKinds DEF CallEnd
  <2>2. OneAtATime' /\ ~Ended /\ ~Restarting /\ Ended' /\ ~Restarting'
    BY <2>1 DEF OneAtATime, Ended, Restarting, FwStates
  <2>3. OnlyKept
    BY <2>2, OpenFacts
  <2>4. CallsInSessions' /\ Selected' /\ DigestKept'
    BY <2>1, <2>2, <2>3
       DEF CallsInSessions, Selected, DigestKept, Closing, Refuses, Starts, same
  <2>5. HasError => ~IsRunning
    BY DEF Closed
  <2>6. Closed'
    BY <2>1, <2>2, <2>5
       DEF Closed, HasError, IsRunning, Sketch, Refuses, Starts, same, Idle
  <2> QED BY <2>2, <2>4, <2>6
<1>4. CASE AfterEnd
  <2>1. /\ fw = "ending" /\ pc = "idle" /\ UNCHANGED vars
        /\ fw' = IF ret = "ok" /\ IsFinished THEN "restart" ELSE "stopped"
    BY <1>4 DEF AfterEnd
  <2>2. Ended /\ ~IsRunning /\ IsFinished
    BY <2>1 DEF Ended, Closed, ImageInv, Inv, Accounting, IsFinished, IsRunning,
                TypeOK
  <2>3. /\ OneAtATime' /\ ~Ended'
        /\ Restarting' <=> fw' = "restart"
        /\ Sound' <=> Sound
    BY <2>1, SoundFrame DEF OneAtATime, Ended, Restarting, FwStates, vars
  <2>4. CallsInSessions' /\ Closed' /\ DigestKept'
    BY <2>1, <2>2, <2>3
       DEF CallsInSessions, Closed, DigestKept, Closing, vars, HasError,
           IsRunning
  <2>5. Selected'
    BY <2>1, <2>2, <2>3 DEF Selected, vars, Restarting
  <2> QED BY <2>3, <2>4, <2>5
<1> QED BY <1>1, <1>2, <1>3, <1>4

(* HTTPUpdate: its calls and what follows end().                              *)
LEMMA HttpKept ==
  ASSUME ClientsInv, HttpDigest \/ HttpStream \/ HttpWritten \/ HttpEnded
  PROVE  SessionInv'
<1> USE DEF ClientsInv, SessionInv, At, Session
<1>1. /\ client = "http" /\ pc = "idle" /\ fw \in {"requested", "stopped"}
      /\ HasError => ~IsRunning
      /\ UNCHANGED <<fw, ota, invited>>
      /\ step # "ended" => UNCHANGED kept
  BY DEF HttpDigest, HttpStream, HttpWritten, HttpEnded, OneAtATime, Closed
<1>2. ASSUME step # "ended"
      PROVE  OnlyKept /\ ~Ended /\ ~Restarting /\ UNCHANGED kept
  BY <1>1, <1>2, OpenFacts DEF Ended, Restarting
<1>3. CASE HttpDigest
  <2>1. /\ UNCHANGED <<boot, running, size, error, command>> /\ pc' = "idle"
        /\ \/ client' = "http" /\ step' = "stream"
           \/ client' = "none" /\ step' = "faulty"
    BY <1>1, <1>3 DEF HttpDigest, SetMD5, Answer, Return, vars, nonvolatile,
                      update
  <2>2. OnlyKept /\ UNCHANGED kept
    BY <1>2, <1>3 DEF HttpDigest
  <2>3. OneAtATime' /\ ~Ended' /\ ~Restarting'
    BY <1>1, <2>1 DEF OneAtATime, Ended, Restarting
  <2>4. CallsInSessions' /\ Selected' /\ DigestKept'
    BY <1>1, <2>1, <2>2, <2>3
       DEF CallsInSessions, Selected, DigestKept, Closing
  <2>5. Closed'
    BY <1>1, <2>1, <2>3 DEF Closed, HasError, IsRunning, Idle
  <2> QED BY <2>3, <2>4, <2>5
<1>4. CASE HttpStream
  <2>1. /\ client' = "http" /\ step' = "written"
        /\ Breaks \/ Starts("stream")
    BY <1>4, CallKinds DEF HttpStream
  <2>2. OnlyKept /\ UNCHANGED kept
    BY <1>2, <1>4 DEF HttpStream
  <2>3. OneAtATime' /\ ~Ended' /\ ~Restarting'
    BY <1>1, <2>1 DEF OneAtATime, Ended, Restarting
  <2>4. CallsInSessions' /\ Selected' /\ DigestKept'
    BY <1>1, <2>1, <2>2, <2>3
       DEF CallsInSessions, Selected, DigestKept, Closing, Breaks, Starts, same
  <2>5. Closed'
    BY <1>1, <2>1, <2>3
       DEF Closed, HasError, IsRunning, Breaks, Starts, Idle
  <2> QED BY <2>3, <2>4, <2>5
<1>5. CASE HttpWritten
  <2>1. OnlyKept /\ UNCHANGED kept
    BY <1>2, <1>5 DEF HttpWritten
  <2>2. CASE ret = "ok"
    <3>1. client' = "http" /\ step' = "ended" /\ Starts("verify")
      BY <1>5, <2>2, CallKinds DEF HttpWritten
    <3>2. OneAtATime' /\ Ended' /\ ~Restarting'
      BY <1>1, <3>1 DEF OneAtATime, Ended, Restarting
    <3>3. CallsInSessions' /\ Selected' /\ DigestKept'
      BY <1>1, <2>1, <3>1, <3>2
         DEF CallsInSessions, Selected, DigestKept, Closing, Starts, same
    <3>4. Closed'
      BY <1>1, <3>1, <3>2 DEF Closed, HasError, IsRunning, Starts, Idle
    <3> QED BY <3>2, <3>3, <3>4
  <2>3. CASE ret # "ok"
    <3>1. client' = "none" /\ step' = "none" /\ UNCHANGED vars
      BY <1>5, <2>3 DEF HttpWritten
    <3>2. ~IsRunning
      BY <1>5, <2>3 DEF HttpWritten, Closed
    <3>3. OneAtATime' /\ ~Ended' /\ ~Restarting'
      BY <1>1, <3>1 DEF OneAtATime, Ended, Restarting
    <3> QED BY <1>1, <2>1, <3>1, <3>2, <3>3
               DEF CallsInSessions, Closed, Selected, DigestKept, Closing, vars,
                   HasError, IsRunning, Sketch
  <2> QED BY <2>2, <2>3
<1>6. CASE HttpEnded
  <2>1. /\ UNCHANGED vars /\ step = "ended"
        /\ \/ /\ ret # "ok" \/ partition = Spiffs
              /\ client' = "none" /\ step' = "none" /\ UNCHANGED kept
           \/ /\ ret = "ok" /\ partition # Spiffs
              /\ client' = "restart" /\ step' = "http" /\ UNCHANGED kept
           \/ /\ ret = "ok" /\ partition # Spiffs
              /\ client' = "none" /\ step' = "none" /\ kept'
    BY <1>6 DEF HttpEnded
  <2>2. Ended /\ ~IsRunning
    BY <1>1, <2>1 DEF Ended, Closed
  <2>3. /\ OneAtATime' /\ ~Ended'
        /\ Restarting' <=> client' = "restart"
        /\ Sound' <=> Sound
    BY <1>1, <2>1, SoundFrame DEF OneAtATime, Ended, Restarting, vars
  <2>4. CallsInSessions' /\ Closed' /\ DigestKept'
    BY <1>1, <2>1, <2>2, <2>3
       DEF CallsInSessions, Closed, DigestKept, Closing, vars, HasError,
           IsRunning
  <2>5. Selected'
    BY <1>1, <2>1, <2>2, <2>3 DEF Selected, Restarting, vars
  <2> QED BY <2>3, <2>4, <2>5
<1> QED BY <1>3, <1>4, <1>5, <1>6

(* ArduinoOTA: its packets, its calls and what follows end().                 *)
LEMMA OtaKept ==
  ASSUME ClientsInv, \/ OtaDigest \/ OtaWrite \/ OtaRetry \/ OtaTimeout
                     \/ OtaReceived \/ OtaEnd \/ OtaEnded
  PROVE  SessionInv'
<1> USE DEF ClientsInv, SessionInv, At, Session
<1>1. /\ client = "ota" /\ pc = "idle" /\ fw \in {"requested", "stopped"}
      /\ HasError => ~IsRunning
      /\ ota = "run" /\ invited \in Invitations
      /\ UNCHANGED fw
      /\ step # "ended" => UNCHANGED kept
  BY DEF OtaDigest, OtaWrite, OtaRetry, OtaTimeout, OtaReceived, OtaEnd,
         OtaEnded, OneAtATime, Closed, fwVars
<1>2. ASSUME step # "ended"
      PROVE  OnlyKept /\ ~Ended /\ ~Restarting /\ UNCHANGED kept
  BY <1>1, <1>2, OpenFacts DEF Ended, Restarting
<1>3. CASE OtaDigest
  <2>1. /\ UNCHANGED <<boot, running, size, error, command, ota, invited>>
        /\ pc' = "idle" /\ client' = "ota" /\ step' \in {"receive", "end"}
        /\ targetMd5' = invited.md5
    BY <1>1, <1>3
       DEF OtaDigest, SetMD5, Answer, Return, nonvolatile, update
  <2>2. OnlyKept /\ UNCHANGED kept
    BY <1>2, <1>3 DEF OtaDigest
  <2>3. OneAtATime' /\ ~Ended' /\ ~Restarting'
    BY <1>1, <2>1 DEF OneAtATime, Ended, Restarting
  <2>4. CallsInSessions' /\ Selected' /\ DigestKept'
    BY <1>1, <2>1, <2>2, <2>3
       DEF CallsInSessions, Selected, DigestKept, Closing
  <2>5. Closed'
    BY <1>1, <2>1, <2>3 DEF Closed, HasError, IsRunning, Idle
  <2> QED BY <2>3, <2>4, <2>5
<1>4. CASE OtaWrite \/ OtaRetry \/ OtaReceived
  <2>1. /\ step = "receive" /\ client' = "ota" /\ step' \in {"receive", "end"}
        /\ UNCHANGED <<ota, invited>>
        /\ Breaks \/ Starts("write") \/ UNCHANGED vars
    BY <1>1, <1>4, CallKinds DEF OtaWrite, OtaRetry, OtaReceived, fwVars
  <2>2. OnlyKept /\ UNCHANGED kept
    BY <1>2, <2>1
  <2>3. OneAtATime' /\ ~Ended' /\ ~Restarting'
    BY <1>1, <2>1 DEF OneAtATime, Ended, Restarting
  <2>4. CallsInSessions' /\ Selected' /\ DigestKept'
    BY <1>1, <2>1, <2>2, <2>3
       DEF CallsInSessions, Selected, DigestKept, Closing, Breaks, Starts, same,
           vars
  <2>5. Closed'
    BY <1>1, <2>1, <2>3
       DEF Closed, HasError, IsRunning, Idle, Breaks, Starts, vars
  <2> QED BY <2>3, <2>4, <2>5
<1>5. CASE OtaTimeout
  <2>1. step = "receive" /\ client' = "none" /\ OtaOver /\ Breaks
    BY <1>5, CallKinds DEF OtaTimeout
  <2>2. OnlyKept /\ UNCHANGED kept
    BY <1>2, <2>1
  <2>3. OneAtATime' /\ ~Ended' /\ ~Restarting'
    BY <1>1, <2>1 DEF OneAtATime, Ended, Restarting, OtaOver
  <2>4. CallsInSessions' /\ Selected' /\ DigestKept'
    BY <1>1, <2>1, <2>2, <2>3
       DEF CallsInSessions, Selected, DigestKept, Closing, Breaks, same
  <2>5. Closed'
    BY <1>1, <2>1, <2>3 DEF Closed, HasError, IsRunning, Breaks
  <2> QED BY <2>3, <2>4, <2>5
<1>6. CASE OtaEnd
  <2>1. /\ step = "end" /\ client' = "ota" /\ step' = "ended"
        /\ UNCHANGED <<ota, invited>>
        /\ Breaks \/ Refuses \/ Starts("verify")
    BY <1>1, <1>6, CallKinds DEF OtaEnd
  <2>2. OnlyKept /\ UNCHANGED kept
    BY <1>2, <2>1
  <2>3. OneAtATime' /\ Ended' /\ ~Restarting'
    BY <1>1, <2>1 DEF OneAtATime, Ended, Restarting
  <2>4. CallsInSessions' /\ Selected'
    BY <1>1, <2>1, <2>2, <2>3
       DEF CallsInSessions, Selected, Closing, Breaks, Refuses, Starts, same
  <2>5. DigestKept'
    BY <1>1, <2>1 DEF DigestKept, Breaks, Refuses, Starts, same
  <2>6. Closed'
    BY <1>1, <2>1, <2>3
       DEF Closed, HasError, IsRunning, Idle, Breaks, Refuses, Starts
  <2> QED BY <2>3, <2>4, <2>5, <2>6
<1>7. CASE OtaEnded
  <2>1. /\ UNCHANGED vars /\ step = "ended"
        /\ \/ ret # "ok" /\ client' = "none" /\ OtaOver /\ UNCHANGED kept
           \/ /\ ret = "ok" /\ client' = "restart" /\ step' = "ota"
              /\ UNCHANGED <<ota, invited, kept>>
           \/ /\ ret = "ok" /\ client' = "none" /\ OtaOver
              /\ kept' <=> kept \/ partition # Spiffs
    BY <1>7 DEF OtaEnded, fwVars
  <2>2. Ended /\ ~IsRunning
    BY <1>1, <2>1 DEF Ended, Closed
  <2>3. /\ OneAtATime' /\ ~Ended'
        /\ Restarting' <=> client' = "restart"
        /\ Sound' <=> Sound
    BY <1>1, <2>1, SoundFrame DEF OneAtATime, Ended, Restarting, vars, OtaOver
  <2>4. CallsInSessions' /\ Closed' /\ DigestKept'
    BY <1>1, <2>1, <2>2, <2>3
       DEF CallsInSessions, Closed, DigestKept, Closing, vars, HasError,
           IsRunning
  <2>5. Selected'
    BY <1>1, <2>1, <2>2, <2>3 DEF Selected, Restarting, vars
  <2> QED BY <2>3, <2>4, <2>5
<1> QED BY <1>3, <1>4, <1>5, <1>6, <1>7

(* An invitation, and the answer to the AUTH that it was given, come between  *)
(* sessions.                                                                  *)
LEMMA InvitationKept ==
  ASSUME SessionInv, OtaInvited \/ OtaAnswered
  PROVE  SessionInv'
<1> USE DEF SessionInv
<1>1. Idle /\ UNCHANGED <<vars, fw, client, step, kept>>
  BY DEF OtaInvited, OtaAnswered, fwVars
<1>2. /\ OnlyKept /\ client = "none" /\ ~Ended /\ ~Restarting
      /\ fw \in {"requested", "stopped"}
  BY <1>1, IdleFacts
<1>3. ota' \in {"waitauth", "run"} => invited' \in Invitations
  BY DEF OtaInvited, OtaAnswered, OneAtATime
<1>4. OneAtATime' /\ ~Ended' /\ ~Restarting'
  BY <1>1, <1>2, <1>3 DEF OneAtATime, Ended, Restarting
<1> QED BY <1>1, <1>2, <1>4
           DEF CallsInSessions, Closed, Selected, DigestKept, vars, HasError,
               IsRunning, Sketch, Idle

(* A reset starts the selected partition, unless that was left selected and   *)
(* has been damaged since.                                                    *)
LEMMA RebootKept ==
  ASSUME ClientsInv, UcReboot
  PROVE  SessionInv'
<1> USE DEF ClientsInv, SessionInv
<1>1. /\ boot' = boot /\ pc' = "idle" /\ error' = "OK" /\ ret' = "none"
      /\ running' = IF Verified(boot) THEN boot ELSE 1 - boot
      /\ size' = 0 /\ client' = "none" /\ fw' = "requested" /\ ota' = "idle"
      /\ kept' <=> kept /\ running' # boot
  BY DEF UcReboot, Reboot, PowerLoss, Restart, Reset, Session, OtaOver
<1>2. ~kept => Verified(boot)
  BY DEF Selected, Sound, AnyInv, RunningIntact
<1>3. OneAtATime' /\ ~Ended' /\ ~Restarting'
  BY <1>1 DEF OneAtATime, Ended, Restarting, FwStates
<1>4. Selected'
  BY <1>1, <1>2, <1>3 DEF Selected
<1> QED BY <1>1, <1>3, <1>4
           DEF CallsInSessions, Closed, DigestKept, Closing, HasError,
               IsRunning

-----------------------------------------------------------------------------
(* The theorems.                                                              *)

(* Every step of the clients keeps what holds of the updater and of them.     *)
LEMMA ClientsNextInv ==
  ASSUME HonestClient, ClientsInv, [UcNext]_ucVars
  PROVE  ClientsInv'
<1>1. [HonestNext]_vars
  BY SessionIsHonest DEF ClientsInv, SessionInv
<1>2. AnyInv' /\ ImageInv'
  BY <1>1, HonestAny, HonestImageInv DEF ClientsInv
<1> SUFFICES SessionInv'
  BY <1>2 DEF ClientsInv
<1>3. CASE Clients
  <2>1. CASE Handler /\ FwTurn
    <3>1. CASE CallRuns
      BY <2>1, <3>1, CallKept DEF CallRuns, FwTurn, Steps
    <3>2. CASE BeginDownload
      BY <2>1, <3>2, BeginsKept DEF ClientsInv
    <3> QED BY <2>1, <3>1, <3>2, DownloadKept DEF Handler
  <2>2. CASE ClientRuns
    BY <2>2, CallKept DEF ClientRuns, Steps
  <2> QED BY <1>3, <2>1, <2>2, HttpKept, OtaKept DEF Clients
<1>4. CASE DataArrive \/ (ServerSends /\ FwTurn)
  BY <1>4, CallKept DEF DataArrive, ServerSends, FwTurn, Steps
<1>5. CASE OtaWrite
  BY <1>5, OtaKept
<1>6. CASE UcReboot
  BY <1>6, RebootKept
<1>7. CASE HttpBegin \/ OtaBegin \/ OtaInvited \/ OtaAnswered
  BY <1>7, BeginsKept, InvitationKept DEF ClientsInv
<1>8. CASE UNCHANGED ucVars
  <2>1. UNCHANGED <<vars, fw, mine>>
    BY <1>8 DEF ucVars, fwVars
  <2>2. Sound' <=> Sound
    BY <2>1, SoundFrame DEF vars
  <2>3. SessionInv
    BY DEF ClientsInv
  <2> QED BY <2>1, <2>2, <2>3
             DEF SessionInv, OneAtATime, CallsInSessions, Closed, Selected,
                 DigestKept, Ended, Restarting, Idle, HasError, IsRunning,
                 Sketch, vars, mine
<1> QED BY <1>3, <1>4, <1>5, <1>6, <1>7, <1>8 DEF UcNext

(* Whatever the servers, the network, the flash and the resets do, a call is  *)
(* made only in the session of one client, an update that failed is closed,   *)
(* and another partition is selected only by the session that wrote it.       *)
THEOREM ClientsInvariant == HonestClient => (UcSpec => []ClientsInv)
<1> SUFFICES ASSUME HonestClient PROVE UcSpec => []ClientsInv
  OBVIOUS
<1>1. UcInit => ClientsInv
  <2> SUFFICES ASSUME UcInit PROVE ClientsInv
    OBVIOUS
  <2>1. Init
    BY DEF UcInit, FwInit
  <2>2. AnyInv /\ ImageInv
    BY <2>1, AnyInit, ImageInitInv
  <2>3. SessionInv
    BY <2>1 DEF UcInit, FwInit, Init, SessionInv, OneAtATime, FwStates,
                CallsInSessions, Closed, Selected, DigestKept, Ended,
                Restarting, HasError, IsRunning, Closing
  <2> QED BY <2>2, <2>3 DEF ClientsInv
<1>2. ClientsInv /\ [UcNext]_ucVars => ClientsInv'
  BY ClientsNextInv
<1> QED BY <1>1, <1>2, PTL DEF UcSpec

(* When a client restarts the device for a new firmware, or is about to       *)
(* report it installed, the other partition is selected and holds all of the  *)
(* image that was sent.                                                       *)
THEOREM RestartsOnlyIntoSent == HonestClient => (UcSpec => []RestartsIntoSent)
<1>1. ASSUME ClientsInv PROVE RestartsIntoSent
  <2>1. /\ Succeeded("http") \/ Succeeded("ota") \/ Restarting => Installed
        /\ fw = "restart" => client = "none"
    BY <1>1 DEF Succeeded, At, Ended, ClientsInv, SessionInv, OneAtATime,
                Restarting
  <2> QED BY <1>1, <2>1 DEF ClientsInv, SessionInv, Selected, Sound, Restarting,
                            RestartsIntoSent
<1> QED BY <1>1, ClientsInvariant, PTL

(* Whoever answered the AUTH of ArduinoOTA, what it restarts into, or reports *)
(* as installed, is what the invitation named by its digest.                  *)
THEOREM OtaInstallsInvited == HonestClient => (UcSpec => []InstallsInvited)
<1>1. ClientsInv => InstallsInvited
  BY DEF ClientsInv, SessionInv, DigestKept, InstallsInvited, Succeeded, At
<1> QED BY <1>1, ClientsInvariant, PTL

(* Between sessions another firmware than the running one is selected only    *)
(* when a session succeeded and was told not to restart, and the updater is   *)
(* free, except after HTTPUpdate met a faulty x-MD5.                          *)
THEOREM ClientsFailCleanly == HonestClient => (UcSpec => []FailuresAreClean)
<1>1. ASSUME ClientsInv, Idle
      PROVE  OnlyKept /\ (IsRunning \/ buffer => step = "faulty")
  <2>1. OnlyKept /\ pc = "idle" /\ (IsRunning => step = "faulty")
    BY <1>1, IdleFacts DEF ClientsInv
  <2>2. buffer => IsRunning
    BY <1>1, <2>1 DEF ClientsInv, AnyInv, Busy, Closing
  <2> QED BY <2>1, <2>2
<1>2. ClientsInv => FailuresAreClean
  BY <1>1 DEF FailuresAreClean
<1> QED BY <1>2, ClientsInvariant, PTL

(* The three clients together, over the byte-wise updater and with a reset at *)
(* any moment, implement AtomicUpdate.                                        *)
THEOREM ClientsAreAtomic == HonestClient => (UcSpec => ImplementsAtomicUpdate)
<1> SUFFICES ASSUME HonestClient PROVE UcSpec => ImplementsAtomicUpdate
  OBVIOUS
<1>1. UcInit => Abstract!Init
  BY InitRefines DEF UcInit, FwInit
<1>2. ClientsInv /\ [UcNext]_ucVars => [Abstract!Next]_(Abstract!vars)
  BY SessionIsHonest, StepRefines DEF ClientsInv, SessionInv
<1> QED BY <1>1, <1>2, ClientsInvariant, PTL
           DEF UcSpec, ImplementsAtomicUpdate, Abstract!Spec

=============================================================================
