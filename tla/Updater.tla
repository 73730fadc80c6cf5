------------------------------- MODULE Updater -------------------------------
(* UpdateClass, the Update library of arduino-esp32, with the flash it writes *)
(* and the reset of the chip at any moment.                                   *)
(*                                                                            *)
(* A call of the public API runs to its end before the next one starts (the   *)
(* object belongs to one task), but it is cut into one action per flash       *)
(* operation, because the flash outlives a reset between two of them.  A byte *)
(* of flash is a Cell: Blank (0xFF), the magic byte, Garbage, Torn (left by   *)
(* an erase that was cut short), or a byte of an image, which stands for "the *)
(* right byte of that image at this place".                                   *)
EXTENDS Integers, FiniteSets

CONSTANTS
    SecSize,        \* SPI_FLASH_SEC_SIZE, and the size of the buffer
    PartSectors,    \* sectors of a partition
    SizeT,          \* 2^32: size_t and uint32_t wrap here
    Images,         \* what a client may send
    ImgLen,         \* ImgLen[i]: its length
    WithMagic,      \* the images that start with ESP_IMAGE_HEADER_MAGIC
    Genuine,        \* the images whose signature and checksum verify
    HasSpiffs,      \* the partition table has a SPIFFS partition
    Surplus,        \* bytes a client hands over beyond the declared size
    EndModes,       \* the values of evenIfRemaining that clients use
    MinChunk,       \* least and greatest length of a write(data, len)
    MaxChunk,
    Tears,          \* the bytes of a sector that a failed erase may half erase
    Blank, Magic, Garbage, Torn,
    NoDigest, NoPart

PartSize  == PartSectors * SecSize
FlashSize == 3 * PartSize

Apps   == {0, 1}          \* app0 and app1
Spiffs == 2               \* the data partition behind them
Parts  == Apps \cup {Spiffs}

Addrs == 0 .. FlashSize - 1
Cell  == Images \cup {Blank, Magic, Garbage, Torn}

Commands == {"U_FLASH", "U_SPIFFS", "U_AUTH"}
Errors   == {"OK", "WRITE", "ERASE", "READ", "SPACE", "SIZE", "STREAM", "MD5",
             "MAGIC_BYTE", "ACTIVATE", "NO_PARTITION", "BAD_ARGUMENT", "ABORT"}

ASSUME SizesAssumption ==
    /\ SecSize \in Nat \ {0, 1}
    /\ PartSectors \in Nat \ {0}
    /\ SizeT \in Nat
    /\ SizeT > 3 * PartSectors * SecSize
    /\ Surplus \in Nat
    /\ MinChunk \in Nat
    /\ MaxChunk \in Nat
    /\ Tears \subseteq SUBSET (0 .. SecSize - 1)

ASSUME ImagesAssumption ==
    /\ ImgLen \in [Images -> Nat \ {0, 1}]
    /\ WithMagic \subseteq Images
    /\ Genuine \subseteq WithMagic
    /\ {Blank, Magic, Garbage, Torn} \cap Images = {}
    /\ Blank # Magic /\ Blank # Garbage /\ Magic # Garbage
    /\ Torn \notin {Blank, Magic, Garbage}
    /\ NoDigest \notin Images
    /\ NoPart \notin {0, 1, 2}
    /\ HasSpiffs \in BOOLEAN
    /\ EndModes \subseteq BOOLEAN

VARIABLES
    flash,          \* the cells, kept over a reset
    boot,           \* the app partition the OTA data selects, kept over a reset
    running,        \* the app partition this boot executes from
    error,          \* _error
    buffer,         \* _buffer is allocated
    bufferLen,      \* _bufferLen
    size,           \* _size
    progress,       \* _progress
    command,        \* _command
    partition,      \* _partition
    targetMd5,      \* _target_md5, as the image it is the digest of
    digested,       \* bytes _md5 has taken in since begin()
    img,            \* the image the source of this update delivers
    pc,             \* the call in progress, and where it stands
    flush,          \* where _writeBuffer() stands inside it
    left,           \* write(): bytes of its argument still to be copied
    ret             \* what the latest call answered

nonvolatile == <<flash, boot>>
update      == <<buffer, bufferLen, size, progress, command>>
source      == <<targetMd5, img>>
control     == <<pc, flush, left, ret>>
vars == <<flash, boot, running, error, buffer, bufferLen, size, progress,
          command, partition, targetMd5, digested, img, pc, flush, left, ret>>

-----------------------------------------------------------------------------
(* The flash and the images.                                                  *)

Base(p)  == p * PartSize
Cells(p) == {a \in Addrs : Base(p) <= a /\ a < Base(p) + PartSize}

(* Byte o of image i; behind its end a source delivers bytes of no image.     *)
Byte(i, o) == CASE o >= ImgLen[i]              -> Garbage
                [] o = 0 /\ i \in WithMagic    -> Magic
                [] OTHER                       -> i

(* NOR flash: programming only clears bits, so only a blank byte takes any    *)
(* value.                                                                     *)
Programmed(old, new) == CASE new = Blank \/ old = new -> old
                          [] old = Blank              -> new
                          [] OTHER                    -> Garbage

Sector(a) == {b \in Addrs : b \div SecSize = a \div SecSize}

(* Partition p holds all of image i.                                          *)
Holds(p, i) == /\ ImgLen[i] <= PartSize
               /\ \A o \in 0 .. ImgLen[i] - 1 : flash[Base(p) + o] = Byte(i, o)

(* What the boot loader and esp_ota_set_boot_partition() accept.              *)
Verified(p) == \E i \in Genuine : Holds(p, i)

(* spi_flash refuses, by a panic, to touch the partition that runs.           *)
Dangerous(as) == as \cap Cells(running) # {}

NextUpdatePartition == 1 - running

PartitionIsBootable(p) == flash[Base(p)] = Magic

-----------------------------------------------------------------------------
(* UpdateClass: helpers.                                                      *)

Minus(a, b) == IF a >= b THEN a - b ELSE SizeT + a - b

Remaining  == Minus(size, progress)
IsRunning  == size > 0
HasError   == error # "OK"
IsFinished == progress = size

(* Slip: _reset() forgets _size.                                              *)
ResetKeepsSize == /\ buffer' = FALSE
                  /\ bufferLen' = 0
                  /\ progress' = 0
                  /\ size' = size
                  /\ command' = "U_FLASH"

Reset == /\ buffer' = FALSE
         /\ bufferLen' = 0
         /\ progress' = 0
         /\ size' = 0
         /\ command' = "U_FLASH"

Abort(err) == Reset /\ error' = err

Return(answer) == pc' = "idle" /\ flush' = "no" /\ left' = 0 /\ ret' = answer

(* Nothing but the answer changes.                                            *)
Answer(answer) ==
    /\ Return(answer)
    /\ UNCHANGED <<nonvolatile, running, error, update, partition, source,
                   digested>>

(* The call ends in a reset of the object.                                    *)
ReturnReset(answer) ==
    /\ Reset /\ Return(answer)
    /\ UNCHANGED <<nonvolatile, running, error, partition, source, digested>>

ReturnAbort(err) ==
    /\ Abort(err) /\ Return("fail")
    /\ UNCHANGED <<nonvolatile, running, partition, source, digested>>

(* The buffer grows to n bytes and _writeBuffer() is called when need holds.  *)
Fill(n, need) ==
    /\ bufferLen' = n
    /\ flush' = IF need THEN "check" ELSE "no"
    /\ UNCHANGED <<nonvolatile, running, error, buffer, size, progress,
                   command, partition, source, digested>>

-----------------------------------------------------------------------------
(* begin(size, command)                                                       *)

Unknown == SizeT - 1      \* UPDATE_SIZE_UNKNOWN

(* Slip: esp_ota_get_running_partition() for the next update partition.       *)
PartitionForSelf(c) == CASE c = "U_FLASH" -> running
                         [] c = "U_SPIFFS" /\ HasSpiffs -> Spiffs
                         [] OTHER -> NoPart

PartitionFor(c) == CASE c = "U_FLASH" -> NextUpdatePartition
                     [] c = "U_SPIFFS" /\ HasSpiffs -> Spiffs
                     [] OTHER -> NoPart

BeginError(sz, c) ==
    CASE sz = 0                           -> "SIZE"
      [] c = "U_AUTH"                     -> "BAD_ARGUMENT"
      [] PartitionFor(c) = NoPart         -> "NO_PARTITION"
      [] sz # Unknown /\ sz > PartSize    -> "SIZE"
      [] OTHER                            -> "OK"

BeginBusy == pc = "idle" /\ IsRunning /\ Answer("fail")

BeginRejected(sz, c) ==
    /\ pc = "idle" /\ ~IsRunning
    /\ BeginError(sz, c) # "OK"
    /\ Abort(BeginError(sz, c))
    /\ partition' = IF sz = 0 \/ c = "U_AUTH" THEN partition ELSE PartitionFor(c)
    /\ Return("fail")
    /\ UNCHANGED <<nonvolatile, running, source, digested>>

BeginAccepted(i, sz, c) ==
    /\ pc = "idle" /\ ~IsRunning
    /\ BeginError(sz, c) = "OK"
    /\ error' = "OK"
    /\ partition' = PartitionFor(c)
    /\ bufferLen' = 0 /\ progress' = 0
    /\ img' = i
    /\ \/ /\ buffer' = TRUE
          /\ size' = IF sz = Unknown THEN PartSize ELSE sz
          /\ command' = c
          /\ digested' = 0
          /\ Return("ok")
       \/ /\ buffer' = FALSE                   \* malloc failed
          /\ size' = 0
          /\ command' = "U_FLASH"
          /\ UNCHANGED digested
          /\ Return("fail")
    /\ UNCHANGED <<nonvolatile, running, targetMd5>>

Begin == \/ BeginBusy
         \/ \E i \in Images, c \in Commands :
              \E sz \in {0, ImgLen[i], Unknown} :
                BeginRejected(sz, c) \/ BeginAccepted(i, sz, c)

(* setMD5(expected_md5): a text of another length than 32 is refused.         *)
SetMD5 == /\ pc = "idle"
          /\ \/ /\ targetMd5' \in Images
                /\ Return("ok")
                /\ UNCHANGED <<nonvolatile, running, error, update, partition,
                               img, digested>>
             \/ Answer("fail")

ClearError == /\ pc = "idle" /\ HasError
              /\ error' = "OK"
              /\ UNCHANGED <<nonvolatile, running, update, partition, source,
                             digested, control>>

AbortCall == pc = "idle" /\ ReturnAbort("ABORT")

-----------------------------------------------------------------------------
(* _writeBuffer(): the magic byte is checked and withheld, the sector erased, *)
(* the buffer programmed.  A failure aborts the update; end() goes on anyway. *)

Flushing(phase) == flush = phase

FlushFailed(err) ==
    /\ Abort(err)
    /\ flush' = "no" /\ left' = 0
    /\ IF pc = "end" THEN UNCHANGED <<pc, ret>>
                     ELSE pc' = "idle" /\ ret' = "fail"
    /\ UNCHANGED <<boot, running, partition, source, digested>>

FirstBytes == progress = 0 /\ command = "U_FLASH"

CheckMagic ==
    /\ Flushing("check")
    /\ IF FirstBytes /\ Byte(img, 0) # Magic
         THEN FlushFailed("MAGIC_BYTE") /\ UNCHANGED flash
         ELSE /\ flush' = "erase"
              /\ UNCHANGED <<nonvolatile, running, error, update, partition,
                             source, digested, pc, left, ret>>

Target == Base(partition) + progress      \* where the buffer goes

(* A reset of the chip: RAM is lost, the boot loader picks a partition.       *)
Restart ==
    /\ running' = IF Verified(boot) THEN boot ELSE 1 - boot
    /\ error' = "OK" /\ Reset
    /\ partition' = NoPart /\ targetMd5' = NoDigest /\ digested' = 0
    /\ pc' = "idle" /\ flush' = "no" /\ left' = 0 /\ ret' = "none"
    /\ UNCHANGED <<boot, img>>

Panic(as) == Dangerous(as) /\ Restart /\ UNCHANGED flash

EraseArea == Sector(Target)

Erased == [a \in Addrs |-> IF a \in EraseArea THEN Blank ELSE flash[a]]

(* An erase that fails, or that a reset cuts short (a failure and the reset   *)
(* behind it), has left the bytes of the sector that torn names half erased.  *)
HalfErased(torn) ==
    [a \in Addrs |-> IF a \in EraseArea /\ a % SecSize \in torn
                     THEN Torn ELSE flash[a]]

EraseSector ==
    /\ Flushing("erase")
    /\ \/ Panic(EraseArea)
       \/ /\ ~Dangerous(EraseArea) /\ Target \in Addrs
          /\ flash' = Erased
          /\ flush' = "program"
          /\ UNCHANGED <<boot, running, error, update, partition, source,
                         digested, pc, left, ret>>
       \/ /\ ~Dangerous(EraseArea)
          /\ \E torn \in Tears : flash' = HalfErased(torn)
          /\ FlushFailed("ERASE")

(* Slip: the magic byte is written with the first sector.                     *)
NothingWithheld(a) == Byte(img, a - Base(partition))

(* The byte of the buffer that goes to address a.                             *)
Withheld(a) == LET o == a - Base(partition) IN
               IF FirstBytes /\ o = 0 THEN Blank ELSE Byte(img, o)

ProgramArea(n) == {a \in Addrs : Target <= a /\ a < Target + n}

Written(n) == [a \in Addrs |-> IF a \in ProgramArea(n)
                               THEN Programmed(flash[a], Withheld(a))
                               ELSE flash[a]]

WriteFlash ==
    /\ Flushing("program")
    /\ \/ Panic(ProgramArea(bufferLen))
       \/ /\ ~Dangerous(ProgramArea(bufferLen))
          /\ Target + bufferLen <= FlashSize
          /\ flash' = Written(bufferLen)
          /\ digested' = digested + bufferLen
          /\ progress' = progress + bufferLen
          /\ bufferLen' = 0
          /\ flush' = "no"
          /\ UNCHANGED <<boot, running, error, buffer, size, command,
                         partition, source, pc, left, ret>>
       \/ /\ ~Dangerous(ProgramArea(bufferLen))
          /\ \E n \in 0 .. bufferLen : flash' = Written(n)
          /\ FlushFailed("WRITE")

WriteBuffer == CheckMagic \/ EraseSector \/ WriteFlash

-----------------------------------------------------------------------------
(* The ways to hand over data.                                                *)

Ready == pc = "idle" /\ ~HasError /\ IsRunning

(* write(), writeStream() and end() on an object that has no update running.  *)
NotReady == pc = "idle" /\ (HasError \/ ~IsRunning) /\ Answer("fail")

(* What a client may still hand over; Surplus = 0 is the client that keeps to *)
(* the size it declared.                                                      *)
Deliverable == IF progress + bufferLen <= size + Surplus
               THEN size + Surplus - progress - bufferLen ELSE 0

(* write(data, len)                                                           *)
WriteTooLong == /\ Ready
                /\ \E len \in MinChunk .. MaxChunk : len > Remaining
                /\ ReturnAbort("SPACE")

Write == /\ Ready
         /\ \E len \in MinChunk .. MaxChunk :
              len <= Remaining /\ len <= Deliverable /\ left' = len
         /\ pc' = "write" /\ ret' = "none"
         /\ UNCHANGED <<nonvolatile, running, error, update, partition, source,
                        digested, flush>>

(* Slip: the buffered bytes are counted as copied.                            *)
CopyFullSector ==
    /\ pc = "write" /\ flush = "no"
    /\ bufferLen + left > SecSize
    /\ left' = left - SecSize
    /\ Fill(SecSize, TRUE)
    /\ UNCHANGED <<pc, ret>>

CopyToSectorEnd ==
    /\ pc = "write" /\ flush = "no"
    /\ bufferLen + left > SecSize
    /\ left' = left - (SecSize - bufferLen)
    /\ Fill(SecSize, TRUE)
    /\ UNCHANGED <<pc, ret>>

CopyTail ==
    /\ pc = "write" /\ flush = "no"
    /\ bufferLen + left <= SecSize
    /\ left' = 0
    /\ pc' = "tail"
    /\ Fill(bufferLen + left, bufferLen + left = Remaining)
    /\ UNCHANGED ret

WriteReturns == pc = "tail" /\ flush = "no" /\ Answer("ok")

(* write(T &data): whatever data.available() reports, again and again.        *)
WriteAvailable == /\ Ready
                  /\ pc' = "available" /\ ret' = "none"
                  /\ UNCHANGED <<nonvolatile, running, error, update,
                                 partition, source, digested, flush, left>>

Capped(k) == IF bufferLen + k > Remaining THEN Minus(Remaining, bufferLen)
             ELSE k

ReadAvailable ==
    /\ pc = "available"
    /\ \E k \in 0 .. Deliverable :
         IF k = 0
           THEN Answer("ok")
           ELSE /\ IF bufferLen + Capped(k) > SecSize
                     THEN Fill(SecSize, TRUE)
                     ELSE Fill(bufferLen + Capped(k),
                               bufferLen + Capped(k) = Remaining)
                /\ pc' = "available2"
                /\ UNCHANGED <<left, ret>>

AvailableAgain ==
    /\ pc = "available2" /\ flush = "no"
    /\ IF Remaining = 0
         THEN Answer("ok")
         ELSE /\ pc' = "available"
              /\ UNCHANGED <<nonvolatile, running, error, update, partition,
                             source, digested, flush, left, ret>>

(* writeStream(data)                                                          *)
BytesToRead == IF SecSize - bufferLen > Remaining THEN Remaining
               ELSE SecSize - bufferLen

(* _verifyHeader(data.peek()): no byte yet, or another one.  The peek looks   *)
(* at the next byte, which is the first of the image or, in an update that    *)
(* has data already, any byte, 0xE9 too.                                      *)
NextMayBeMagic == progress + bufferLen = 0 => Byte(img, 0) = Magic

WriteStream ==
    /\ Ready
    /\ \/ command = "U_FLASH" /\ ReturnAbort("MAGIC_BYTE")
       \/ /\ command = "U_FLASH" => NextMayBeMagic
          /\ pc' = "stream" /\ ret' = "none"
          /\ UNCHANGED <<nonvolatile, running, error, update, partition,
                         source, digested, flush, left>>

StreamDone == pc = "stream" /\ flush = "no" /\ Remaining = 0 /\ Answer("ok")

StreamRead ==
    /\ pc = "stream" /\ flush = "no"
    /\ Remaining # 0
    /\ \E n \in 1 .. BytesToRead :
         /\ n <= Deliverable
         /\ Fill(bufferLen + n, bufferLen + n \in {Remaining, SecSize})
    /\ UNCHANGED <<pc, left, ret>>

(* Slip: a timeout is retried without end.                                    *)
StreamRetries == /\ pc = "stream" /\ flush = "no"
                 /\ Remaining # 0
                 /\ UNCHANGED vars

(* readBytes() delivered nothing, twice.                                      *)
StreamTimeout == /\ pc = "stream" /\ flush = "no"
                 /\ Remaining # 0
                 /\ ReturnAbort("STREAM")

-----------------------------------------------------------------------------
(* end(evenIfRemaining)                                                       *)

EndPremature == /\ Ready /\ FALSE \in EndModes
                /\ ~IsFinished
                /\ ReturnAbort("ABORT")

EndFinished == /\ Ready /\ FALSE \in EndModes
               /\ IsFinished
               /\ pc' = "verify" /\ ret' = "none"
               /\ UNCHANGED <<nonvolatile, running, error, update, partition,
                              source, digested, flush, left>>

EndAnyway == /\ Ready /\ TRUE \in EndModes
             /\ pc' = "end" /\ ret' = "none"
             /\ Fill(bufferLen, bufferLen > 0)
             /\ UNCHANGED left

EndTakesProgress == /\ pc = "end" /\ flush = "no"
                    /\ size' = progress
                    /\ pc' = "verify"
                    /\ UNCHANGED <<nonvolatile, running, error, buffer,
                                   bufferLen, progress, command, partition,
                                   source, digested, flush, left, ret>>

(* Slips: the digest is compared for its length only; it is taken of what was *)
(* received, not of what was programmed.                                      *)
DigestLongEnough == digested = ImgLen[img]

DigestOfReceived == targetMd5 = img

DigestMatches == digested = ImgLen[img] /\ targetMd5 = img

VerifyDigest ==
    /\ pc = "verify"
    /\ IF targetMd5 # NoDigest /\ ~DigestMatches
         THEN ReturnAbort("MD5")
         ELSE IF command = "U_SPIFFS"
              THEN ReturnReset("ok")
              ELSE /\ pc' = "enable"
                   /\ UNCHANGED <<nonvolatile, running, error, update,
                                  partition, source, digested, flush, left,
                                  ret>>

(* _enablePartition() and the check that its magic byte can be read back      *)
Enable ==
    /\ pc = "enable"
    /\ \/ /\ flash' = [flash EXCEPT ![Base(partition)] = Programmed(@, Magic)]
          /\ \/ /\ flash'[Base(partition)] = Magic
                /\ pc' = "activate"
                /\ UNCHANGED <<error, update, flush, left, ret>>
             \/ Abort("READ") /\ Return("fail")
       \/ UNCHANGED flash /\ Abort("READ") /\ Return("fail")
    /\ UNCHANGED <<boot, running, partition, source, digested>>

(* Slip: the OTA data is written without a look at the image.                 *)
ActivateUnchecked ==
    /\ pc = "activate"
    /\ \/ /\ partition \in Apps
          /\ boot' = partition
          /\ Reset /\ Return("ok")
          /\ UNCHANGED <<flash, running, error, partition, source, digested>>
       \/ ReturnAbort("ACTIVATE")

(* esp_ota_set_boot_partition(): only a verified app partition, and the write *)
(* of the OTA data may fail.                                                  *)
Activate ==
    /\ pc = "activate"
    /\ \/ /\ partition \in Apps /\ Verified(partition)
          /\ boot' = partition
          /\ Reset /\ Return("ok")
          /\ UNCHANGED <<flash, running, error, partition, source, digested>>
       \/ ReturnAbort("ACTIVATE")

CanRollBack == ~buffer /\ PartitionIsBootable(NextUpdatePartition)

RollBack ==
    /\ pc = "idle"
    /\ \/ /\ CanRollBack /\ Verified(NextUpdatePartition)
          /\ boot' = NextUpdatePartition
          /\ Return("ok")
          /\ UNCHANGED <<flash, running, error, update, partition, source,
                         digested>>
       \/ Answer("fail")

-----------------------------------------------------------------------------
(* A reset for any other reason, at any moment.                               *)
PowerLoss == Restart /\ UNCHANGED flash

Calls == \/ Begin \/ SetMD5 \/ ClearError \/ AbortCall \/ NotReady
         \/ WriteTooLong \/ Write \/ WriteAvailable \/ WriteStream
         \/ EndPremature \/ EndFinished \/ EndAnyway \/ RollBack

(* The steps of the call in progress; only StreamRead waits for the source.   *)
OwnSteps == \/ WriteBuffer
            \/ CopyToSectorEnd \/ CopyTail \/ WriteReturns
            \/ ReadAvailable \/ AvailableAgain
            \/ StreamDone \/ StreamTimeout
            \/ EndTakesProgress \/ VerifyDigest \/ Enable \/ Activate

Steps == OwnSteps \/ StreamRead

Next == Calls \/ Steps \/ PowerLoss

(* Factory state: one slot was flashed over the wire, the other is blank or   *)
(* was flashed too; the OTA data selects the slot that runs.                  *)
Preloaded(content) ==
    [a \in Addrs |->
       IF a >= 2 * PartSize THEN Garbage
       ELSE LET p == IF a < PartSize THEN 0 ELSE 1
                o == a - p * PartSize
            IN  IF content[p] # {}
                THEN LET i == CHOOSE j \in content[p] : TRUE
                     IN  IF o < ImgLen[i] THEN Byte(i, o) ELSE Blank
                ELSE Blank]

Fitting == {i \in Genuine : ImgLen[i] <= PartSize}

Init ==
    /\ running \in Apps /\ boot = running
    /\ \E i \in Fitting, j \in {{}} \cup {{k} : k \in Fitting} :
         flash = Preloaded([p \in Apps |-> IF p = running THEN {i} ELSE j])
    /\ error = "OK" /\ buffer = FALSE /\ bufferLen = 0 /\ size = 0
    /\ progress = 0 /\ command = "U_FLASH" /\ partition = NoPart
    /\ targetMd5 = NoDigest /\ digested = 0 /\ img \in Images
    /\ pc = "idle" /\ flush = "no" /\ left = 0 /\ ret = "none"

Spec == Init /\ [][Next]_vars

(* A call that has started keeps running.  Nothing is assumed of the source:  *)
(* what ends a wait for it is the timeout.                                    *)
FairSpec == Spec /\ WF_vars(OwnSteps)

-----------------------------------------------------------------------------
(* Properties.                                                                *)

TypeOK ==
    /\ flash \in [Addrs -> Cell]
    /\ boot \in Apps /\ running \in Apps
    /\ error \in Errors
    /\ buffer \in BOOLEAN
    /\ bufferLen \in Nat /\ size \in Nat /\ progress \in Nat
    /\ command \in {"U_FLASH", "U_SPIFFS"}
    /\ partition \in Parts \cup {NoPart}
    /\ targetMd5 \in Images \cup {NoDigest}
    /\ digested \in Nat
    /\ img \in Images
    /\ pc \in {"idle", "write", "tail", "available", "available2", "stream",
               "end", "verify", "enable", "activate"}
    /\ flush \in {"no", "check", "erase", "program"}
    /\ left \in Nat
    /\ ret \in {"none", "ok", "fail"}

(* begin() asks _size whether an update runs, canRollBack() asks _buffer:     *)
(* between two calls the two answers agree, so an update that ended, for      *)
(* whatever reason, blocks neither the next one nor a roll back.              *)
BusyAgrees == pc = "idle" => (buffer <=> IsRunning)

(* "partially written firmware will not be bootable" (Updater.cpp, before the *)
(* magic byte is withheld): an app partition that starts with the magic byte  *)
(* holds all bytes of some image, after any failure or reset.  The exception  *)
(* is an erase of its first sector that was cut short and left the magic byte *)
(* of the former image: the checksum, not the magic byte, must catch it.      *)
HalfErasedStart(p) == \E a \in Sector(Base(p)) : flash[a] = Torn

PartialNotBootable ==
    \A p \in Apps : PartitionIsBootable(p) =>
                      (\E i \in Images : Holds(p, i)) \/ HalfErasedStart(p)

(* _writeBuffer() is never about to erase or program a byte outside the       *)
(* partition begin() chose, and that partition is never the one that runs     *)
(* (which the flash driver would answer with a panic).                        *)
TouchesTargetOnly ==
    flush \in {"erase", "program"} =>
      /\ partition \in Parts \ {running}
      /\ (IF flush = "erase" THEN EraseArea ELSE ProgramArea(bufferLen))
            \subseteq Cells(partition)
      /\ Target + bufferLen <= Base(partition) + PartSize

(* The strengthening that makes TouchesTargetOnly inductive for a client that *)
(* keeps to the declared size: an update has a target that does not run, and  *)
(* what was programmed, buffered and is still to be copied fits its size.     *)
TargetChosen == IsRunning \/ pc # "idle" => partition \in Parts \ {running}

Accounting ==
    /\ bufferLen <= SecSize
    /\ IsRunning => size <= PartSize /\ progress + bufferLen + left <= size
    /\ ~IsRunning => progress = 0 /\ bufferLen = 0
    /\ pc = "end" /\ flush = "no" => bufferLen = 0
    /\ flush # "no" =>
         /\ IsRunning /\ bufferLen > 0
         /\ pc \in {"write", "tail", "available2", "stream", "end"}
    /\ pc \in {"write", "tail", "available", "available2", "stream"} => IsRunning
    /\ left > 0 <=> pc = "write"

(* The partition that runs holds a genuine image (by the flash driver's panic *)
(* and the boot loader's choice): the part of the invariant that refers to    *)
(* the external code.                                                         *)
RunningIntact == Verified(running)

Inv == TypeOK /\ TargetChosen /\ Accounting /\ RunningIntact

(* end() selects a partition for the next reset only when all bytes of the    *)
(* image of this update are in it, and they have the digest setMD5() asked    *)
(* for.                                                                       *)
SelectsWhatWasSent ==
    [][pc = "activate" /\ ret' = "ok" =>
         /\ Holds(partition, img)
         /\ targetMd5 \in {NoDigest, img}]_vars

(* A digest protects against every misuse of the calls: whatever surplus a    *)
(* client hands over, in writes of any length, and however early it calls     *)
(* end(true), also after a flush of its own that failed, an end() that was    *)
(* given a digest selects only the image with that digest, all of it.         *)
DigestProtects ==
    [][pc = "activate" /\ ret' = "ok" /\ targetMd5 # NoDigest =>
         targetMd5 = img /\ Holds(partition, img)]_vars

(* "or there is an error this will clear everything and return false"         *)
(* (Update.h, on end()): an end() that met an error does not succeed.         *)
ErrorFailsEnd ==
    [][(pc = "verify" \/ pc = "activate") /\ ret' = "ok" => ~HasError]_vars

(* Every call returns (or the chip resets): the copying loops of write() and  *)
(* writeStream() end whatever the source and the flash do.                    *)
CallsReturn == pc # "idle" ~> pc = "idle"

(* Seen from outside, the slots change as AtomicUpdate allows.                *)
Slot(p) == {i \in Genuine : Holds(p, i)}

Abstract == INSTANCE AtomicUpdate
              WITH Offers <- Images, slot <- [p \in Apps |-> Slot(p)],
                   offered <- img

ImplementsAtomicUpdate == Abstract!Spec

=============================================================================
