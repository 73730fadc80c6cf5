--------------------------- MODULE UpdateClients ---------------------------
(* The three clients of the one Update object, in the one task that runs      *)
(* setup() and loop(): the firmware download of the application, HTTPUpdate   *)
(* and ArduinoOTA.  A session of a client is a call that returns before       *)
(* another client gets its turn, but what it leaves in the object is found    *)
(* by the next one.                                                           *)
EXTENDS FirmwareUpdates

CONSTANTS
    Invitations,      \* what the invitations to ArduinoOTA say
    Password,         \* a password is set: the invitation is answered by AUTH
    Tries             \* the 3 requests for more data after a timeout

ASSUME ClientsAssumption ==
    /\ Invitations \subseteq
         [size : Nat, cmd : {"U_FLASH", "U_SPIFFS"}, md5 : Images]
    /\ Password \in BOOLEAN /\ Tries \in Nat

NoInvitation == "none"

VARIABLES
    client,           \* whose session it is, "restart" when one has called it
    step,             \* where the session stands
    ota,              \* _state of ArduinoOTA
    invited,          \* _size, _cmd and _md5 of ArduinoOTA
    tried,            \* timeouts of _runUpdate() in a row
    kept              \* a session succeeded without a restart (history)

mine == <<client, step, ota, invited, tried, kept>>
ucVars == <<fwVars, mine>>

UcInit == /\ FwInit
          /\ client = "none" /\ step = "none"
          /\ ota = "idle" /\ invited = NoInvitation /\ tried = 0
          /\ kept = FALSE

-----------------------------------------------------------------------------
Idle == client = "none" /\ fw \in {"requested", "stopped"}

At(c, s) == client = c /\ step = s /\ pc = "idle"

Session(c, s) == client' = c /\ step' = s

(* begin() has answered: the session goes on, or ends at once and leaves an   *)
(* update that was open before as it is.                                      *)
Begun(c) == IF ret' = "ok" THEN Session(c, "digest")
                           ELSE UNCHANGED <<client, step>>

(* The updater works on the call of a session.                                *)
ClientRuns == /\ client \in {"http", "ota"} /\ OwnSteps
              /\ UNCHANGED <<fw, mine>>

DataArrive == /\ client = "http" /\ StreamRead
              /\ UNCHANGED <<fw, mine>>

-----------------------------------------------------------------------------
(* HTTPUpdate: handleUpdate() has got an answer with code 200 that fits the   *)
(* partition and, for a sketch, begins with the magic byte.  Every other      *)
(* answer ends it without a call of the updater.                              *)
HttpBegin ==
    /\ Idle
    /\ \E i \in Images, len \in Lengths, c \in {"U_FLASH", "U_SPIFFS"} :
         /\ PartitionFor(c) # NoPart /\ len <= PartSize
         /\ c = "U_FLASH" => i \in WithMagic
         /\ BeginBusy \/ BeginAccepted(i, len, c)
    /\ Begun("http")
    /\ UNCHANGED <<fw, ota, invited, tried, kept>>

(* The header x-MD5 is missing, names a digest, or holds a text that is none: *)
(* then runUpdate() returns and leaves the update open.                       *)
HttpDigest ==
    /\ At("http", "digest")
    /\ \/ UNCHANGED vars /\ Session("http", "stream")
       \/ /\ SetMD5
          /\ IF ret' = "ok" THEN Session("http", "stream")
                            ELSE Session("none", "faulty")
    /\ UNCHANGED <<fw, ota, invited, tried, kept>>

HttpStream ==
    /\ At("http", "stream") /\ WriteStream
    /\ Session("http", "written")
    /\ UNCHANGED <<fw, ota, invited, tried, kept>>

HttpWritten ==
    /\ At("http", "written")
    /\ IF ret = "ok" THEN EndFinished /\ Session("http", "ended")
                     ELSE UNCHANGED vars /\ Session("none", "none")
    /\ UNCHANGED <<fw, ota, invited, tried, kept>>

(* ESP.restart() after a sketch, unless rebootOnUpdate(false) was called;      *)
(* nothing after a file system.                                               *)
HttpEnded ==
    /\ At("http", "ended")
    /\ \/ ret # "ok" /\ Session("none", "none") /\ UNCHANGED kept
       \/ /\ ret = "ok" /\ partition = Spiffs
          /\ Session("none", "none") /\ UNCHANGED kept
       \/ /\ ret = "ok" /\ partition # Spiffs
          /\ Session("restart", "http") /\ UNCHANGED kept
       \/ /\ ret = "ok" /\ partition # Spiffs
          /\ Session("none", "none") /\ kept' = TRUE
    /\ UNCHANGED <<vars, fw, ota, invited, tried>>

-----------------------------------------------------------------------------
(* ArduinoOTA: handle() takes one packet.  Other packets than the one that is *)
(* awaited change nothing, or end the wait for the answer.                    *)
OtaInvited ==
    /\ Idle /\ ota = "idle"
    /\ invited' \in Invitations
    /\ ota' = IF Password THEN "waitauth" ELSE "run"
    /\ UNCHANGED <<fwVars, client, step, tried, kept>>

OtaAnswered ==
    /\ Idle /\ ota = "waitauth"
    /\ ota' \in {"idle", "run"}
    /\ invited' = IF ota' = "run" THEN invited ELSE NoInvitation
    /\ UNCHANGED <<fwVars, client, step, tried, kept>>

OtaOver == ota' = "idle" /\ invited' = NoInvitation /\ tried' = 0

(* _runUpdate(): the data come from whoever has answered, i is his image.     *)
OtaBegin ==
    /\ Idle /\ ota = "run"
    /\ \/ BeginBusy \/ BeginRejected(invited.size, invited.cmd)
       \/ \E i \in Images : BeginAccepted(i, invited.size, invited.cmd)
    /\ Begun("ota")
    /\ IF ret' = "ok" THEN UNCHANGED <<ota, invited, tried>> ELSE OtaOver
    /\ UNCHANGED <<fw, kept>>

(* Slip: the digest of the invitation is not set.                             *)
OtaDigestLeft ==
    /\ At("ota", "digest")
    /\ UNCHANGED vars
    /\ \E s \in {"receive", "end"} : Session("ota", s)
    /\ UNCHANGED <<fw, ota, invited, tried, kept>>

(* setMD5(), then connect(): its failure goes on to end()                     *)
OtaDigest ==
    /\ At("ota", "digest")
    /\ SetMD5 /\ ret' = "ok" /\ targetMd5' = invited.md5
    /\ \E s \in {"receive", "end"} : Session("ota", s)
    /\ UNCHANGED <<fw, ota, invited, tried, kept>>

(* What has arrived, up to 1460 bytes of it, is written.                      *)
OtaWrite ==
    /\ At("ota", "receive") /\ ~IsFinished
    /\ Write \/ WriteTooLong
    /\ tried' = 0
    /\ UNCHANGED <<fw, client, step, ota, invited, kept>>

Retried == progress + bufferLen > 0 /\ tried < Tries

OtaRetry ==
    /\ At("ota", "receive") /\ ~IsFinished /\ Retried
    /\ tried' = tried + 1
    /\ UNCHANGED <<fwVars, client, step, ota, invited, kept>>

(* Slip: the update is left as it is.                                         *)
OtaTimeoutLeaves ==
    /\ At("ota", "receive") /\ ~IsFinished /\ ~Retried
    /\ Session("none", "none") /\ OtaOver
    /\ UNCHANGED <<fwVars, kept>>

OtaTimeout ==
    /\ At("ota", "receive") /\ ~IsFinished /\ ~Retried
    /\ AbortCall
    /\ Session("none", "none") /\ OtaOver
    /\ UNCHANGED <<fw, kept>>

(* All bytes are there, a write has failed (which resets the object, so that  *)
(* isFinished() holds), or the connection is gone.                            *)
OtaReceived ==
    /\ At("ota", "receive")
    /\ Session("ota", "end")
    /\ UNCHANGED <<fwVars, ota, invited, tried, kept>>

OtaEnd ==
    /\ At("ota", "end")
    /\ EndFinished \/ EndPremature \/ NotReady
    /\ Session("ota", "ended")
    /\ UNCHANGED <<fw, ota, invited, tried, kept>>

(* A restart after whatever was written, the file system too, unless          *)
(* setRebootOnSuccess(false) was called: handle() then sets OTA_IDLE.         *)
OtaEnded ==
    /\ At("ota", "ended")
    /\ \/ ret # "ok" /\ Session("none", "none") /\ OtaOver /\ UNCHANGED kept
       \/ /\ ret = "ok"
          /\ Session("restart", "ota") /\ UNCHANGED <<ota, invited, tried, kept>>
       \/ /\ ret = "ok"
          /\ Session("none", "none") /\ OtaOver
          /\ kept' = (kept \/ partition # Spiffs)
    /\ UNCHANGED fwVars

-----------------------------------------------------------------------------
(* The boot loader may have refused the partition that was kept.              *)
UcReboot == /\ Reboot /\ Session("none", "none") /\ OtaOver
            /\ kept' = (kept /\ running' # boot)

FwTurn == client = "none" /\ UNCHANGED mine

Clients == \/ Handler /\ FwTurn
           \/ ClientRuns
           \/ HttpDigest \/ HttpStream \/ HttpWritten \/ HttpEnded
           \/ OtaDigest \/ OtaRetry \/ OtaTimeout \/ OtaReceived
           \/ OtaEnd \/ OtaEnded

UcNext == \/ Clients \/ DataArrive \/ OtaWrite \/ UcReboot
          \/ ServerSends /\ FwTurn
          \/ HttpBegin \/ OtaInvited \/ OtaAnswered \/ OtaBegin

UcSpec == UcInit /\ [][UcNext]_ucVars

(* A session that has begun runs on; nothing is assumed of the network.       *)
UcFairSpec == UcSpec /\ WF_ucVars(Clients)

-----------------------------------------------------------------------------
(* Properties                                                                 *)

(* Whoever restarts the device for a new firmware, or is about to report it   *)
(* installed, has selected the other partition, and that holds all of the     *)
(* image that was sent.                                                       *)
Succeeded(c) == At(c, "ended") /\ ret = "ok"

RestartsIntoSent ==
    \/ fw = "restart"
    \/ client = "restart" /\ partition # Spiffs
    \/ (Succeeded("http") \/ Succeeded("ota")) /\ partition # Spiffs
    => boot # running /\ Holds(boot, img)

(* ArduinoOTA connects to whoever answered its AUTH, which need not be the    *)
(* one who invited: the firmware it reports as installed, or restarts into,   *)
(* is the invited one all the same, and so are the bytes of a file system.    *)
InstallsInvited ==
    (client = "restart" /\ step = "ota") \/ Succeeded("ota")
      => img = invited.md5

(* Between sessions another firmware than the one that runs is selected only  *)
(* when a session installed it and was told not to restart (rebootOnUpdate(), *)
(* setRebootOnSuccess()), and the updater is free for the next client.  The   *)
(* exception is HTTPUpdate with a faulty x-MD5: its update stays open, and    *)
(* refuses all others, until a reset.                                         *)
FailuresAreClean ==
    Idle => /\ boot # running => kept
            /\ IsRunning \/ buffer => step = "faulty"

(* Every session comes to its end: it fails or restarts the device.           *)
SessionsEnd == ~Idle ~> Idle \/ client = "restart" \/ fw = "restart"

=============================================================================
