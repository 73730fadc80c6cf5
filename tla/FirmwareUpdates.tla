-------------------------- MODULE FirmwareUpdates --------------------------
(* main/src/FirmwareUpdates.cpp over UpdateClass: after every boot setup()    *)
(* asks the server for a firmware; processFirmwareUpdateResponse() streams    *)
(* the response into the updater, ends the update whatever came of it, and    *)
(* restarts when end() succeeded.  The length it declares is the one the      *)
(* response header names, which a wrong or missing header makes any number.   *)
EXTENDS Updater

CONSTANTS
    MinLength,        \* the 500000 bytes below which a response is refused
    Lengths           \* the content lengths that responses declare

ASSUME LengthsAssumption == MinLength \in Nat /\ Lengths \subseteq Nat

VARIABLE fw           \* where the download of this boot stands

fwVars == <<vars, fw>>

FwInit == Init /\ fw = "requested"

-----------------------------------------------------------------------------
(* The request fails, or the response is too short or no octet stream:        *)
(* HandleFatalError() logs it, and nothing is tried again before a reset.     *)
InvalidResponse ==
    /\ fw = "requested"
    /\ fw' = "stopped"
    /\ UNCHANGED vars

(* Update.begin(headerData.contentLength); its failure ends the handler.      *)
BeginDownload ==
    /\ fw = "requested"
    /\ \E i \in Images, len \in Lengths :
         /\ len >= MinLength
         /\ \/ BeginBusy \/ BeginRejected(len, "U_FLASH")
            \/ BeginAccepted(i, len, "U_FLASH")
    /\ fw' = IF ret' = "ok" THEN "begun" ELSE "stopped"

CallWriteStream == fw = "begun" /\ WriteStream /\ fw' = "streaming"

(* writeStream() and end() run; nothing is assumed of the network.            *)
CallRuns ==
    /\ fw \in {"streaming", "ending"}
    /\ OwnSteps
    /\ UNCHANGED fw

(* The server sends the image and not a byte more.                            *)
ServerSends ==
    /\ fw = "streaming"
    /\ StreamRead
    /\ progress + bufferLen' <= ImgLen[img]
    /\ UNCHANGED fw

CallEnd ==
    /\ fw = "streaming" /\ pc = "idle"
    /\ EndFinished \/ NotReady
    /\ fw' = "ending"

(* Slip: the answer of end() is dropped.                                      *)
AfterEndUnasked ==
    /\ fw = "ending" /\ pc = "idle"
    /\ fw' = IF IsFinished THEN "restart" ELSE "stopped"
    /\ UNCHANGED vars

(* Update.end() and Update.isFinished(), which a reset object answers with    *)
(* yes.                                                                       *)
AfterEnd ==
    /\ fw = "ending" /\ pc = "idle"
    /\ fw' = IF ret = "ok" /\ IsFinished THEN "restart" ELSE "stopped"
    /\ UNCHANGED vars

(* ESP.restart() after a delay, or a reset for any other reason               *)
Reboot == PowerLoss /\ fw' = "requested"

Handler == \/ InvalidResponse \/ BeginDownload \/ CallWriteStream
           \/ CallRuns \/ CallEnd \/ AfterEnd

=============================================================================
