----------------------------- MODULE OtaUpdate -----------------------------
(***************************************************************************)
(* A firmware update over the air, from the first request of the client to *)
(* the first instruction of the new image: the FOTA server of the          *)
(* application (examples/ble/ble_fota_server/fota_svc_server.c), the       *)
(* settings it leaves for the next boot (module/settings/ota_settings.c)   *)
(* and the boot loader that acts on them (boot_ram_start, fw_copy).        *)
(*                                                                         *)
(* A write request or command of the client runs its whole handler; each   *)
(* erase or program of the flash is a step of its own, and the power may   *)
(* fail between any two of them or, where it can matter, within one.       *)
(***************************************************************************)
EXTENDS InflashSettings

CONSTANTS Base, Spare,    \* two areas of the flash an image can run from;
                          \* get_app_image_base() is Base
          NSector, NPage, \* sectors of an image, pages of a sector
          Kind,           \* the kinds of FINISH the client uses
          UpdateLimit,    \* bound: updates begun
          LossLimit       \* bound: power losses

ASSUME LayoutAssumption ==
  /\ PageWords = 64  \* the offsets of ota_settings.c fill one page
  /\ NSector \in Nat \ {0} /\ NPage \in Nat \ {0} /\ Base # Spare
ASSUME KindAssumption ==
  Kind \subseteq {"copy", "copy_erase", "boot", "boot_erase"}

Area == {Base, Spare}
Sector == 0 .. NSector - 1
PageOf == 0 .. NPage - 1
NoArea == "none"
Blank == 0      \* an erased page of the firmware
Torn == -1      \* one programmed in part
FirstVersion == 1

(* ota_settings.c, in words *)
erase_req_info == SettingInfo(0, 4, 1)
boot_addr_info == SettingInfo(16, 16, 1)
copy_info_info == SettingInfo(32, 32, 3)

VARIABLES image,   \* the firmware areas: for each sector, the version each
                   \* of its pages belongs to
          page,    \* the flash page of the settings
          pc,      \* what runs: the application, its FINISH handler, or a
                   \* stage of the boot loader
          running, \* the area the application was last started from
          todo,    \* settings_set calls FINISH has still to make
          slot,    \* where the current one is going to write
          copy, i, \* fw_copy: its parameters, the page it is at
          server,  \* fotas_env
          client,  \* the phase the client is in, the sector it sends
          version, \* the newest version the client has sent
          losses,  \* history: power losses so far
          allowed  \* history: the versions a start may find

vars == <<image, page, pc, running, todo, slot, copy, i, server, client,
          version, losses, allowed>>
bootVars == <<todo, slot, copy, i>>
airVars == <<server, client, version>>

NoCopy == [src |-> NoArea, dst |-> NoArea, size |-> 0]
ServerReset == [state |-> "idle", base |-> NoArea, sector |-> 0, ack |-> {}]
ClientIdle == [phase |-> "idle", sector |-> 0]

BlankSector == [p \in PageOf |-> Blank]

VersionOf(a) == image[a][0][0]

Whole(a) == /\ VersionOf(a) \notin {Blank, Torn}
            /\ \A s \in Sector, p \in PageOf : image[a][s][p] = VersionOf(a)

Init == /\ image = [a \in Area |-> [s \in Sector |->
                      [p \in PageOf |-> IF a = Base THEN FirstVersion ELSE Blank]]]
        /\ page = ErasedPage
        /\ pc = "boot" /\ running = NoArea
        /\ todo = <<>> /\ slot = NoSlot /\ copy = NoCopy /\ i = 0
        /\ server = ServerReset /\ client = ClientIdle
        /\ version = FirstVersion
        /\ losses = 0 /\ allowed = {FirstVersion}

-----------------------------------------------------------------------------
(* The transfer.  The client sends what it likes of the sector it is at,   *)
(* as often as it likes (a segment is one page here), and goes on to the   *)
(* next sector when the acknowledgements it reads are complete.            *)

(* FOTAS_START_REQ; the server stays busy until a FINISH or a reset.       *)
StartReq(a) ==
  /\ pc = "app"
  /\ client.phase = "idle"
  /\ version < UpdateLimit + FirstVersion
  /\ a # running
  /\ server.state = "idle"
  /\ server' = [server EXCEPT !.state = "busy", !.base = a]
  /\ client' = [phase |-> "send", sector |-> 0]
  /\ version' = version + 1
  /\ pc' = "clean" /\ i' = 0
  /\ UNCHANGED <<image, page, running, todo, slot, copy, losses, allowed>>

(* The signature does not match the digest: nothing is erased, and the     *)
(* server is as busy as if it did.                                         *)
StartRejected(a) ==
  /\ pc = "app"
  /\ client.phase = "idle"
  /\ a # running
  /\ server.state = "idle"
  /\ server' = [server EXCEPT !.state = "busy", !.base = a]
  /\ client' = [phase |-> "rejected", sector |-> 0]
  /\ UNCHANGED <<image, page, pc, running, bootVars, version, losses, allowed>>

(* fotas_flash_cleanup, one sector at a time *)
CleanSector ==
  /\ pc = "clean"
  /\ image' = [image EXCEPT ![server.base][i] = BlankSector]
  /\ IF i + 1 = NSector THEN pc' = "app" /\ i' = 0
                        ELSE pc' = pc /\ i' = i + 1
  /\ UNCHANGED <<page, running, todo, slot, copy, airVars, losses, allowed>>

(* mutant: the acknowledgements of the last sector stay *)
NewSectorKeepsAck ==
  /\ pc = "app"
  /\ client.phase = "send"
  /\ client.sector < NSector
  /\ server' = [server EXCEPT !.sector = client.sector]
  /\ client' = [client EXCEPT !.phase = "segments"]
  /\ UNCHANGED <<image, page, pc, running, bootVars, version, losses, allowed>>

(* FOTAS_NEW_SECTOR_CMD *)
NewSector ==
  /\ pc = "app"
  /\ client.phase = "send"
  /\ client.sector < NSector
  /\ server' = [server EXCEPT !.sector = client.sector, !.ack = {}]
  /\ client' = [client EXCEPT !.phase = "segments"]
  /\ UNCHANGED <<image, page, pc, running, bootVars, version, losses, allowed>>

(* A write to the data characteristic: program, then acknowledge. *)
Segment(p) ==
  /\ pc = "app"
  /\ client.phase = "segments"
  /\ image' = [image EXCEPT ![server.base][server.sector][p] =
                 IF @ \in {Blank, version} THEN version ELSE Torn]
  /\ server' = [server EXCEPT !.ack = @ \cup {p}]
  /\ UNCHANGED <<page, pc, running, bootVars, client, version, losses, allowed>>

(* A read of the data characteristic finds every bit set. *)
SectorAcked ==
  /\ pc = "app"
  /\ client.phase = "segments"
  /\ server.ack = PageOf
  /\ client' = [phase |-> "send", sector |-> client.sector + 1]
  /\ UNCHANGED <<image, page, pc, running, bootVars, server, version, losses, allowed>>

(* FOTAS_INTEGRITY_CHECK_REQ: the digest of what is in the flash is        *)
(* computed, but the answer goes through fotas_env.finish_ind, which       *)
(* nothing sets: it is what that write and the read behind it yield.  (If  *)
(* they fault instead, that is a reset at this place.)                     *)
IntegrityCheck ==
  /\ pc = "app"
  /\ client.phase = "send"
  /\ client.sector = NSector
  /\ \E answer \in {"verified", "failed"} : client' = [client EXCEPT !.phase = answer]
  /\ UNCHANGED <<image, page, pc, running, bootVars, server, version, losses, allowed>>

(* FOTAS_FINISH_CMD without the status and reboot bits. *)
Abandon ==
  /\ pc = "app"
  /\ client.phase \notin {"idle"}
  /\ client' = ClientIdle
  /\ server' = [server EXCEPT !.state = "idle"]
  /\ UNCHANGED <<image, page, pc, running, bootVars, version, losses, allowed>>

(* The link is lost: the server is not told. *)
Disconnect ==
  /\ pc = "app"
  /\ client.phase # "idle"
  /\ client' = ClientIdle
  /\ UNCHANGED <<image, page, pc, running, bootVars, server, version, losses, allowed>>

(* What FINISH asks for: the new image is to run where it is, or is to be  *)
(* copied over Base first; either way the settings may be erased at boot.  *)
(* An erase request takes the boot address with it, so it is used with an  *)
(* image that runs from Base.                                              *)
FinishSettings(kind, a) ==
  (IF kind \in {"boot", "boot_erase"} THEN << [info |-> boot_addr_info, data |-> <<a>>] >>
   ELSE <<>>)
  \o (IF kind \in {"boot_erase", "copy_erase"}
      THEN << [info |-> erase_req_info, data |-> <<"ERAS">>] >> ELSE <<>>)
  \o (IF kind \in {"copy", "copy_erase"}
      THEN << [info |-> copy_info_info, data |-> <<a, Base, NSector * NPage>>] >>
      ELSE <<>>)

(* FOTAS_FINISH_CMD with them *)
Finish(kind) ==
  /\ pc = "app"
  /\ client.phase = "verified"
  /\ kind \in {"copy", "copy_erase"} => server.base = Spare
  /\ kind = "boot_erase" => server.base = Base
  /\ todo' = FinishSettings(kind, server.base)
  /\ pc' = "set"
  /\ allowed' = allowed \cup {version}
  /\ UNCHANGED <<image, page, running, slot, copy, i, airVars, losses>>

-----------------------------------------------------------------------------
(* settings_set, its first half: the slot to write is the one its search   *)
(* stopped at, or the one behind it when that holds the value so far,      *)
(* which is made invalid.                                                  *)

(* mutant: the value so far is not made invalid *)
SetFindKeepsOld ==
  /\ pc = "set" /\ slot = NoSlot /\ todo # <<>>
  /\ LET info == Head(todo).info
         old  == settings_find(page, info)
     IN  /\ IF old.at = NoSlot THEN pc' = "assert" ELSE pc' = pc
         /\ slot' = IF old.found THEN FlagAt(info, old.at) + 1 ELSE old.at
  /\ UNCHANGED <<page, image, running, todo, copy, i, airVars, losses, allowed>>

SetFind ==
  /\ pc = "set" /\ slot = NoSlot /\ todo # <<>>
  /\ LET info == Head(todo).info
         old  == settings_find(page, info)
     IN  /\ IF old.at = NoSlot THEN pc' = "assert" ELSE pc' = pc  \* LS_ASSERT(offset)
         /\ page' = MadeInvalid(page, info)
         /\ slot' = IF old.found THEN FlagAt(info, old.at) + 1 ELSE old.at
  /\ UNCHANGED <<image, running, todo, copy, i, airVars, losses, allowed>>

(* Its second half: inversion_data_write. *)
SetWrite ==
  /\ pc = "set" /\ slot # NoSlot
  /\ page' = Programmed(page, slot, inversion_data(Head(todo).data))
  /\ slot' = NoSlot
  /\ todo' = Tail(todo)
  /\ UNCHANGED <<image, pc, running, copy, i, airVars, losses, allowed>>

Reboot == /\ pc' = "boot"
          /\ server' = ServerReset /\ client' = ClientIdle
          /\ todo' = <<>> /\ slot' = NoSlot /\ copy' = NoCopy /\ i' = 0
          /\ UNCHANGED <<running, version>>

(* platform_reset at the end of FINISH: from here on the new version is    *)
(* the only one a start may find.                                          *)
Reset ==
  /\ pc = "set" /\ todo = <<>>
  /\ Reboot
  /\ allowed' = {version}
  /\ UNCHANGED <<image, page, losses>>

-----------------------------------------------------------------------------
(* boot_ram_start *)

CopyRequest == settings_get(page, copy_info_info)

BootCopy ==
  /\ pc = "boot"
  /\ IF IsSet(page, copy_info_info)
     THEN /\ copy' = [src |-> CopyRequest[1], dst |-> CopyRequest[2], size |-> CopyRequest[3]]
          /\ pc' = "erase"
     ELSE copy' = copy /\ pc' = "start"
  /\ i' = 0
  /\ UNCHANGED <<image, page, running, todo, slot, airVars, losses, allowed>>

(* fw_copy: a sector is erased when its first page is due. *)
CopyErase ==
  /\ pc = "erase"
  /\ image' = IF i % NPage = 0 THEN [image EXCEPT ![copy.dst][i \div NPage] = BlankSector]
                               ELSE image
  /\ pc' = "copy"
  /\ UNCHANGED <<page, running, bootVars, airVars, losses, allowed>>

(* mutant: the last page of the image is left out *)
CopyPageFewer ==
  /\ pc = "copy"
  /\ image' = [image EXCEPT ![copy.dst][i \div NPage][i % NPage] =
                 image[copy.src][i \div NPage][i % NPage]]
  /\ i' = i + 1
  /\ pc' = IF i + 2 = copy.size THEN "done" ELSE "erase"
  /\ UNCHANGED <<page, running, todo, slot, copy, airVars, losses, allowed>>

(* mutant: one page more than the image has *)
CopyPageMore ==
  /\ pc = "copy"
  /\ image' = [image EXCEPT ![copy.dst][i \div NPage][i % NPage] =
                 image[copy.src][i \div NPage][i % NPage]]
  /\ i' = i + 1
  /\ pc' = IF i = copy.size THEN "done" ELSE "erase"
  /\ UNCHANGED <<page, running, todo, slot, copy, airVars, losses, allowed>>

CopyPage ==
  /\ pc = "copy"
  /\ image' = [image EXCEPT ![copy.dst][i \div NPage][i % NPage] =
                 image[copy.src][i \div NPage][i % NPage]]
  /\ i' = i + 1
  /\ pc' = IF i + 1 = copy.size THEN "done" ELSE "erase"
  /\ UNCHANGED <<page, running, todo, slot, copy, airVars, losses, allowed>>

(* mutant: the copy information stays, and the boot loader starts over *)
CopyDoneRepeats ==
  /\ pc = "done"
  /\ pc' = "boot"
  /\ UNCHANGED <<image, page, running, bootVars, airVars, losses, allowed>>

(* ota_copy_done_set *)
CopyDone ==
  /\ pc = "done"
  /\ page' = MadeInvalid(page, copy_info_info)
  /\ pc' = "start"
  /\ copy' = NoCopy /\ i' = 0
  /\ UNCHANGED <<image, running, todo, slot, airVars, losses, allowed>>

(* ota_boot_addr_get, then the erase request; boot_app. *)
BootAddress == IF IsSet(page, boot_addr_info) THEN settings_get(page, boot_addr_info)[1]
                                              ELSE Base

BootApp ==
  /\ pc = "start"
  /\ running' = BootAddress
  /\ page' = IF IsSet(page, erase_req_info) THEN ErasedPage ELSE page
  /\ pc' = "app"
  /\ allowed' = {VersionOf(BootAddress)}
  /\ UNCHANGED <<image, bootVars, airVars, losses>>

-----------------------------------------------------------------------------
PowerFails == losses < LossLimit /\ losses' = losses + 1 /\ Reboot /\ UNCHANGED allowed

PowerLoss == PowerFails /\ UNCHANGED <<image, page>>

(* A setting was written in part. *)
PowerLossInSet ==
  /\ PowerFails
  /\ pc = "set" /\ slot # NoSlot
  /\ LET words == inversion_data(Head(todo).data)
     IN  \E k \in 1 .. Len(words) - 1 :
           page' = Programmed(page, slot, SubSeq(words, 1, k))
  /\ UNCHANGED image

(* A page of the firmware was copied in part. *)
PowerLossInCopy ==
  /\ PowerFails
  /\ pc = "copy"
  /\ image' = [image EXCEPT ![copy.dst][i \div NPage][i % NPage] = Torn]
  /\ UNCHANGED page

Transfer == \/ \E a \in Area : StartReq(a) \/ StartRejected(a)
            \/ NewSector
            \/ \E p \in PageOf : Segment(p)
            \/ SectorAcked \/ IntegrityCheck \/ Abandon \/ Disconnect
            \/ \E k \in Kind : Finish(k)

Firmware == CleanSector \/ SetFind \/ SetWrite \/ Reset
            \/ BootCopy \/ CopyErase \/ CopyPage \/ CopyDone \/ BootApp

Next == Transfer \/ Firmware \/ PowerLoss \/ PowerLossInSet \/ PowerLossInCopy

Spec == Init /\ [][Next]_vars

(* The handler and the boot loader run on; nothing is asked of the client. *)
FairSpec == Spec /\ WF_vars(Firmware)
-----------------------------------------------------------------------------
(* What the variables range over: nothing but what the client sent is in   *)
(* the flash, and a copy under way is at a page of its image.              *)
TypeOK ==
  /\ pc \in {"app", "clean", "set", "boot", "erase", "copy", "done", "start", "assert"}
  /\ image \in [Area -> [Sector -> [PageOf -> {Torn, Blank} \cup FirstVersion .. version]]]
  /\ i \in 0 .. NSector * NPage
  /\ pc \in {"erase", "copy"} => i < copy.size /\ copy.size = NSector * NPage
  /\ server.ack \subseteq PageOf

(* boot_app never jumps into a half-written image: wherever the power      *)
(* fails, the area the application is started from is of one version.      *)
BootsWhole == pc = "app" => Whole(running)

(* A start finds the version that ran before or, once FINISH has begun,    *)
(* the new one; and once FINISH has reset the chip only the new one, even  *)
(* if the power fails again during the copy.                               *)
BootsAllowed ==
  [][pc = "start" /\ pc' = "app" => VersionOf(running') \in allowed]_vars

(* An acknowledged page is in the flash: the client may move on, and a     *)
(* repeated segment does no harm.                                          *)
AckMeansStored ==
  client.phase = "segments" =>
    \A p \in server.ack : image[server.base][server.sector][p] = version

(* settings_set finds a slot: LS_ASSERT(offset). *)
SlotFound == pc # "assert"

(* Whatever a power loss left, the boot loader starts an application.      *)
BootEnds == pc # "app" ~> pc = "app"
=============================================================================
