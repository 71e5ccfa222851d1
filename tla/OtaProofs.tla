----------------------------- MODULE OtaProofs -----------------------------
(***************************************************************************)
(* What the FOTA server has acknowledged is in the flash, and the boot     *)
(* loader never starts half an image, for images of any number of sectors  *)
(* and pages, any number of updates and power losses, and also when the    *)
(* slots of the settings are used up.                                      *)
(*                                                                         *)
(* AckMeansStored is not inductive: a segment is programmed over what the  *)
(* page holds, so it can only be acknowledged rightly if                   *)
(* fotas_flash_cleanup has been over every sector before, and nothing else *)
(* has written to the area since.                                          *)
(*                                                                         *)
(* BootsWhole rests on what the settings say when the power fails.  A      *)
(* setting has at most one valid slot, and it is the one that              *)
(* _settings_get stops at (SettingSound); the last slots of the boot       *)
(* address reach into the copy information, but never make one valid.      *)
(* Then: while the application runs there is no copy to make, and the boot *)
(* address is the area it runs from; from FINISH to the reset both areas   *)
(* are whole; and while a copy is under way its source is whole and the    *)
(* request for it stays.                                                   *)
(***************************************************************************)
EXTENDS OtaUpdate, SequenceTheorems, TLAPS

Phase == {"idle", "rejected", "send", "segments", "verified", "failed"}

(* An area is an array of sectors and a sector an array of pages; what the *)
(* pages hold is left open.                                                *)
Arrays == /\ DOMAIN image = Area
          /\ \A a \in Area : /\ DOMAIN image[a] = Sector
                             /\ \A s \in Sector : DOMAIN image[a][s] = PageOf

ServerOK == /\ server \in [state : {"idle", "busy"}, base : Area \cup {NoArea},
                           sector : Sector, ack : SUBSET PageOf]
            /\ client \in [phase : Phase, sector : Nat]
            /\ version \in Nat \ {0}

Sending == client.phase \in {"send", "segments"}

(* While the client sends, only the server runs, and it has an area. *)
SendingInv == /\ Sending => pc \in {"app", "clean"} /\ server.base \in Area
              /\ pc = "clean" => client.phase = "send"

(* The clean-up has been over the sectors before the one it is at. *)
CleanInv == pc = "clean" =>
              /\ i \in Sector /\ client.sector = 0
              /\ \A s \in Sector, p \in PageOf : s < i => image[server.base][s][p] = Blank

(* And after it, what is not of the new version is still erased. *)
FreshInv == Sending /\ pc = "app" =>
              \A s \in Sector, p \in PageOf :
                image[server.base][s][p] \in {Blank, version}

(* The sectors the client is done with are stored.                         *)
StoredInv == Sending /\ pc = "app" =>
               /\ client.phase = "segments" => server.sector = client.sector
               /\ \A s \in Sector, p \in PageOf :
                    s < client.sector => image[server.base][s][p] = version

TransferInv == /\ Arrays
               /\ ServerOK
               /\ SendingInv
               /\ CleanInv
               /\ FreshInv
               /\ StoredInv
               /\ AckMeansStored

-----------------------------------------------------------------------------
(* Where nothing is being sent afterwards, only the shape has to be kept. *)
LEMMA NotSending ==
  ASSUME Arrays', ServerOK', ~Sending', pc' # "clean"
  PROVE  TransferInv'
BY DEF TransferInv, SendingInv, CleanInv, FreshInv, StoredInv, AckMeansStored, Sending

LEMMA InitTransferInv == Init => TransferInv
BY LayoutAssumption
   DEF Init, FirstVersion, TransferInv, Arrays, ServerOK, SendingInv, CleanInv, FreshInv, StoredInv,
       AckMeansStored, Sending, Phase, ServerReset, ClientIdle, Sector, PageOf, Area

LEMMA CleanSectorInv == TransferInv /\ CleanSector => TransferInv'
<1> SUFFICES ASSUME TransferInv, CleanSector PROVE TransferInv'
  OBVIOUS
<1> USE DEF TransferInv, Arrays, ServerOK, SendingInv, Sending
<1>1. /\ pc = "clean"
      /\ image' = [image EXCEPT ![server.base][i] = BlankSector]
      /\ UNCHANGED <<airVars>>
      /\ client.phase = "send" /\ server.base \in Area /\ i \in Sector
  BY DEF CleanSector, CleanInv
<1>2. UNCHANGED <<server, client, version>>
  BY <1>1 DEF airVars
<1>3. Arrays'
  BY <1>1 DEF BlankSector
<1>4. ASSUME NEW s \in Sector, NEW p \in PageOf, s < i + 1
      PROVE  image'[server.base][s][p] = Blank
  <2>1. image'[server.base] = [image[server.base] EXCEPT ![i] = BlankSector]
    BY <1>1
  <2>2. CASE s = i
    BY <1>1, <2>1, <2>2 DEF BlankSector
  <2>3. CASE s # i
    <3>1. s < i
      BY <1>1, <1>4, <2>3 DEF Sector
    <3>2. image'[server.base][s] = image[server.base][s]
      BY <2>1, <2>3
    <3>. QED  BY <1>1, <3>1, <3>2 DEF CleanInv
  <2>. QED  BY <2>2, <2>3
<1>5. CASE i + 1 = NSector
  <2>1. pc' = "app"
    BY <1>5 DEF CleanSector
  <2>2. FreshInv'
    BY <1>2, <1>4, <1>5, LayoutAssumption DEF FreshInv, Sector
  <2>3. client'.sector = 0 /\ client'.phase = "send"
    BY <1>1, <1>2 DEF CleanInv
  <2>4. StoredInv'
    BY <2>3 DEF StoredInv, Sector
  <2>. QED  BY <1>1, <1>2, <1>3, <2>1, <2>2, <2>3, <2>4 DEF CleanInv, AckMeansStored
<1>6. CASE i + 1 # NSector
  <2>1. pc' = "clean" /\ i' = i + 1
    BY <1>1, <1>6 DEF CleanSector
  <2>2. i' \in Sector
    BY <1>1, <1>6, <2>1, LayoutAssumption DEF Sector
  <2>3. CleanInv'
    BY <1>1, <1>2, <1>4, <2>1, <2>2 DEF CleanInv
  <2>. QED  BY <1>1, <1>2, <1>3, <2>1, <2>3 DEF FreshInv, StoredInv, AckMeansStored
<1>. QED  BY <1>5, <1>6

(* A segment programmed over an erased page, or over itself. *)
LEMMA SegmentInv ==
  ASSUME TransferInv, NEW p \in PageOf, Segment(p)
  PROVE  TransferInv'
<1> USE DEF TransferInv, Arrays, ServerOK, SendingInv, Sending
<1>1. /\ pc = "app" /\ client.phase = "segments"
      /\ server.base \in Area /\ server.sector \in Sector
      /\ UNCHANGED <<pc, client, version>>
      /\ server' = [server EXCEPT !.ack = @ \cup {p}]
  BY DEF Segment
<1>2. image[server.base][server.sector][p] \in {Blank, version}
  BY <1>1 DEF FreshInv
<1>3. image' = [image EXCEPT ![server.base][server.sector][p] = version]
  BY <1>2 DEF Segment
<1>4. Arrays'
  BY <1>3
<1>5. ServerOK'
  BY <1>1
<1>6. FreshInv'
  BY <1>1, <1>3 DEF FreshInv
<1>7. AckMeansStored'
  BY <1>1, <1>3 DEF AckMeansStored
<1>8. StoredInv'
  <2>1. server'.base = server.base /\ server'.sector = server.sector
    BY <1>1
  <2>2. ASSUME NEW s \in Sector, NEW q \in PageOf, s < client.sector
        PROVE  image'[server.base][s][q] = version
    <3>1. image[server.base][s][q] = version
      BY <1>1, <2>2 DEF StoredInv
    <3>. QED  BY <1>1, <1>3, <3>1
  <2>. QED  BY <1>1, <2>1, <2>2 DEF StoredInv
<1>. QED  BY <1>1, <1>4, <1>5, <1>6, <1>7, <1>8 DEF CleanInv

(* A request that begins, answers or ends something: no page changes. *)
LEMMA RequestInv ==
  ASSUME TransferInv,
         \/ \E a \in Area : StartReq(a) \/ StartRejected(a)
         \/ NewSector \/ SectorAcked \/ IntegrityCheck \/ Abandon \/ Disconnect
         \/ \E k \in Kind : Finish(k)
  PROVE  TransferInv'
<1> USE DEF TransferInv, Arrays, ServerOK, SendingInv, Sending, Phase
<1>1. ASSUME NEW a \in Area, StartReq(a) PROVE TransferInv'
  <2>1. /\ UNCHANGED image /\ pc' = "clean" /\ i' = 0
        /\ client' = [phase |-> "send", sector |-> 0]
        /\ server' = [server EXCEPT !.state = "busy", !.base = a]
        /\ version' = version + 1
    BY <1>1 DEF StartReq
  <2>2. ServerOK'
    <3>1. client'.phase = "send" /\ client'.sector = 0 /\ client' \in [phase : Phase, sector : Nat]
      BY <2>1
    <3>2. version' \in Nat \ {0}
      BY <2>1
    <3>3. server' \in [state : {"idle", "busy"}, base : Area \cup {NoArea},
                       sector : Sector, ack : SUBSET PageOf]
      BY <2>1
    <3>. QED  BY <3>1, <3>2, <3>3
  <2>3. CleanInv'
    BY <2>1, LayoutAssumption DEF CleanInv, Sector
  <2>. QED  BY <2>1, <2>2, <2>3 DEF FreshInv, StoredInv, AckMeansStored
<1>2. ASSUME NEW a \in Area, StartRejected(a) PROVE TransferInv'
  BY <1>2, NotSending DEF StartRejected
<1>3. CASE NewSector
  <2>1. /\ UNCHANGED <<image, pc, version>> /\ pc = "app"
        /\ client.phase = "send"
        /\ server' = [server EXCEPT !.sector = client.sector, !.ack = {}]
        /\ client' = [client EXCEPT !.phase = "segments"]
    BY <1>3 DEF NewSector
  <2>2. client.sector \in Sector
    BY <1>3, LayoutAssumption DEF NewSector, Sector
  <2>3. ServerOK'
    BY <2>1, <2>2
  <2>. QED  BY <2>1, <2>3 DEF CleanInv, FreshInv, StoredInv, AckMeansStored
<1>4. CASE SectorAcked
  <2>1. /\ pc = "app" /\ client.phase = "segments" /\ server.ack = PageOf
        /\ client' = [phase |-> "send", sector |-> client.sector + 1]
        /\ UNCHANGED <<image, pc, server, version>>
    BY <1>4 DEF SectorAcked
  <2>2. ASSUME NEW s \in Sector, NEW p \in PageOf, s < client.sector + 1
        PROVE  image[server.base][s][p] = version
    <3>1. server.sector = client.sector /\ (s < client.sector \/ s = client.sector)
      BY <2>1, <2>2 DEF StoredInv, Sector
    <3>. QED  BY <2>1, <3>1 DEF StoredInv, AckMeansStored
  <2>3. StoredInv'
    BY <2>1, <2>2 DEF StoredInv
  <2>. QED  BY <2>1, <2>3 DEF CleanInv, FreshInv, AckMeansStored
<1>5. CASE IntegrityCheck
  <2>1. PICK x \in {"verified", "failed"} : client' = [client EXCEPT !.phase = x]
    BY <1>5, Zenon DEF IntegrityCheck
  <2>2. UNCHANGED <<image, pc, server, version>> /\ pc = "app"
    BY <1>5 DEF IntegrityCheck
  <2>. QED  BY <2>1, <2>2, NotSending
<1>6. CASE Abandon
  BY <1>6, NotSending DEF Abandon, ClientIdle
<1>7. CASE Disconnect
  BY <1>7, NotSending DEF Disconnect, ClientIdle
<1>8. ASSUME NEW k \in Kind, Finish(k) PROVE TransferInv'
  BY <1>8, NotSending DEF Finish, airVars
<1>. QED  BY <1>1, <1>2, <1>3, <1>4, <1>5, <1>6, <1>7, <1>8

(* When it is checked, the image is whole, whatever is answered.           *)
LEMMA CheckedWhole ==
  ASSUME TransferInv, IntegrityCheck
  PROVE  Whole(server.base) /\ VersionOf(server.base) = version
<1>1. \A s \in Sector, p \in PageOf : image[server.base][s][p] = version
  BY LayoutAssumption DEF TransferInv, StoredInv, IntegrityCheck, Sending, Sector
<1>2. 0 \in Sector /\ 0 \in PageOf
  BY LayoutAssumption DEF Sector, PageOf
<1>3. version \notin {Blank, Torn}
  BY DEF TransferInv, ServerOK, Blank, Torn
<1>. QED  BY <1>1, <1>2, <1>3 DEF Whole, VersionOf

(* The end of FINISH and the boot loader run while nothing is sent, and    *)
(* keep the areas arrays.                                                  *)
LEMMA BootInv ==
  ASSUME TransferInv,
         SetFind \/ SetWrite \/ BootCopy \/ CopyErase \/ CopyPage \/ CopyDone \/ BootApp
  PROVE  TransferInv'
<1>1. UNCHANGED airVars /\ pc \notin {"app", "clean"} /\ pc' # "clean"
  BY DEF SetFind, SetWrite, BootCopy, CopyErase, CopyPage, CopyDone, BootApp
<1>2. Arrays'
  <2>1. CASE UNCHANGED image
    BY <2>1 DEF TransferInv, Arrays
  <2>2. CASE CopyErase
    BY <2>2 DEF TransferInv, Arrays, CopyErase, BlankSector
  <2>3. CASE CopyPage
    BY <2>3 DEF TransferInv, Arrays, CopyPage
  <2>. QED  BY <2>1, <2>2, <2>3 DEF SetFind, SetWrite, BootCopy, CopyDone, BootApp
<1>. QED  BY <1>1, <1>2, NotSending DEF TransferInv, ServerOK, SendingInv, Sending, airVars

(* A restart, on purpose or not, forgets the transfer. *)
LEMMA RebootInv ==
  ASSUME TransferInv, Reset \/ PowerLoss \/ PowerLossInSet \/ PowerLossInCopy
  PROVE  TransferInv'
<1>1. Reboot
  BY DEF Reset, PowerLoss, PowerLossInSet, PowerLossInCopy, PowerFails
<1>2. Arrays'
  <2>1. CASE UNCHANGED image
    BY <2>1 DEF TransferInv, Arrays
  <2>2. CASE PowerLossInCopy
    BY <2>2 DEF TransferInv, Arrays, PowerLossInCopy
  <2>. QED  BY <2>1, <2>2 DEF Reset, PowerLoss, PowerLossInSet
<1>3. ServerOK'
  BY <1>1, LayoutAssumption
     DEF Reboot, ServerReset, ClientIdle, ServerOK, Phase, Sector, TransferInv
<1>. QED  BY <1>1, <1>2, <1>3, NotSending DEF Reboot, ClientIdle, Sending

LEMMA NextTransferInv == TransferInv /\ [Next]_vars => TransferInv'
<1> SUFFICES ASSUME TransferInv, [Next]_vars PROVE TransferInv'
  OBVIOUS
<1>1. CASE Transfer
  BY <1>1, RequestInv, SegmentInv DEF Transfer
<1>2. CASE Firmware
  BY <1>2, CleanSectorInv, BootInv, RebootInv DEF Firmware
<1>3. CASE PowerLoss \/ PowerLossInSet \/ PowerLossInCopy
  BY <1>3, RebootInv
<1>4. CASE UNCHANGED vars
  BY <1>4 DEF vars, bootVars, airVars, TransferInv, Arrays, ServerOK, SendingInv,
              CleanInv, FreshInv, StoredInv, AckMeansStored, Sending
<1>. QED  BY <1>1, <1>2, <1>3, <1>4 DEF Next

(* A page the server has acknowledged holds what the client sent, however  *)
(* often segments are repeated, whatever was abandoned before and wherever *)
(* the power failed (fota_svc_server.c:358-364, 463-478).                  *)
THEOREM OtaAckMeansStored == Spec => []AckMeansStored
<1>1. Init => TransferInv
  BY InitTransferInv
<1>2. TransferInv /\ [Next]_vars => TransferInv'
  BY NextTransferInv
<1>3. TransferInv => AckMeansStored
  BY DEF TransferInv
<1>. QED  BY <1>1, <1>2, <1>3, PTL DEF Spec

-----------------------------------------------------------------------------
(* A slot that holds a value, one that is free to be written, and the two  *)
(* kinds that the loop of _settings_get stops at.                          *)
Open(p, info, at) == ReadWord(p, FlagAt(info, at)) = Erased
Valid(p, info, at) == Open(p, info, at) /\ inversion_data_check(p, info, at)
Free(p, info, at) == Open(p, info, at) /\ not_programmed(p, info, at)
Stop(p, info, at) == Valid(p, info, at) \/ Free(p, info, at)

NoneValid(p, info) == \A at \in Slots(info) : ~Valid(p, info, at)

SettingSound(p, info) ==
  \A a, b \in Slots(info) : Valid(p, info, a) /\ Stop(p, info, b) => a <= b

BootSlots == {16, 19, 22, 25, 28, 31}
CopySlots == {32, 39, 46, 53, 60}

ImagePages == NSector * NPage
CopyData == <<Spare, Base, ImagePages>>

IsPage(p) == p = [w \in 0 .. 63 |-> p[w]]

PageSound(p) ==
  /\ IsPage(p)
  /\ SettingSound(p, boot_addr_info)
  /\ SettingSound(p, copy_info_info)
  /\ \A at \in BootSlots : p[at] \in {Erased, Garbage, Word(Base), Word(Spare)}
  /\ \A at \in CopySlots : Valid(p, copy_info_info, at) =>
       \A w \in 0 .. 2 : p[at + w] = Word(CopyData[w + 1])

(* BootAddress *)
AddressIn(p) ==
  IF IsSet(p, boot_addr_info) THEN settings_get(p, boot_addr_info)[1] ELSE Base

CopyPending == ~NoneValid(page, copy_info_info)

(* A request to erase the settings, which takes the boot address with it,  *)
(* is only made when that is the default.                                  *)
EraseInv == IsSet(page, erase_req_info) => BootAddress = Base

BootItem(a) == [info |-> boot_addr_info, data |-> <<a>>]
EraseItem == [info |-> erase_req_info, data |-> <<"ERAS">>]
CopyItem == [info |-> copy_info_info, data |-> CopyData]

Todos == {<<>>, <<EraseItem>>, <<CopyItem>>, <<EraseItem, CopyItem>>,
          <<BootItem(Base), EraseItem>>} \cup {<<BootItem(a)>> : a \in Area}

(* The slot that settings_set is about to write. *)
BootSlotInv ==
  /\ slot \in BootSlots \cup {34}
  /\ NoneValid(page, boot_addr_info)
  /\ \A b \in BootSlots : b < slot => ~Stop(page, boot_addr_info, b)
  /\ slot = 34 => page[32] # Erased /\ page[32][1] # "word"

CopySlotInv ==
  /\ slot \in CopySlots /\ slot # 60
  /\ Free(page, copy_info_info, slot)
  /\ \A b \in CopySlots : b < slot => ~Stop(page, copy_info_info, b)

SlotInv ==
  slot # NoSlot =>
    /\ pc = "set" /\ todo # <<>>
    /\ Head(todo).info = boot_addr_info => BootSlotInv
    /\ Head(todo).info = erase_req_info => slot \in {0, 3, 6}
    /\ Head(todo).info = copy_info_info => CopySlotInv

BothWhole == \A a \in Area : Whole(a)

FinishInv ==
  /\ pc \in {"set", "assert"} => BothWhole
  /\ todo \in Todos
  /\ todo # <<>> => pc \in {"set", "assert"}
  /\ pc = "set" /\ todo # <<>> =>
       /\ ~CopyPending
       /\ Head(todo).info = boot_addr_info => ~IsSet(page, erase_req_info)
       /\ Head(todo).info # boot_addr_info => BootAddress = Base

(* While the application runs. *)
AppInv ==
  pc \in {"app", "clean"} =>
    /\ running \in Area /\ Whole(running)
    /\ BootAddress = running
    /\ ~CopyPending
    /\ ~IsSet(page, erase_req_info)

ClientInv ==
  Sending \/ client.phase = "verified" =>
    /\ server.base \in Area /\ server.base # running
    /\ client.phase = "verified" => pc \in {"app", "set", "assert"} /\ Whole(server.base)

Copied == \A s \in Sector, p \in PageOf :
            s * NPage + p < i => image[Base][s][p] = image[Spare][s][p]

LoaderInv ==
  /\ pc \in {"boot", "start"} /\ ~CopyPending => Whole(BootAddress)
  /\ pc \in {"boot", "erase", "copy", "done"} /\ CopyPending => Whole(Spare)
  /\ pc = "start" => ~CopyPending
  /\ pc \in {"erase", "copy", "done"} =>
       /\ CopyPending
       /\ copy = [src |-> Spare, dst |-> Base, size |-> ImagePages]
  /\ pc \in {"erase", "copy"} => i \in 0 .. ImagePages - 1 /\ Copied
  /\ pc = "done" => Whole(Base)

PcInv == pc \in {"app", "clean", "set", "boot", "erase", "copy", "done", "start", "assert"}

UpdateInv ==
  /\ PcInv /\ PageSound(page) /\ EraseInv /\ SlotInv /\ FinishInv /\ AppInv
  /\ ClientInv /\ LoaderInv

-----------------------------------------------------------------------------
(* Words of the settings page and what programming does to them.           *)

LEMMA WordForms ==
  /\ Erased[1] = "erased" /\ Garbage[1] = "garbage" /\ InvalidFlag[1] = "INVA"
  /\ \A v : /\ Word(v)[1] = "word" /\ Word(v)[2] = v
            /\ Complement(v)[1] = "inverse" /\ Complement(v)[2] = v
BY DEF Erased, Garbage, InvalidFlag, Word, Complement

LEMMA BurnResult ==
  ASSUME NEW old, NEW new, new # Erased
  PROVE  /\ Burn(old, new) = IF old = Erased \/ old = new THEN new ELSE Garbage
         /\ Burn(old, new) # Erased
BY WordForms DEF Burn

(* A program that does not reach the end of the page. *)
LEMMA ProgrammedWord ==
  ASSUME NEW p, NEW at \in Nat, NEW words, Len(words) \in Nat,
         at + Len(words) <= 64, NEW w \in 0 .. 63
  PROVE  Programmed(p, at, words)[w] =
           IF w >= at /\ w < at + Len(words) THEN Burn(p[w], words[w - at + 1])
                                             ELSE p[w]
<1> DEFINE k == (w - at) % 64
<1>1. Programmed(p, at, words)[w] =
        IF k < Len(words) THEN Burn(p[w], words[k + 1]) ELSE p[w]
  BY LayoutAssumption DEF Programmed
<1>2. CASE w >= at
  <2>1. k = w - at /\ w - at \in Nat
    BY <1>2
  <2>2. Programmed(p, at, words)[w] =
          IF w - at < Len(words) THEN Burn(p[w], words[w - at + 1]) ELSE p[w]
    BY <1>1, <2>1
  <2>3. w - at < Len(words) <=> w >= at /\ w < at + Len(words)
    BY <1>2
  <2>. QED  BY <2>2, <2>3
<1>3. CASE w < at
  <2>1. k = w - at + 64
    BY <1>3
  <2> HIDE DEF k
  <2>2. ~(k < Len(words))
    BY <2>1
  <2>3. Programmed(p, at, words)[w] = p[w]
    BY <1>1, <2>2, Zenon
  <2>4. ~(w >= at)
    BY <1>3
  <2>. QED  BY <2>3, <2>4, Zenon
<1>4. w >= at \/ w < at
  OBVIOUS
<1> HIDE DEF k
<1>. QED  BY <1>2, <1>3, <1>4, Zenon

LEMMA InfoFields ==
  /\ erase_req_info.start = 0 /\ erase_req_info.range = 4 /\ erase_req_info.size = 1
  /\ boot_addr_info.start = 16 /\ boot_addr_info.range = 16 /\ boot_addr_info.size = 1
  /\ copy_info_info.start = 32 /\ copy_info_info.range = 32 /\ copy_info_info.size = 3
  /\ erase_req_info # boot_addr_info /\ erase_req_info # copy_info_info
  /\ boot_addr_info # copy_info_info
BY DEF erase_req_info, boot_addr_info, copy_info_info, SettingInfo

LEMMA SlotSets ==
  /\ Slots(erase_req_info) = {0, 3}
  /\ Slots(boot_addr_info) = BootSlots
  /\ Slots(copy_info_info) = CopySlots
BY InfoFields DEF Slots, SlotWords, BootSlots, CopySlots

LEMMA FlagPlaces ==
  ASSUME NEW at \in Nat
  PROVE  /\ FlagAt(erase_req_info, at) = at + 2
         /\ FlagAt(boot_addr_info, at) = at + 2
         /\ FlagAt(copy_info_info, at) = at + 6
BY InfoFields DEF FlagAt

(* What makes a slot valid or free, word by word. *)
LEMMA SmallSlot ==
  ASSUME NEW p, NEW info \in {erase_req_info, boot_addr_info}, NEW at \in 0 .. 61
  PROVE  /\ Open(p, info, at) <=> p[at + 2] = Erased
         /\ Valid(p, info, at) <=>
              p[at + 2] = Erased /\ p[at][1] = "word" /\ p[at + 1] = Complement(p[at][2])
         /\ Free(p, info, at) <=>
              p[at + 2] = Erased /\ p[at] = Erased /\ p[at + 1] = Erased
<1>1. PageWords = 64 /\ FlagAt(info, at) = at + 2 /\ info.size = 1
  BY LayoutAssumption, FlagPlaces, InfoFields
<1>2. \A w \in 0 .. 63 : ReadWord(p, w) = p[w]
  BY <1>1 DEF ReadWord
<1>3. Open(p, info, at) <=> p[at + 2] = Erased
  BY <1>1, <1>2 DEF Open
<1>4. at .. at + info.size - 1 = {at} /\ at .. FlagAt(info, at) - 1 = {at, at + 1}
  BY <1>1
<1>. QED
  BY <1>1, <1>2, <1>3, <1>4 DEF Valid, Free, inversion_data_check, not_programmed

Checked(p, at) == \A w \in 0 .. 2 : /\ p[at + w][1] = "word"
                                     /\ p[at + w + 3] = Complement(p[at + w][2])

Unwritten(p, at) == \A w \in 0 .. 6 : p[at + w] = Erased

LEMMA CopySlot ==
  ASSUME NEW p, NEW at \in CopySlots
  PROVE  /\ Valid(p, copy_info_info, at) <=> at # 60 /\ p[at + 6] = Erased /\ Checked(p, at)
         /\ Free(p, copy_info_info, at) <=> at # 60 /\ Unwritten(p, at)
<1>1. PageWords = 64 /\ FlagAt(copy_info_info, at) = at + 6 /\ copy_info_info.size = 3
      /\ at \in 32 .. 60
  BY LayoutAssumption, FlagPlaces, InfoFields DEF CopySlots
<1>2. \A w \in 0 .. 63 : ReadWord(p, w) = p[w]
  BY <1>1 DEF ReadWord
<1>3. Open(p, copy_info_info, at) <=> at # 60 /\ p[at + 6] = Erased
  <2>1. CASE at = 60
    BY <1>1, <2>1, WordForms DEF Open, ReadWord
  <2>2. CASE at # 60
    BY <1>1, <1>2, <2>2 DEF Open, CopySlots
  <2>. QED  BY <2>1, <2>2
<1>4. CASE at # 60
  <2>1. at \in 0 .. 53
    BY <1>4 DEF CopySlots
  <2>2. inversion_data_check(p, copy_info_info, at) <=> Checked(p, at)
    <3>1. at .. at + 3 - 1 = {at, at + 1, at + 2} /\ 0 .. 2 = {0, 1, 2}
      BY <2>1
    <3>. QED  BY <1>1, <1>2, <2>1, <3>1 DEF inversion_data_check, Checked
  <2>3. not_programmed(p, copy_info_info, at) <=> \A w \in 0 .. 5 : p[at + w] = Erased
    <3>1. at .. at + 6 - 1 = {at, at + 1, at + 2, at + 3, at + 4, at + 5}
          /\ 0 .. 5 = {0, 1, 2, 3, 4, 5}
      BY <2>1
    <3>. QED  BY <1>1, <1>2, <2>1, <3>1 DEF not_programmed
  <2>4. Unwritten(p, at) <=> p[at + 6] = Erased /\ \A w \in 0 .. 5 : p[at + w] = Erased
    BY DEF Unwritten
  <2>. QED  BY <1>3, <1>4, <2>2, <2>3, <2>4 DEF Valid, Free
<1>. QED  BY <1>3, <1>4 DEF Valid, Free

(* inversion_data_write of one word and of three. *)
LEMMA InversionOfOne ==
  ASSUME NEW v
  PROVE  inversion_data(<<v>>) = <<Word(v), Complement(v)>>
<1> DEFINE data == <<v>>
           straight == [w \in DOMAIN data |-> Word(data[w])]
           inverted == [w \in DOMAIN data |-> Complement(data[w])]
<1>1. straight = <<Word(v)>> /\ inverted = <<Complement(v)>>
  OBVIOUS
<1>2. inversion_data(data) = straight \o inverted
  BY DEF inversion_data
<1>. QED  BY <1>1, <1>2

LEMMA InversionOfThree ==
  ASSUME NEW u, NEW v, NEW x
  PROVE  inversion_data(<<u, v, x>>) =
           <<Word(u), Word(v), Word(x), Complement(u), Complement(v), Complement(x)>>
<1> DEFINE data == <<u, v, x>>
           straight == [w \in DOMAIN data |-> Word(data[w])]
           inverted == [w \in DOMAIN data |-> Complement(data[w])]
<1>1. straight = <<Word(u), Word(v), Word(x)>>
      /\ inverted = <<Complement(u), Complement(v), Complement(x)>>
  OBVIOUS
<1>2. inversion_data(data) = straight \o inverted
  BY DEF inversion_data
<1>. QED  BY <1>1, <1>2

-----------------------------------------------------------------------------
(* _settings_get *)

LEMMA LeastSlot ==
  ASSUME NEW info \in {erase_req_info, boot_addr_info, copy_info_info},
         NEW S \in SUBSET Slots(info), S # {}
  PROVE  Min(S) \in S /\ \A b \in S : Min(S) <= b
<1>1. \E a \in S : \A b \in S : a <= b
  <2>1. CASE info = erase_req_info
    BY <2>1, SlotSets
  <2>2. CASE info = boot_addr_info
    BY <2>2, SlotSets DEF BootSlots
  <2>3. CASE info = copy_info_info
    BY <2>3, SlotSets DEF CopySlots
  <2>. QED  BY <2>1, <2>2, <2>3
<1>. QED  BY <1>1 DEF Min

LEMMA ValidNotFree ==
  ASSUME NEW p, NEW info \in {erase_req_info, boot_addr_info, copy_info_info},
         NEW at \in Slots(info), Valid(p, info, at)
  PROVE  ~not_programmed(p, info, at)
<1>1. at \in at .. at + info.size - 1 /\ at \in at .. FlagAt(info, at) - 1
  BY SlotSets, InfoFields, FlagPlaces DEF BootSlots, CopySlots
<1>2. ReadWord(p, at)[1] = "word"
  BY <1>1 DEF Valid, inversion_data_check
<1>. QED  BY <1>1, <1>2, WordForms DEF not_programmed

LEMMA FoundFields ==
  ASSUME NEW find, NEW least, NEW p, NEW info, NEW stops, stops # {},
         find = IF stops = {} THEN [found |-> FALSE, at |-> NoSlot]
                ELSE [found |-> ~not_programmed(p, info, least), at |-> least]
  PROVE  /\ find.at = least
         /\ find.found <=> ~not_programmed(p, info, least)
<1>1. CASE not_programmed(p, info, least)
  BY <1>1
<1>2. CASE ~not_programmed(p, info, least)
  BY <1>2
<1>. QED  BY <1>1, <1>2

LEMMA FindResult ==
  ASSUME NEW p, NEW info \in {erase_req_info, boot_addr_info, copy_info_info}
  PROVE  LET find == settings_find(p, info)
         IN  \/ /\ find.at \in Slots(info) /\ Stop(p, info, find.at)
                /\ \A b \in Slots(info) : Stop(p, info, b) => find.at <= b
                /\ find.found <=> Valid(p, info, find.at)
             \/ /\ find.at = NoSlot /\ ~find.found
                /\ \A b \in Slots(info) : ~Stop(p, info, b)
<1> DEFINE stops == {at \in Slots(info) : Stop(p, info, at)}
<1>1. settings_find(p, info) =
        IF stops = {} THEN [found |-> FALSE, at |-> NoSlot]
        ELSE [found |-> ~not_programmed(p, info, Min(stops)), at |-> Min(stops)]
  BY DEF settings_find, Stop, Valid, Free, Open
<1>2. CASE stops = {}
  BY <1>1, <1>2
<1>3. CASE stops # {}
  <2>1. Min(stops) \in stops /\ \A b \in stops : Min(stops) <= b
    BY <1>3, LeastSlot
  <2>2. ~not_programmed(p, info, Min(stops)) <=> Valid(p, info, Min(stops))
    BY <2>1, ValidNotFree DEF Stop, Free
  <2>3. settings_find(p, info).at = Min(stops)
        /\ (settings_find(p, info).found <=> ~not_programmed(p, info, Min(stops)))
    BY <1>1, <1>3, FoundFields
  <2> HIDE DEF stops
  <2>4. settings_find(p, info).at \in stops
        /\ \A b \in stops : settings_find(p, info).at <= b
        /\ (settings_find(p, info).found <=> Valid(p, info, settings_find(p, info).at))
    BY <2>1, <2>2, <2>3
  <2>. QED  BY <2>4 DEF stops
<1>. QED  BY <1>2, <1>3

LEMMA FindValid ==
  ASSUME NEW p, NEW info \in {erase_req_info, boot_addr_info, copy_info_info},
         SettingSound(p, info), NEW at \in Slots(info), Valid(p, info, at)
  PROVE  IsSet(p, info) /\ settings_find(p, info).at = at
<1>1. Slots(info) \subseteq Nat
  BY SlotSets DEF BootSlots, CopySlots
<1>. QED  BY <1>1, FindResult DEF SettingSound, Stop, IsSet

LEMMA FindNone ==
  ASSUME NEW p, NEW info \in {erase_req_info, boot_addr_info, copy_info_info},
         NoneValid(p, info)
  PROVE  ~IsSet(p, info)
BY FindResult DEF NoneValid, IsSet

LEMMA EraseSet ==
  ASSUME NEW p, IsSet(p, erase_req_info)
  PROVE  \E at \in {0, 3} : Valid(p, erase_req_info, at)
BY FindResult, SlotSets DEF IsSet

(* ota_boot_addr_get *)
LEMMA AddressMeaning ==
  ASSUME NEW p, PageSound(p)
  PROVE  /\ \A at \in BootSlots : Valid(p, boot_addr_info, at) => p[at] = Word(AddressIn(p))
         /\ NoneValid(p, boot_addr_info) => AddressIn(p) = Base
         /\ AddressIn(p) \in Area
<1>1. ASSUME NEW at \in BootSlots, Valid(p, boot_addr_info, at)
      PROVE  p[at] = Word(AddressIn(p)) /\ AddressIn(p) \in Area
  <2>1. IsSet(p, boot_addr_info) /\ settings_find(p, boot_addr_info).at = at
    BY <1>1, FindValid, SlotSets DEF PageSound
  <2>2. AddressIn(p) = ReadWord(p, at)[2]
    <3>1. at + 1 - 1 = at /\ 1 \in 1 .. 1
      BY DEF BootSlots
    <3>. QED  BY <2>1, <3>1, InfoFields DEF AddressIn, settings_get
  <2>3. ReadWord(p, at) = p[at] /\ p[at][1] = "word"
    BY <1>1, SmallSlot, LayoutAssumption DEF BootSlots, ReadWord
  <2>4. p[at] \in {Word(Base), Word(Spare)}
    BY <2>3, WordForms DEF PageSound
  <2>. QED  BY <2>2, <2>3, <2>4, WordForms DEF Area
<1>2. NoneValid(p, boot_addr_info) => AddressIn(p) = Base
  BY FindNone DEF AddressIn
<1>. QED  BY <1>1, <1>2, SlotSets DEF NoneValid, Area

LEMMA AddressKept ==
  ASSUME NEW p, NEW q, PageSound(p), PageSound(q),
         \A at \in BootSlots : /\ Valid(q, boot_addr_info, at) <=> Valid(p, boot_addr_info, at)
                               /\ Valid(p, boot_addr_info, at) => q[at] = p[at]
  PROVE  AddressIn(q) = AddressIn(p)
<1>1. CASE NoneValid(p, boot_addr_info)
  BY <1>1, AddressMeaning, SlotSets DEF NoneValid
<1>2. CASE ~NoneValid(p, boot_addr_info)
  <2>1. PICK at \in BootSlots : Valid(p, boot_addr_info, at)
    BY <1>2, SlotSets DEF NoneValid
  <2>. QED  BY <2>1, AddressMeaning, WordForms
<1>. QED  BY <1>1, <1>2

-----------------------------------------------------------------------------
(* What the writes of a setting make of the page.                          *)

(* The words lo .. lo + Len(words) - 1 have been programmed. *)
Burnt(p, q, lo, words) ==
  /\ IsPage(q)
  /\ \A w \in 0 .. 63 :
       IF w >= lo /\ w < lo + Len(words)
       THEN /\ q[w] \in {words[w - lo + 1], Garbage}
            /\ p[w] = Erased => q[w] = words[w - lo + 1]
       ELSE q[w] = p[w]

LEMMA ProgrammedBurnt ==
  ASSUME NEW p, NEW lo \in Nat, NEW words, Len(words) \in Nat, lo + Len(words) <= 64,
         \A k \in 1 .. Len(words) : words[k] # Erased
  PROVE  Burnt(p, Programmed(p, lo, words), lo, words)
<1> DEFINE q == Programmed(p, lo, words)
<1>1. IsPage(q)
  BY LayoutAssumption DEF Programmed, IsPage
<1>2. ASSUME NEW w \in 0 .. 63
      PROVE  IF w >= lo /\ w < lo + Len(words)
             THEN /\ q[w] \in {words[w - lo + 1], Garbage}
                  /\ p[w] = Erased => q[w] = words[w - lo + 1]
             ELSE q[w] = p[w]
  <2>1. CASE w >= lo /\ w < lo + Len(words)
    <3>1. w - lo + 1 \in 1 .. Len(words)
      BY <2>1
    <3>2. q[w] = Burn(p[w], words[w - lo + 1])
      BY <2>1, ProgrammedWord
    <3>. QED  BY <2>1, <3>1, <3>2, BurnResult
  <2>2. CASE ~(w >= lo /\ w < lo + Len(words))
    BY <2>2, ProgrammedWord
  <2>. QED  BY <2>1, <2>2
<1>. QED  BY <1>1, <1>2 DEF Burnt

LEMMA BurntOne ==
  ASSUME NEW p, NEW q, NEW lo \in 0 .. 63, NEW x, Burnt(p, q, lo, <<x>>)
  PROVE  /\ IsPage(q)
         /\ q[lo] \in {x, Garbage}
         /\ p[lo] = Erased => q[lo] = x
<1>1. Len(<<x>>) = 1 /\ <<x>>[1] = x
  OBVIOUS
<1>. QED  BY <1>1 DEF Burnt

LEMMA BurntOneElse ==
  ASSUME NEW p, NEW q, NEW lo \in 0 .. 63, NEW x, Burnt(p, q, lo, <<x>>),
         NEW w \in 0 .. 63, w # lo
  PROVE  q[w] = p[w]
<1>1. Len(<<x>>) = 1
  OBVIOUS
<1>. QED  BY <1>1 DEF Burnt

LEMMA BurntTwo ==
  ASSUME NEW p, NEW q, NEW lo \in 0 .. 62, NEW x, NEW y, Burnt(p, q, lo, <<x, y>>)
  PROVE  /\ IsPage(q)
         /\ q[lo] \in {x, Garbage} /\ q[lo + 1] \in {y, Garbage}
         /\ p[lo] = Erased => q[lo] = x
<1>1. Len(<<x, y>>) = 2 /\ <<x, y>>[1] = x /\ <<x, y>>[2] = y
  OBVIOUS
<1>2. \A w \in 0 .. 63 :
        w >= lo /\ w < lo + 2 =>
          /\ q[w] \in {<<x, y>>[w - lo + 1], Garbage}
          /\ p[w] = Erased => q[w] = <<x, y>>[w - lo + 1]
  BY <1>1, Zenon DEF Burnt
<1>3. /\ lo \in 0 .. 63 /\ lo >= lo /\ lo < lo + 2 /\ lo - lo + 1 = 1
      /\ lo + 1 \in 0 .. 63 /\ lo + 1 >= lo /\ lo + 1 < lo + 2 /\ lo + 1 - lo + 1 = 2
  OBVIOUS
<1>4. q[lo] \in {x, Garbage} /\ (p[lo] = Erased => q[lo] = x)
  BY <1>1, <1>2, <1>3
<1>5. q[lo + 1] \in {y, Garbage}
  BY <1>1, <1>2, <1>3
<1>6. IsPage(q)
  BY DEF Burnt
<1>. QED  BY <1>4, <1>5, <1>6

LEMMA BurntTwoElse ==
  ASSUME NEW p, NEW q, NEW lo \in 0 .. 62, NEW x, NEW y, Burnt(p, q, lo, <<x, y>>),
         NEW w \in 0 .. 63, w # lo, w # lo + 1
  PROVE  q[w] = p[w]
<1>1. Len(<<x, y>>) = 2
  OBVIOUS
<1>2. ~(w >= lo /\ w < lo + 2)
  OBVIOUS
<1>. QED  BY <1>1, <1>2, Zenon DEF Burnt

(* A slot of one word of data is written, all of it or only its data. *)
OneWritten(p, q, s, v) ==
  /\ IsPage(q)
  /\ \A w \in 0 .. 63 : w # s /\ w # s + 1 => q[w] = p[w]
  /\ q[s] \in {Word(v), Garbage}
  /\ q[s + 1] \in {Complement(v), Garbage} \/ q[s + 1] = p[s + 1]

LEMMA AllWritten ==
  ASSUME NEW p, NEW q, NEW s \in 0 .. 62, NEW v,
         Burnt(p, q, s, <<Word(v), Complement(v)>>)
  PROVE  OneWritten(p, q, s, v)
<1>1. IsPage(q) /\ q[s] \in {Word(v), Garbage} /\ q[s + 1] \in {Complement(v), Garbage}
  BY BurntTwo
<1>2. \A w \in 0 .. 63 : w # s /\ w # s + 1 => q[w] = p[w]
  BY BurntTwoElse
<1>. QED  BY <1>1, <1>2 DEF OneWritten

LEMMA DataWritten ==
  ASSUME NEW p, NEW q, NEW s \in 0 .. 62, NEW v, Burnt(p, q, s, <<Word(v)>>)
  PROVE  OneWritten(p, q, s, v)
<1>0. s \in 0 .. 63 /\ s + 1 \in 0 .. 63 /\ s + 1 # s
  OBVIOUS
<1>1. IsPage(q) /\ q[s] \in {Word(v), Garbage}
  BY <1>0, BurntOne
<1>2. \A w \in 0 .. 63 : w # s => q[w] = p[w]
  BY <1>0, BurntOneElse
<1>. QED  BY <1>0, <1>1, <1>2 DEF OneWritten

(* Slots whose words are the same. *)
LEMMA SmallSlotKept ==
  ASSUME NEW p, NEW q, NEW info \in {erase_req_info, boot_addr_info}, NEW at \in 0 .. 61,
         \A w \in at .. at + 2 : q[w] = p[w]
  PROVE  /\ Valid(q, info, at) <=> Valid(p, info, at)
         /\ Stop(q, info, at) <=> Stop(p, info, at)
<1>1. q[at] = p[at] /\ q[at + 1] = p[at + 1] /\ q[at + 2] = p[at + 2]
  OBVIOUS
<1>2. Valid(q, info, at) <=> Valid(p, info, at)
  <2>1. Valid(p, info, at) <=>
          p[at + 2] = Erased /\ p[at][1] = "word" /\ p[at + 1] = Complement(p[at][2])
    BY SmallSlot
  <2>2. Valid(q, info, at) <=>
          q[at + 2] = Erased /\ q[at][1] = "word" /\ q[at + 1] = Complement(q[at][2])
    BY SmallSlot
  <2>. QED  BY <1>1, <2>1, <2>2
<1>3. Free(q, info, at) <=> Free(p, info, at)
  <2>1. Free(p, info, at) <=> p[at + 2] = Erased /\ p[at] = Erased /\ p[at + 1] = Erased
    BY SmallSlot
  <2>2. Free(q, info, at) <=> q[at + 2] = Erased /\ q[at] = Erased /\ q[at + 1] = Erased
    BY SmallSlot
  <2>. QED  BY <1>1, <2>1, <2>2
<1>. QED  BY <1>2, <1>3 DEF Stop

LEMMA CopySlotKept ==
  ASSUME NEW p, NEW q, NEW at \in CopySlots,
         \A w \in at .. at + 6 : w <= 63 => q[w] = p[w]
  PROVE  /\ Valid(q, copy_info_info, at) <=> Valid(p, copy_info_info, at)
         /\ Stop(q, copy_info_info, at) <=> Stop(p, copy_info_info, at)
<1>1. CASE at = 60
  BY <1>1, CopySlot DEF Stop
<1>2. CASE at # 60
  <2>1. \A w \in 0 .. 6 : q[at + w] = p[at + w]
    BY <1>2 DEF CopySlots
  <2>2. \A w \in 0 .. 2 : q[at + w] = p[at + w] /\ q[at + w + 3] = p[at + w + 3]
    BY <1>2 DEF CopySlots
  <2>3. q[at + 6] = p[at + 6]
    BY <2>1
  <2>4. Checked(q, at) <=> Checked(p, at)
    BY <2>2 DEF Checked
  <2>5. Unwritten(q, at) <=> Unwritten(p, at)
    BY <2>1 DEF Unwritten
  <2>. QED  BY <2>3, <2>4, <2>5, CopySlot DEF Stop
<1>. QED  BY <1>1, <1>2

LEMMA EraseKept ==
  ASSUME NEW p, NEW q, \A w \in 0 .. 5 : q[w] = p[w]
  PROVE  IsSet(q, erase_req_info) <=> IsSet(p, erase_req_info)
<1>1. \A at \in Slots(erase_req_info) :
         /\ Valid(q, erase_req_info, at) <=> Valid(p, erase_req_info, at)
         /\ Stop(q, erase_req_info, at) <=> Stop(p, erase_req_info, at)
  BY SlotSets, SmallSlotKept
<1>. QED  BY <1>1, FindResult, SlotSets DEF IsSet

(* Nothing but the erase request has changed. *)
LEMMA OthersKept ==
  ASSUME NEW p, NEW q, PageSound(p), IsPage(q),
         \A w \in 16 .. 63 : q[w] = p[w]
  PROVE  /\ PageSound(q)
         /\ AddressIn(q) = AddressIn(p)
         /\ NoneValid(q, copy_info_info) <=> NoneValid(p, copy_info_info)
<1>1. \A at \in BootSlots :
         /\ Valid(q, boot_addr_info, at) <=> Valid(p, boot_addr_info, at)
         /\ Stop(q, boot_addr_info, at) <=> Stop(p, boot_addr_info, at)
         /\ q[at] = p[at]
  <2> SUFFICES ASSUME NEW at \in BootSlots
               PROVE  /\ Valid(q, boot_addr_info, at) <=> Valid(p, boot_addr_info, at)
                      /\ Stop(q, boot_addr_info, at) <=> Stop(p, boot_addr_info, at)
                      /\ q[at] = p[at]
    OBVIOUS
  <2>1. at \in 0 .. 61 /\ \A w \in at .. at + 2 : q[w] = p[w]
    BY DEF BootSlots
  <2>2. q[at] = p[at]
    BY DEF BootSlots
  <2>. QED  BY <2>1, <2>2, SmallSlotKept
<1>2. \A at \in CopySlots :
         /\ Valid(q, copy_info_info, at) <=> Valid(p, copy_info_info, at)
         /\ Stop(q, copy_info_info, at) <=> Stop(p, copy_info_info, at)
  BY CopySlotKept DEF CopySlots
<1>3. \A at \in CopySlots : \A w \in 0 .. 2 : q[at + w] = p[at + w]
  BY DEF CopySlots
<1>4. PageSound(q)
  BY <1>1, <1>2, <1>3, SlotSets DEF PageSound, SettingSound
<1>. QED  BY <1>1, <1>2, <1>4, AddressKept, SlotSets DEF NoneValid

(* A boot address is made invalid. *)
LEMMA BootInvalid ==
  ASSUME NEW p, NEW q, PageSound(p), NoneValid(p, copy_info_info),
         NEW at \in BootSlots, Valid(p, boot_addr_info, at),
         Burnt(p, q, at + 2, <<InvalidFlag>>)
  PROVE  /\ PageSound(q)
         /\ NoneValid(q, copy_info_info)
         /\ IsSet(q, erase_req_info) <=> IsSet(p, erase_req_info)
         /\ NoneValid(q, boot_addr_info)
         /\ \A b \in BootSlots : b < at + 3 => ~Stop(q, boot_addr_info, b)
         /\ at = 31 => q[32] # Erased /\ q[32][1] # "word"
<1>1. /\ IsPage(q)
      /\ \A w \in 0 .. 63 : w # at + 2 => q[w] = p[w]
      /\ q[at + 2] \in {InvalidFlag, Garbage}
  <2>1. at + 2 \in 0 .. 63
    BY DEF BootSlots
  <2>2. IsPage(q) /\ q[at + 2] \in {InvalidFlag, Garbage}
    BY <2>1, BurntOne
  <2>3. \A w \in 0 .. 63 : w # at + 2 => q[w] = p[w]
    BY <2>1, BurntOneElse
  <2>. QED  BY <2>2, <2>3
<1>2. \A b \in BootSlots : b # at =>
        /\ Valid(q, boot_addr_info, b) <=> Valid(p, boot_addr_info, b)
        /\ Stop(q, boot_addr_info, b) <=> Stop(p, boot_addr_info, b)
  BY <1>1, SmallSlotKept DEF BootSlots
<1>3. ~Stop(q, boot_addr_info, at)
  <2>1. at \in 0 .. 61 /\ q[at + 2] # Erased
    BY <1>1, WordForms DEF BootSlots
  <2>2. ~Valid(q, boot_addr_info, at)
    BY <2>1, SmallSlot
  <2>3. ~Free(q, boot_addr_info, at)
    BY <2>1, SmallSlot
  <2>. QED  BY <2>2, <2>3 DEF Stop
<1>4. \A b \in BootSlots : Stop(p, boot_addr_info, b) => at <= b
  BY SlotSets DEF PageSound, SettingSound
<1>5. NoneValid(q, boot_addr_info)
  <2> SUFFICES ASSUME NEW b \in BootSlots, Valid(q, boot_addr_info, b) PROVE FALSE
    BY SlotSets DEF NoneValid
  <2>1. b # at /\ Valid(p, boot_addr_info, b)
    BY <1>2, <1>3 DEF Stop
  <2>2. b <= at
    BY <2>1, SlotSets DEF PageSound, SettingSound, Stop
  <2>. QED  BY <1>4, <2>1, <2>2 DEF Stop, BootSlots
<1>6. \A b \in BootSlots : b < at + 3 => ~Stop(q, boot_addr_info, b)
  BY <1>2, <1>3, <1>4 DEF BootSlots
<1>7. NoneValid(q, copy_info_info)
  <2> SUFFICES ASSUME NEW c \in CopySlots, Valid(q, copy_info_info, c) PROVE FALSE
    BY SlotSets DEF NoneValid
  <2>1. CASE c = 32 /\ at = 31
    <3>1. q[32 + 1][1] = "word"
      BY <2>1, CopySlot DEF Checked
    <3>. QED  BY <1>1, <2>1, <3>1, WordForms
  <2>2. CASE ~(c = 32 /\ at = 31)
    <3>1. \A w \in c .. c + 6 : w <= 63 => q[w] = p[w]
      BY <1>1, <2>2 DEF CopySlots, BootSlots
    <3>. QED  BY <3>1, CopySlotKept, SlotSets DEF NoneValid
  <2>. QED  BY <2>1, <2>2
<1>8. \A b \in BootSlots : q[b] = p[b]
  BY <1>1 DEF BootSlots
<1>9. PageSound(q)
  BY <1>1, <1>5, <1>7, <1>8, SlotSets DEF PageSound, SettingSound, NoneValid
<1>10. IsSet(q, erase_req_info) <=> IsSet(p, erase_req_info)
  BY <1>1, EraseKept DEF BootSlots
<1>11. at = 31 => q[32] # Erased /\ q[32][1] # "word"
  <2>1. at = 31 => p[31 + 1] = Complement(p[31][2])
    <3>1. Valid(p, boot_addr_info, 31) => p[31 + 1] = Complement(p[31][2])
      <4>1. 31 \in 0 .. 61
        OBVIOUS
      <4>. QED  BY <4>1, SmallSlot, Zenon
    <3>. QED  BY <3>1
  <2>. QED  BY <1>1, <2>1, WordForms
<1>. QED  BY <1>5, <1>6, <1>7, <1>9, <1>10, <1>11

(* A boot address is written, or its first word only. *)
LEMMA BootWritten ==
  ASSUME NEW p, NEW q, PageSound(p), NoneValid(p, copy_info_info),
         NEW a \in Area, NEW s \in BootSlots \cup {34},
         NoneValid(p, boot_addr_info),
         \A b \in BootSlots : b < s => ~Stop(p, boot_addr_info, b),
         s = 34 => p[32] # Erased /\ p[32][1] # "word",
         OneWritten(p, q, s, a)
  PROVE  /\ PageSound(q)
         /\ NoneValid(q, copy_info_info)
         /\ IsSet(q, erase_req_info) <=> IsSet(p, erase_req_info)
         /\ AddressIn(q) \in {a, Base}
<1>1. /\ IsPage(q)
      /\ \A w \in 0 .. 63 : w # s /\ w # s + 1 => q[w] = p[w]
      /\ q[s] \in {Word(a), Garbage}
      /\ q[s + 1] \in {Complement(a), Garbage} \/ q[s + 1] = p[s + 1]
  BY DEF OneWritten
<1>2. \A b \in BootSlots : b # s =>
        /\ Valid(q, boot_addr_info, b) <=> Valid(p, boot_addr_info, b)
        /\ Stop(q, boot_addr_info, b) <=> Stop(p, boot_addr_info, b)
        /\ q[b] = p[b]
  BY <1>1, SmallSlotKept DEF BootSlots
<1>3. \A b \in BootSlots : Valid(q, boot_addr_info, b) => b = s
  BY <1>2, SlotSets DEF NoneValid
<1>4. \A b \in BootSlots : b < s => ~Stop(q, boot_addr_info, b)
  BY <1>2 DEF BootSlots
<1>5. SettingSound(q, boot_addr_info)
  <2> SUFFICES ASSUME NEW x \in BootSlots, NEW y \in BootSlots,
                      Valid(q, boot_addr_info, x), Stop(q, boot_addr_info, y)
               PROVE  x <= y
    BY SlotSets, Zenon DEF SettingSound
  <2>2. x = s /\ ~(y < s)
    BY <1>3, <1>4
  <2>3. x \in Nat /\ y \in Nat
    BY DEF BootSlots
  <2>. QED  BY <2>2, <2>3
<1>6. NoneValid(q, copy_info_info)
  <2> SUFFICES ASSUME NEW c \in CopySlots, Valid(q, copy_info_info, c) PROVE FALSE
    BY SlotSets DEF NoneValid
  <2>1. CASE c = 32
    <3>1. q[32 + 0][1] = "word"
      BY <2>1, CopySlot DEF Checked
    <3>2. s \notin {31, 34} \/ q[32] = p[32]
      <4>1. s = 34 => q[32] = p[32]
        BY <1>1
      <4>2. s = 31 => q[32] \in {Complement(a), Garbage} \/ q[32] = p[32]
        BY <1>1
      <4>. QED  BY <3>1, <4>1, <4>2, WordForms
    <3>3. s # 34
      BY <1>1, <3>1
    <3>4. \A w \in 32 .. 38 : q[w] = p[w]
      BY <1>1, <3>2, <3>3 DEF BootSlots
    <3>. QED  BY <2>1, <3>4, CopySlotKept, SlotSets DEF NoneValid
  <2>2. CASE c # 32
    <3>1. \A w \in c .. c + 6 : w <= 63 => q[w] = p[w]
      BY <1>1, <2>2 DEF CopySlots, BootSlots
    <3>. QED  BY <3>1, CopySlotKept, SlotSets DEF NoneValid
  <2>. QED  BY <2>1, <2>2
<1>7. \A b \in BootSlots : q[b] \in {Erased, Garbage, Word(Base), Word(Spare)}
  BY <1>1, <1>2 DEF PageSound, Area
<1>8. PageSound(q)
  BY <1>1, <1>5, <1>6, <1>7, SlotSets DEF PageSound, SettingSound, NoneValid
<1>9. IsSet(q, erase_req_info) <=> IsSet(p, erase_req_info)
  BY <1>1, EraseKept DEF BootSlots
<1>10. AddressIn(q) \in {a, Base}
  <2>1. CASE NoneValid(q, boot_addr_info)
    BY <2>1, <1>8, AddressMeaning
  <2>2. CASE ~NoneValid(q, boot_addr_info)
    <3>1. s \in BootSlots /\ Valid(q, boot_addr_info, s)
      BY <2>2, <1>3, SlotSets DEF NoneValid
    <3>2. q[s] = Word(AddressIn(q))
      BY <1>8, <3>1, AddressMeaning
    <3>. QED  BY <1>1, <3>2, WordForms
  <2>. QED  BY <2>1, <2>2
<1>. QED  BY <1>6, <1>8, <1>9, <1>10


LEMMA BurntOutside ==
  ASSUME NEW p, NEW q, NEW lo, NEW words, Burnt(p, q, lo, words), NEW w \in 0 .. 63,
         ~(w >= lo /\ w < lo + Len(words))
  PROVE  q[w] = p[w]
BY Zenon DEF Burnt

(* The first n words of a copy request are in slot s. *)
CopyWords == <<Word(Spare), Word(Base), Word(ImagePages),
               Complement(Spare), Complement(Base), Complement(ImagePages)>>

CopyWritten(p, q, s, n) ==
  /\ IsPage(q)
  /\ \A w \in 0 .. 63 : w < s \/ w >= s + n => q[w] = p[w]
  /\ \A k \in 0 .. 5 : q[s + k] = IF k < n THEN CopyWords[k + 1] ELSE Erased

LEMMA CopyBurnt ==
  ASSUME NEW p, NEW q, NEW s \in CopySlots, Free(p, copy_info_info, s),
         NEW words, NEW n \in 1 .. 6, Len(words) = n,
         \A k \in 1 .. n : words[k] = CopyWords[k],
         Burnt(p, q, s, words)
  PROVE  CopyWritten(p, q, s, n)
<1>1. s # 60 /\ Unwritten(p, s) /\ s \in 32 .. 53
  BY CopySlot DEF CopySlots
<1>2. IsPage(q)
  BY DEF Burnt
<1>3. ASSUME NEW w \in 0 .. 63, w < s \/ w >= s + n
      PROVE  q[w] = p[w]
  <2>1. ~(w >= s /\ w < s + n)
    BY <1>1, <1>3
  <2>. QED  BY <2>1, BurntOutside
<1>4. ASSUME NEW k \in 0 .. 5
      PROVE  q[s + k] = IF k < n THEN CopyWords[k + 1] ELSE Erased
  <2> DEFINE w == s + k
  <2>1. w \in 0 .. 63 /\ w >= s
    BY <1>1
  <2>5. w - s + 1 = k + 1
    BY <1>1
  <2>2. p[w] = Erased
    BY <1>1 DEF Unwritten
  <2>3. CASE k < n
    <3>1. w < s + Len(words)
      BY <1>1, <2>3
    <3>2. k + 1 \in 1 .. n
      BY <2>3
    <3> HIDE DEF w
    <3>3. q[w] = words[w - s + 1]
      BY <2>1, <2>2, <3>1, Zenon DEF Burnt
    <3>4. q[w] = CopyWords[k + 1]
      BY <2>5, <3>2, <3>3
    <3>. QED  BY <2>3, <3>4 DEF w
  <2>4. CASE ~(k < n)
    <3>1. w >= s + n
      BY <1>1, <2>4
    <3> HIDE DEF w
    <3>2. q[w] = p[w]
      BY <1>3, <2>1, <3>1
    <3>. QED  BY <2>2, <2>4, <3>2 DEF w
  <2>. QED  BY <2>3, <2>4
<1>. QED  BY <1>2, <1>3, <1>4 DEF CopyWritten

(* A request for the copy is written, or its first words only. *)
LEMMA CopyRequested ==
  ASSUME NEW p, NEW q, PageSound(p), NoneValid(p, copy_info_info),
         NEW s \in CopySlots, Free(p, copy_info_info, s),
         \A b \in CopySlots : b < s => ~Stop(p, copy_info_info, b),
         NEW n \in 1 .. 6, CopyWritten(p, q, s, n)
  PROVE  /\ PageSound(q)
         /\ AddressIn(q) = AddressIn(p)
         /\ IsSet(q, erase_req_info) <=> IsSet(p, erase_req_info)
         /\ n < 6 => NoneValid(q, copy_info_info)
<1>1. s # 60 /\ Unwritten(p, s) /\ s \in 32 .. 53
  BY CopySlot DEF CopySlots
<1>2. /\ IsPage(q)
      /\ \A w \in 0 .. 63 : w < s \/ w >= s + n => q[w] = p[w]
      /\ \A k \in 0 .. 5 : q[s + k] = IF k < n THEN CopyWords[k + 1] ELSE Erased
  BY DEF CopyWritten
<1>3. \A c \in CopySlots : c # s =>
        /\ Valid(q, copy_info_info, c) <=> Valid(p, copy_info_info, c)
        /\ Stop(q, copy_info_info, c) <=> Stop(p, copy_info_info, c)
  <2> SUFFICES ASSUME NEW c \in CopySlots, c # s
               PROVE  /\ Valid(q, copy_info_info, c) <=> Valid(p, copy_info_info, c)
                      /\ Stop(q, copy_info_info, c) <=> Stop(p, copy_info_info, c)
    OBVIOUS
  <2>1. \A w \in c .. c + 6 : w <= 63 => q[w] = p[w]
    BY <1>1, <1>2 DEF CopySlots
  <2>. QED  BY <2>1, CopySlotKept
<1>4. \A c \in CopySlots : Valid(q, copy_info_info, c) => c = s
  BY <1>3, SlotSets DEF NoneValid
<1>5. SettingSound(q, copy_info_info)
  <2> SUFFICES ASSUME NEW x \in CopySlots, NEW y \in CopySlots,
                      Valid(q, copy_info_info, x), Stop(q, copy_info_info, y)
               PROVE  x <= y
    BY SlotSets, Zenon DEF SettingSound
  <2>1. x = s
    BY <1>4
  <2>2. ~(y < s)
    <3>1. y < s => y # s /\ Stop(p, copy_info_info, y)
      BY <1>1, <1>3 DEF CopySlots
    <3>. QED  BY <3>1
  <2>3. x \in Nat /\ y \in Nat
    BY DEF CopySlots
  <2>. QED  BY <2>1, <2>2, <2>3
<1>6. Valid(q, copy_info_info, s) => n = 6
  <2> SUFFICES ASSUME Valid(q, copy_info_info, s), n < 6 PROVE FALSE
    OBVIOUS
  <2>0. Checked(q, s)
    BY CopySlot
  <2>1. q[s + 2 + 3] = Complement(q[s + 2][2])
    BY <2>0 DEF Checked
  <2>2. s + 2 + 3 = s + 5 /\ q[s + 5] = Erased
    BY <1>1, <1>2
  <2>. QED  BY <2>1, <2>2, WordForms
<1>7. n < 6 => NoneValid(q, copy_info_info)
  BY <1>4, <1>6, SlotSets DEF NoneValid
<1>8. ASSUME NEW c \in CopySlots, Valid(q, copy_info_info, c), NEW w \in 0 .. 2
      PROVE  q[c + w] = Word(CopyData[w + 1])
  <2>1. c = s /\ n = 6
    BY <1>4, <1>6, <1>8
  <2>2. q[s + w] = CopyWords[w + 1]
    BY <1>2, <2>1
  <2>3. CopyWords[w + 1] = Word(CopyData[w + 1])
    BY DEF CopyWords, CopyData
  <2>. QED  BY <2>1, <2>2, <2>3
<1>9. \A b \in BootSlots : q[b] = p[b]
  BY <1>1, <1>2 DEF BootSlots
<1>10. \A b \in BootSlots : b # 31 =>
         /\ Valid(q, boot_addr_info, b) <=> Valid(p, boot_addr_info, b)
         /\ Stop(q, boot_addr_info, b) <=> Stop(p, boot_addr_info, b)
  BY <1>1, <1>2, SmallSlotKept DEF BootSlots
<1>11. Valid(q, boot_addr_info, 31) <=> Valid(p, boot_addr_info, 31)
  <2>1. CASE s = 32
    <3>1. p[31 + 1] = Erased
      <4>1. p[32 + 0] = Erased
        BY <1>1, <2>1 DEF Unwritten
      <4>. QED  BY <4>1
    <3>2. q[31 + 1] = Word(Spare)
      <4>1. q[32 + 0] = CopyWords[0 + 1]
        BY <1>2, <2>1
      <4>. QED  BY <4>1 DEF CopyWords
    <3>3. ~Valid(p, boot_addr_info, 31)
      BY <3>1, SmallSlot, WordForms
    <3>4. ~Valid(q, boot_addr_info, 31)
      <4>1. Word(Spare) # Complement(q[31][2])
        BY WordForms
      <4>2. Valid(q, boot_addr_info, 31) => q[31 + 1] = Complement(q[31][2])
        <5>1. 31 \in 0 .. 61
          OBVIOUS
        <5>. QED  BY <5>1, SmallSlot, Zenon
      <4>. QED  BY <3>2, <4>1, <4>2
    <3>. QED  BY <3>3, <3>4
  <2>2. CASE s # 32
    <3>1. \A w \in 31 .. 31 + 2 : q[w] = p[w]
      BY <1>1, <1>2, <2>2 DEF CopySlots
    <3>. QED  BY <3>1, SmallSlotKept
  <2>. QED  BY <2>1, <2>2
<1>12. SettingSound(q, boot_addr_info)
  <2> SUFFICES ASSUME NEW x \in BootSlots, NEW y \in BootSlots,
                      Valid(q, boot_addr_info, x), Stop(q, boot_addr_info, y)
               PROVE  x <= y
    BY SlotSets, Zenon DEF SettingSound
  <2>1. Valid(p, boot_addr_info, x)
    BY <1>10, <1>11
  <2>2. CASE y = 31
    BY <2>2 DEF BootSlots
  <2>3. CASE y # 31
    <3>1. Stop(p, boot_addr_info, y)
      BY <1>10, <2>3
    <3>. QED  BY <2>1, <3>1, SlotSets DEF PageSound, SettingSound
  <2>. QED  BY <2>2, <2>3
<1>13. PageSound(q)
  BY <1>2, <1>5, <1>8, <1>9, <1>12 DEF PageSound
<1>14. AddressIn(q) = AddressIn(p)
  BY <1>9, <1>10, <1>11, <1>13, AddressKept
<1>15. IsSet(q, erase_req_info) <=> IsSet(p, erase_req_info)
  BY <1>1, <1>2, EraseKept
<1>. QED  BY <1>7, <1>13, <1>14, <1>15

(* ota_copy_done_set *)
LEMMA CopyInvalid ==
  ASSUME NEW p, NEW q, PageSound(p),
         NEW at \in CopySlots, Valid(p, copy_info_info, at),
         Burnt(p, q, at + 6, <<InvalidFlag>>)
  PROVE  /\ PageSound(q)
         /\ NoneValid(q, copy_info_info)
         /\ AddressIn(q) = AddressIn(p)
         /\ IsSet(q, erase_req_info) <=> IsSet(p, erase_req_info)
<1>0. at # 60 /\ at + 6 \in 38 .. 59
  BY CopySlot DEF CopySlots
<1>1. /\ IsPage(q)
      /\ \A w \in 0 .. 63 : w # at + 6 => q[w] = p[w]
      /\ q[at + 6] # Erased
  <2>1. at + 6 \in 0 .. 63
    BY <1>0
  <2>2. IsPage(q) /\ q[at + 6] \in {InvalidFlag, Garbage}
    BY <2>1, BurntOne
  <2>3. \A w \in 0 .. 63 : w # at + 6 => q[w] = p[w]
    BY <2>1, BurntOneElse
  <2>. QED  BY <2>2, <2>3, WordForms
<1>2. \A c \in CopySlots : c # at =>
        (Valid(q, copy_info_info, c) <=> Valid(p, copy_info_info, c))
  <2> SUFFICES ASSUME NEW c \in CopySlots, c # at
               PROVE  Valid(q, copy_info_info, c) <=> Valid(p, copy_info_info, c)
    OBVIOUS
  <2>1. \A w \in c .. c + 6 : w <= 63 => q[w] = p[w]
    BY <1>0, <1>1 DEF CopySlots
  <2>. QED  BY <2>1, CopySlotKept
<1>3. ~Valid(q, copy_info_info, at)
  BY <1>1, CopySlot
<1>4. NoneValid(q, copy_info_info)
  <2> SUFFICES ASSUME NEW c \in CopySlots, Valid(q, copy_info_info, c) PROVE FALSE
    BY SlotSets DEF NoneValid
  <2>1. c # at /\ Valid(p, copy_info_info, c)
    BY <1>2, <1>3
  <2>2. c <= at /\ at <= c
    BY <2>1, SlotSets DEF PageSound, SettingSound, Stop
  <2>. QED  BY <2>1, <2>2 DEF CopySlots
<1>5. \A b \in BootSlots :
        /\ Valid(q, boot_addr_info, b) <=> Valid(p, boot_addr_info, b)
        /\ Stop(q, boot_addr_info, b) <=> Stop(p, boot_addr_info, b)
        /\ q[b] = p[b]
  <2> SUFFICES ASSUME NEW b \in BootSlots
               PROVE  /\ Valid(q, boot_addr_info, b) <=> Valid(p, boot_addr_info, b)
                      /\ Stop(q, boot_addr_info, b) <=> Stop(p, boot_addr_info, b)
                      /\ q[b] = p[b]
    OBVIOUS
  <2>1. b \in 0 .. 61 /\ \A w \in b .. b + 2 : q[w] = p[w]
    BY <1>0, <1>1 DEF BootSlots
  <2>2. q[b] = p[b]
    BY <1>0, <1>1 DEF BootSlots
  <2>. QED  BY <2>1, <2>2, SmallSlotKept
<1>6. PageSound(q)
  BY <1>1, <1>4, <1>5, SlotSets DEF PageSound, SettingSound, NoneValid
<1>7. AddressIn(q) = AddressIn(p)
  BY <1>5, <1>6, AddressKept
<1>8. IsSet(q, erase_req_info) <=> IsSet(p, erase_req_info)
  BY <1>0, <1>1, EraseKept
<1>. QED  BY <1>4, <1>6, <1>7, <1>8

(* A write to the range of the erase request. *)
LEMMA EraseBurnt ==
  ASSUME NEW p, NEW q, PageSound(p), NEW lo \in 0 .. 8, NEW words,
         Len(words) \in 0 .. 2, Burnt(p, q, lo, words)
  PROVE  /\ PageSound(q)
         /\ AddressIn(q) = AddressIn(p)
         /\ NoneValid(q, copy_info_info) <=> NoneValid(p, copy_info_info)
<1>1. IsPage(q)
  BY DEF Burnt
<1>2. ASSUME NEW w \in 16 .. 63 PROVE q[w] = p[w]
  <2>0. \A l \in 0 .. 2 : ~(w >= lo /\ w < lo + l)
    OBVIOUS
  <2>1. w \in 0 .. 63 /\ ~(w >= lo /\ w < lo + Len(words))
    <3>1. w \in 0 .. 63
      OBVIOUS
    <3>. QED  BY <2>0, <3>1, Zenon
  <2>. QED  BY <2>1, BurntOutside
<1>. QED  BY <1>1, <1>2, OthersKept

LEMMA ErasedPageSound ==
  /\ PageSound(ErasedPage)
  /\ NoneValid(ErasedPage, copy_info_info)
  /\ AddressIn(ErasedPage) = Base
  /\ ~IsSet(ErasedPage, erase_req_info)
<1> DEFINE q == ErasedPage
<1>1. IsPage(q) /\ \A w \in 0 .. 63 : q[w] = Erased
  BY LayoutAssumption DEF IsPage, ErasedPage
<1> HIDE DEF q
<1>2. \A at \in BootSlots : ~Valid(q, boot_addr_info, at) /\ q[at] = Erased
  BY <1>1, SmallSlot, WordForms DEF BootSlots
<1>3. \A at \in CopySlots : ~Valid(q, copy_info_info, at)
  <2> SUFFICES ASSUME NEW at \in CopySlots, Valid(q, copy_info_info, at) PROVE FALSE
    OBVIOUS
  <2>1. Checked(q, at) /\ at + 0 \in 0 .. 63
    BY CopySlot DEF CopySlots
  <2>2. q[at + 0][1] = "word"
    BY <2>1 DEF Checked
  <2>. QED  BY <1>1, <2>1, <2>2, WordForms
<1>4. NoneValid(q, boot_addr_info) /\ NoneValid(q, copy_info_info)
  BY <1>2, <1>3, SlotSets DEF NoneValid
<1>5. PageSound(q)
  BY <1>1, <1>2, <1>3, <1>4 DEF PageSound, SettingSound, NoneValid
<1>6. ~IsSet(q, erase_req_info)
  <2>1. \A at \in {0, 3} : ~Valid(q, erase_req_info, at)
    BY <1>1, SmallSlot, WordForms
  <2>. QED  BY <2>1, EraseSet
<1>. QED  BY <1>4, <1>5, <1>6, AddressMeaning DEF q

-----------------------------------------------------------------------------
(* The steps.  First what they have in common.                             *)

LEMMA AddressOf == BootAddress = AddressIn(page) /\ BootAddress' = AddressIn(page')
BY DEF BootAddress, AddressIn

LEMMA AreaKept ==
  ASSUME NEW a \in Area, image'[a] = image[a]
  PROVE  Whole(a)' <=> Whole(a)
BY DEF Whole, VersionOf

LEMMA InitUpdateInv == Init => UpdateInv
<1> SUFFICES ASSUME Init PROVE UpdateInv
  OBVIOUS
<1>1. PageSound(page) /\ NoneValid(page, copy_info_info) /\ AddressIn(page) = Base
      /\ ~IsSet(page, erase_req_info)
  BY ErasedPageSound DEF Init
<1>2. Whole(Base)
  <2>1. image[Base] = [s \in Sector |-> [p \in PageOf |-> FirstVersion]]
    BY DEF Init, Area
  <2>2. 0 \in Sector /\ 0 \in PageOf
    BY LayoutAssumption DEF Sector, PageOf
  <2>. QED  BY <2>1, <2>2 DEF Whole, VersionOf, FirstVersion, Blank, Torn
<1>3. CopyPending = FALSE
  BY <1>1 DEF CopyPending
<1>4. pc = "boot" /\ todo = <<>> /\ slot = NoSlot /\ client.phase = "idle"
  BY DEF Init, ClientIdle
<1>. QED  BY <1>1, <1>2, <1>3, <1>4, AddressOf
          DEF UpdateInv, PcInv, EraseInv, SlotInv, FinishInv, Todos, AppInv, ClientInv,
              Sending, LoaderInv

(* The application runs on, and keeps the area it runs from.               *)
LEMMA AppStep ==
  ASSUME UpdateInv, pc \in {"app", "clean"}, pc' \in {"app", "clean"},
         UNCHANGED <<page, running, todo, slot>>,
         image'[running] = image[running], ClientInv'
  PROVE  UpdateInv'
<1>1. /\ running \in Area /\ Whole(running) /\ BootAddress = running
      /\ ~CopyPending /\ ~IsSet(page, erase_req_info)
  BY DEF UpdateInv, AppInv
<1>2. Whole(running)'
  BY <1>1, AreaKept DEF Whole, VersionOf
<1>3. BootAddress' = BootAddress
  BY AddressOf
<1>4. ~CopyPending' /\ ~IsSet(page, erase_req_info)' /\ PageSound(page')
  BY <1>1 DEF CopyPending, UpdateInv
<1>5. AppInv'
  BY <1>1, <1>2, <1>3, <1>4 DEF AppInv
<1>6. slot = NoSlot
  BY DEF UpdateInv, SlotInv
<1>7. SlotInv' /\ EraseInv'
  BY <1>4, <1>6 DEF SlotInv, EraseInv
<1>8. FinishInv'
  BY DEF UpdateInv, FinishInv
<1>. QED  BY <1>4, <1>5, <1>7, <1>8 DEF UpdateInv, PcInv, LoaderInv

(* The client sends, to an area the application does not run from, or does *)
(* not, and has nothing verified.                                          *)
LEMMA ClientMoves ==
  ASSUME UNCHANGED running, client'.phase # "verified",
         client'.phase \in {"send", "segments"} =>
           server'.base \in Area /\ server'.base # running
  PROVE  ClientInv'
<1>1. (client.phase = "verified")' = FALSE
  OBVIOUS
<1>2. Sending' => server'.base \in Area /\ server'.base # running'
  BY DEF Sending
<1>. QED  BY <1>1, <1>2 DEF ClientInv

LEMMA RequestUpdate ==
  ASSUME UpdateInv, TransferInv,
         \/ \E a \in Area : StartReq(a) \/ StartRejected(a)
         \/ NewSector \/ SectorAcked \/ IntegrityCheck \/ Abandon \/ Disconnect
  PROVE  UpdateInv'
<1>1. /\ pc = "app" /\ pc' \in {"app", "clean"}
      /\ UNCHANGED <<image, page, running, todo, slot>>
  BY DEF StartReq, StartRejected, NewSector, SectorAcked, IntegrityCheck, Abandon,
         Disconnect, bootVars
<1> SUFFICES ClientInv'
  BY <1>1, AppStep
<1>2. /\ server \in [state : {"idle", "busy"}, base : Area \cup {NoArea},
                      sector : Sector, ack : SUBSET PageOf]
      /\ client \in [phase : Phase, sector : Nat]
  BY DEF TransferInv, ServerOK
<1>3. client.phase \in {"send", "segments"} => server.base \in Area /\ server.base # running
  BY DEF UpdateInv, ClientInv, Sending
<1>4. ASSUME NEW a \in Area, StartReq(a) PROVE ClientInv'
  <2>1. server'.base = a /\ client'.phase = "send" /\ a # running
    BY <1>2, <1>4 DEF StartReq
  <2>. QED  BY <1>1, <2>1, ClientMoves
<1>5. ASSUME NEW a \in Area, StartRejected(a) PROVE ClientInv'
  <2>1. client'.phase = "rejected"
    BY <1>5 DEF StartRejected
  <2>. QED  BY <1>1, <2>1, ClientMoves
<1>6. CASE NewSector
  <2>1. server'.base = server.base /\ client'.phase = "segments" /\ client.phase = "send"
    BY <1>2, <1>6 DEF NewSector
  <2>. QED  BY <1>1, <1>3, <2>1, ClientMoves
<1>7. CASE SectorAcked
  <2>1. server' = server /\ client'.phase = "send" /\ client.phase = "segments"
    BY <1>7 DEF SectorAcked
  <2>. QED  BY <1>1, <1>3, <2>1, ClientMoves
<1>8. CASE IntegrityCheck
  <2>1. client.phase = "send" /\ UNCHANGED server /\ pc' = "app"
    BY <1>8 DEF IntegrityCheck
  <2>2. server.base \in Area /\ server.base # running
    BY <1>3, <2>1
  <2>3. CASE Whole(server.base)
    <3>1. Whole(server.base)'
      BY <1>1, <2>1, <2>3 DEF Whole, VersionOf
    <3>2. server'.base \in Area /\ server'.base # running' /\ pc' \in {"app", "set", "assert"}
      BY <1>1, <2>1, <2>2
    <3>. QED  BY <3>1, <3>2 DEF ClientInv
  <2>4. CASE ~Whole(server.base)
    BY <2>4, <1>8, CheckedWhole
  <2>. QED  BY <2>3, <2>4
<1>9. CASE Abandon \/ Disconnect
  <2>1. client'.phase = "idle"
    BY <1>9 DEF Abandon, Disconnect, ClientIdle
  <2>. QED  BY <1>1, <2>1, ClientMoves
<1>. QED  BY <1>4, <1>5, <1>6, <1>7, <1>8, <1>9

LEMMA WriteUpdate ==
  ASSUME UpdateInv, TransferInv, CleanSector \/ \E p \in PageOf : Segment(p)
  PROVE  UpdateInv'
<1>1. /\ pc \in {"app", "clean"} /\ pc' \in {"app", "clean"}
      /\ UNCHANGED <<page, running, todo, slot, client>>
      /\ client.phase \in {"send", "segments"}
  BY DEF TransferInv, SendingInv, CleanSector, Segment, airVars, bootVars
<1>2. ServerOK /\ Arrays
  BY DEF TransferInv
<1>3. server.base \in Area /\ server.base # running /\ running \in Area
  BY <1>1 DEF UpdateInv, ClientInv, AppInv, Sending
<1>4. server'.base = server.base
  BY <1>2 DEF CleanSector, Segment, airVars, ServerOK
<1>5. image'[running] = image[running]
  BY <1>2, <1>3 DEF CleanSector, Segment, Arrays
<1>6. ClientInv'
  BY <1>1, <1>3, <1>4 DEF ClientInv
<1>. QED  BY <1>1, <1>5, <1>6, AppStep

LEMMA Joined ==
  ASSUME NEW x, NEW y
  PROVE  /\ <<x>> \o <<y>> \o <<>> = <<x, y>>
         /\ <<>> \o <<x>> \o <<y>> = <<x, y>>
<1> DEFINE both == <<x>> \o <<y>>
<1>1. <<x>> \in Seq({x, y}) /\ <<y>> \in Seq({x, y}) /\ <<x, y>> \in Seq({x, y})
  OBVIOUS
<1>2. both = <<x, y>>
  <2>1. Len(both) = 2 /\ both[1] = x /\ both[2] = y
    OBVIOUS
  <2>2. both \in Seq({x, y})
    BY <1>1, ConcatProperties
  <2> HIDE DEF both
  <2>. QED  BY <2>1, <2>2
<1>3. <<x, y>> \o <<>> = <<x, y>> /\ <<>> \o <<x>> = <<x>>
  BY <1>1, ConcatEmptySeq
<1>. QED  BY <1>2, <1>3

LEMMA FinishUpdate ==
  ASSUME UpdateInv, NEW kind, Finish(kind)
  PROVE  UpdateInv'
<1>1. /\ pc = "app" /\ client.phase = "verified" /\ pc' = "set"
      /\ kind \in {"copy", "copy_erase"} => server.base = Spare
      /\ kind = "boot_erase" => server.base = Base
      /\ todo' = FinishSettings(kind, server.base)
      /\ UNCHANGED <<image, page, running, slot, server, client>>
  BY DEF Finish, airVars
<1>2. /\ server.base \in Area /\ server.base # running /\ Whole(server.base)
      /\ running \in Area /\ Whole(running) /\ BootAddress = running
      /\ ~CopyPending /\ ~IsSet(page, erase_req_info) /\ slot = NoSlot
  BY <1>1 DEF UpdateInv, ClientInv, AppInv, SlotInv
<1>3. BothWhole
  BY <1>2 DEF BothWhole, Area
<1>4. BothWhole' /\ Whole(server.base)'
  BY <1>1, <1>2, <1>3 DEF BothWhole, Whole, VersionOf
<1>5. BootAddress' = running /\ ~CopyPending' /\ ~IsSet(page, erase_req_info)'
  BY <1>1, <1>2, AddressOf DEF CopyPending
<1>6. /\ todo' \in Todos
      /\ todo' # <<>> /\ Head(todo').info # boot_addr_info => server.base = Spare
  <2>1. CASE kind = "boot"
    <3>1. todo' = <<BootItem(server.base)>>
      BY <1>1, <2>1 DEF FinishSettings, BootItem
    <3>. QED  BY <1>2, <3>1 DEF Todos, BootItem
  <2>2. CASE kind = "boot_erase"
    <3>1. todo' = <<BootItem(Base)>> \o <<EraseItem>> \o <<>>
      BY <1>1, <2>2 DEF FinishSettings, BootItem, EraseItem
    <3>2. todo' = <<BootItem(Base), EraseItem>>
      BY <3>1, Joined
    <3>. QED  BY <3>2 DEF Todos, BootItem
  <2>3. CASE kind = "copy"
    <3>1. todo' = <<CopyItem>> /\ server.base = Spare
      BY <1>1, <2>3 DEF FinishSettings, CopyItem, CopyData, ImagePages
    <3>. QED  BY <3>1 DEF Todos
  <2>4. CASE kind = "copy_erase"
    <3>1. todo' = <<>> \o <<EraseItem>> \o <<CopyItem>> /\ server.base = Spare
      BY <1>1, <2>4 DEF FinishSettings, CopyItem, EraseItem, CopyData, ImagePages
    <3>2. todo' = <<EraseItem, CopyItem>>
      BY <3>1, Joined
    <3>. QED  BY <3>1, <3>2 DEF Todos
  <2>5. CASE kind \notin {"boot", "boot_erase", "copy", "copy_erase"}
    <3>1. todo' = <<>>
      BY <1>1, <2>5 DEF FinishSettings
    <3>. QED  BY <3>1 DEF Todos
  <2>. QED  BY <2>1, <2>2, <2>3, <2>4, <2>5
<1>7. server.base = Spare => running = Base
  BY <1>2 DEF Area
<1>8. FinishInv'
  BY <1>1, <1>4, <1>5, <1>6, <1>7 DEF FinishInv
<1>9. ClientInv'
  BY <1>1, <1>2, <1>4 DEF ClientInv
<1>10. PageSound(page') /\ EraseInv' /\ SlotInv'
  BY <1>1, <1>2, <1>5 DEF UpdateInv, EraseInv, SlotInv
<1>. QED  BY <1>1, <1>8, <1>9, <1>10 DEF UpdateInv, PcInv, AppInv, LoaderInv

-----------------------------------------------------------------------------
(* settings_set, in the order FINISH calls it.                             *)

LEMMA ItemFields ==
  /\ \A a : BootItem(a).info = boot_addr_info /\ BootItem(a).data = <<a>>
  /\ EraseItem.info = erase_req_info /\ EraseItem.data = <<"ERAS">>
  /\ CopyItem.info = copy_info_info /\ CopyItem.data = CopyData
BY DEF BootItem, EraseItem, CopyItem

(* What can be due, and what after it. *)
BootDue(a) == /\ Head(todo) = BootItem(a)
              /\ \/ Tail(todo) = <<>>
                 \/ Tail(todo) = <<EraseItem>> /\ a = Base
EraseDue == Head(todo) = EraseItem /\ (Tail(todo) = <<>> \/ Tail(todo) = <<CopyItem>>)
CopyDue == Head(todo) = CopyItem /\ Tail(todo) = <<>>

LEMMA Due ==
  ASSUME todo \in Todos, todo # <<>>
  PROVE  (\E a \in Area : BootDue(a)) \/ EraseDue \/ CopyDue
<1>1. CASE todo = <<EraseItem>>
  BY <1>1 DEF EraseDue
<1>2. CASE todo = <<CopyItem>>
  BY <1>2 DEF CopyDue
<1>3. CASE todo = <<EraseItem, CopyItem>>
  <2>1. Head(todo) = EraseItem /\ Tail(todo) = <<CopyItem>>
    BY <1>3
  <2>. QED  BY <2>1 DEF EraseDue
<1>4. CASE todo = <<BootItem(Base), EraseItem>>
  <2>1. Head(todo) = BootItem(Base) /\ Tail(todo) = <<EraseItem>>
    BY <1>4
  <2>. QED  BY <2>1 DEF BootDue, Area
<1>5. ASSUME NEW a \in Area, todo = <<BootItem(a)>>
      PROVE  BootDue(a)
  <2>1. Head(todo) = BootItem(a) /\ Tail(todo) = <<>>
    BY <1>5
  <2>. QED  BY <2>1 DEF BootDue
<1>. QED  BY <1>1, <1>2, <1>3, <1>4, <1>5, Zenon DEF Todos

(* All words of a setting have been programmed, or the first ones. *)
PartOf(words, whole) ==
  words = whole \/ \E k \in 1 .. Len(whole) - 1 : words = SubSeq(whole, 1, k)

LEMMA PartOfTwo ==
  ASSUME NEW u, NEW v, NEW words, PartOf(words, <<u, v>>)
  PROVE  words = <<u, v>> \/ words = <<u>>
<1>1. Len(<<u, v>>) = 2
  OBVIOUS
<1> DEFINE first == SubSeq(<<u, v>>, 1, 1)
<1>2. first = <<u>>
  <2>1. first \in Seq({u, v}) /\ Len(first) = 1 /\ first[1] = u
    BY SubSeqProperties
  <2> HIDE DEF first
  <2>. QED  BY <2>1
<1>3. \A k \in 1 .. 2 - 1 : k = 1
  OBVIOUS
<1>. QED  BY <1>1, <1>2, <1>3 DEF PartOf

LEMMA PartOfSix ==
  ASSUME NEW words, PartOf(words, CopyWords)
  PROVE  \E n \in 1 .. 6 : Len(words) = n /\ \A k \in 1 .. n : words[k] = CopyWords[k]
<1>1. Len(CopyWords) = 6
  BY DEF CopyWords
<1>2. ASSUME NEW n \in 1 .. 5, words = SubSeq(CopyWords, 1, n)
      PROVE  Len(words) = n /\ \A k \in 1 .. n : words[k] = CopyWords[k]
  <2>1. PICK S : CopyWords \in Seq(S)
    <3> DEFINE S == {Word(Spare), Word(Base), Word(ImagePages), Complement(Spare),
                     Complement(Base), Complement(ImagePages)}
    <3>1. CopyWords \in Seq(S)
      BY DEF CopyWords
    <3>. QED  BY <3>1
  <2>. QED  BY <1>1, <1>2, <2>1, SubSeqProperties
<1>3. CASE words = CopyWords
  BY <1>1, <1>3
<1>4. CASE \E n \in 1 .. 5 : words = SubSeq(CopyWords, 1, n)
  BY <1>2, <1>4
<1>. QED  BY <1>1, <1>3, <1>4 DEF PartOf

LEMMA BootPut ==
  ASSUME NEW p, NEW s \in BootSlots \cup {34}, NEW a, NEW words,
         PartOf(words, inversion_data(<<a>>))
  PROVE  OneWritten(p, Programmed(p, s, words), s, a)
<1>1. s \in 0 .. 62 /\ s \in Nat /\ s + 1 <= 64 /\ s + 2 <= 64
  BY DEF BootSlots
<1>2. Word(a) # Erased /\ Complement(a) # Erased
  BY WordForms
<1>3. CASE words = <<Word(a), Complement(a)>>
  <2>1. /\ Len(<<Word(a), Complement(a)>>) = 2
        /\ \A k \in 1 .. 2 : <<Word(a), Complement(a)>>[k] # Erased
    BY <1>2
  <2>2. Burnt(p, Programmed(p, s, words), s, <<Word(a), Complement(a)>>)
    BY <1>1, <1>3, <2>1, ProgrammedBurnt
  <2>. QED  BY <1>1, <2>2, AllWritten
<1>4. CASE words = <<Word(a)>>
  <2>1. Len(<<Word(a)>>) = 1 /\ \A k \in 1 .. 1 : <<Word(a)>>[k] # Erased
    BY <1>2
  <2>2. Burnt(p, Programmed(p, s, words), s, <<Word(a)>>)
    BY <1>1, <1>4, <2>1, ProgrammedBurnt
  <2>. QED  BY <1>1, <2>2, DataWritten
<1>. QED  BY <1>3, <1>4, InversionOfOne, PartOfTwo

LEMMA ErasePut ==
  ASSUME NEW p, PageSound(p), NEW s \in {0, 3, 6}, NEW words,
         PartOf(words, inversion_data(<<"ERAS">>))
  PROVE  LET q == Programmed(p, s, words)
         IN  /\ PageSound(q)
             /\ AddressIn(q) = AddressIn(p)
             /\ NoneValid(q, copy_info_info) <=> NoneValid(p, copy_info_info)
<1> DEFINE a == "ERAS"
<1>1. Word(a) # Erased /\ Complement(a) # Erased
  BY WordForms
<1>2. words = <<Word(a), Complement(a)>> \/ words = <<Word(a)>>
  BY InversionOfOne, PartOfTwo
<1>3. Len(words) \in 0 .. 2 /\ \A k \in 1 .. Len(words) : words[k] # Erased
  <2>1. CASE words = <<Word(a), Complement(a)>>
    BY <1>1, <2>1
  <2>2. CASE words = <<Word(a)>>
    BY <1>1, <2>2
  <2>. QED  BY <1>2, <2>1, <2>2
<1>4. s \in Nat /\ s + Len(words) <= 64 /\ s \in 0 .. 8
  BY <1>3
<1>5. Burnt(p, Programmed(p, s, words), s, words)
  BY <1>3, <1>4, ProgrammedBurnt
<1>. QED  BY <1>3, <1>4, <1>5, EraseBurnt

LEMMA CopyPut ==
  ASSUME NEW p, NEW s \in CopySlots, Free(p, copy_info_info, s), NEW words,
         PartOf(words, inversion_data(CopyData))
  PROVE  \E n \in 1 .. 6 : CopyWritten(p, Programmed(p, s, words), s, n)
<1>1. inversion_data(CopyData) = CopyWords
  BY InversionOfThree DEF CopyData, CopyWords
<1>2. PICK n \in 1 .. 6 : Len(words) = n /\ \A k \in 1 .. n : words[k] = CopyWords[k]
  BY <1>1, PartOfSix
<1>3. \A k \in 1 .. 6 : CopyWords[k] # Erased
  BY WordForms DEF CopyWords
<1>4. s # 60 /\ s \in Nat /\ s + 6 <= 64
  BY CopySlot DEF CopySlots
<1>5. \A k \in 1 .. Len(words) : words[k] # Erased
  BY <1>2, <1>3
<1>6. Burnt(p, Programmed(p, s, words), s, words)
  BY <1>2, <1>4, <1>5, ProgrammedBurnt
<1>. QED  BY <1>2, <1>6, CopyBurnt

(* What is in the page when slot has been written, or only in part. *)
LEMMA WriteOutcome ==
  ASSUME UpdateInv, pc = "set", slot # NoSlot, NEW words,
         PartOf(words, inversion_data(Head(todo).data))
  PROVE  LET q == Programmed(page, slot, words)
         IN  /\ todo # <<>>
             /\ PageSound(q)
             /\ IsSet(q, erase_req_info) => AddressIn(q) = Base
             /\ \A a \in Area : BootDue(a) =>
                  /\ AddressIn(q) \in {a, Base}
                  /\ ~IsSet(q, erase_req_info) /\ NoneValid(q, copy_info_info)
             /\ EraseDue => AddressIn(q) = Base /\ NoneValid(q, copy_info_info)
<1> DEFINE q == Programmed(page, slot, words)
<1>1. /\ PageSound(page) /\ todo # <<>> /\ todo \in Todos /\ ~CopyPending
      /\ Head(todo).info = boot_addr_info => ~IsSet(page, erase_req_info) /\ BootSlotInv
      /\ Head(todo).info # boot_addr_info => AddressIn(page) = Base
      /\ Head(todo).info = erase_req_info => slot \in {0, 3, 6}
      /\ Head(todo).info = copy_info_info => CopySlotInv
  BY AddressOf DEF UpdateInv, FinishInv, SlotInv
<1>2. NoneValid(page, copy_info_info)
  BY <1>1 DEF CopyPending
<1>3. ASSUME NEW a \in Area, BootDue(a)
      PROVE  /\ PageSound(q) /\ AddressIn(q) \in {a, Base} /\ ~EraseDue
             /\ ~IsSet(q, erase_req_info) /\ NoneValid(q, copy_info_info)
             /\ \A b \in Area : BootDue(b) => b = a
  <2>1. Head(todo).info = boot_addr_info /\ Head(todo).data = <<a>>
    BY <1>3, ItemFields DEF BootDue
  <2>2. BootSlotInv /\ ~IsSet(page, erase_req_info)
    BY <1>1, <2>1
  <2>3. slot \in BootSlots \cup {34}
    BY <2>2 DEF BootSlotInv
  <2>4. OneWritten(page, q, slot, a)
    BY <2>1, <2>3, BootPut
  <2>5. /\ PageSound(q) /\ NoneValid(q, copy_info_info)
        /\ IsSet(q, erase_req_info) <=> IsSet(page, erase_req_info)
        /\ AddressIn(q) \in {a, Base}
    <3> HIDE DEF q
    <3>1. /\ NoneValid(page, boot_addr_info)
          /\ \A b \in BootSlots : b < slot => ~Stop(page, boot_addr_info, b)
          /\ slot = 34 => page[32] # Erased /\ page[32][1] # "word"
      BY <2>2 DEF BootSlotInv
    <3>. QED  BY <1>1, <1>2, <2>3, <2>4, <3>1, BootWritten
  <2>6. ~EraseDue
    BY <2>1, ItemFields, InfoFields DEF EraseDue
  <2>7. \A b \in Area : BootDue(b) => b = a
    <3>1. \A b : BootDue(b) => Head(todo).data = <<b>>
      BY ItemFields DEF BootDue
    <3>2. \A b : <<b>> = <<a>> => b = a
      OBVIOUS
    <3>. QED  BY <2>1, <3>1, <3>2
  <2>. QED  BY <2>2, <2>5, <2>6, <2>7
<1>4. ASSUME EraseDue
      PROVE  /\ PageSound(q) /\ AddressIn(q) = Base /\ NoneValid(q, copy_info_info)
             /\ \A a \in Area : ~BootDue(a)
  <2>1. Head(todo).info = erase_req_info /\ Head(todo).data = <<"ERAS">>
    BY <1>4, ItemFields DEF EraseDue
  <2>2. slot \in {0, 3, 6} /\ AddressIn(page) = Base
    BY <1>1, <2>1, InfoFields
  <2>3. PageSound(q) /\ AddressIn(q) = Base /\ NoneValid(q, copy_info_info)
    BY <1>1, <1>2, <2>1, <2>2, ErasePut
  <2>4. \A a \in Area : ~BootDue(a)
    BY <2>1, ItemFields, InfoFields DEF BootDue
  <2>. QED  BY <2>3, <2>4
<1>5. ASSUME CopyDue
      PROVE  /\ PageSound(q) /\ AddressIn(q) = Base /\ ~EraseDue
             /\ \A a \in Area : ~BootDue(a)
  <2>1. Head(todo).info = copy_info_info /\ Head(todo).data = CopyData
    BY <1>5, ItemFields DEF CopyDue
  <2>2. CopySlotInv /\ AddressIn(page) = Base
    BY <1>1, <2>1, InfoFields
  <2>3. /\ slot \in CopySlots /\ Free(page, copy_info_info, slot)
        /\ \A b \in CopySlots : b < slot => ~Stop(page, copy_info_info, b)
    BY <2>2 DEF CopySlotInv
  <2>4. PICK n \in 1 .. 6 : CopyWritten(page, q, slot, n)
    BY <2>1, <2>3, CopyPut
  <2>5. PageSound(q) /\ AddressIn(q) = Base
    <3> HIDE DEF q
    <3>. QED  BY <1>1, <1>2, <2>2, <2>3, <2>4, CopyRequested
  <2>6. ~EraseDue /\ \A a \in Area : ~BootDue(a)
    BY <2>1, ItemFields, InfoFields DEF EraseDue, BootDue
  <2>. QED  BY <2>5, <2>6
<1> HIDE DEF q
<1>6. (\E a \in Area : BootDue(a)) \/ EraseDue \/ CopyDue
  BY <1>1, Due
<1>7. /\ PageSound(q)
      /\ IsSet(q, erase_req_info) => AddressIn(q) = Base
      /\ \A a \in Area : BootDue(a) =>
           /\ AddressIn(q) \in {a, Base}
           /\ ~IsSet(q, erase_req_info) /\ NoneValid(q, copy_info_info)
      /\ EraseDue => AddressIn(q) = Base /\ NoneValid(q, copy_info_info)
  <2>1. CASE \E a \in Area : BootDue(a)
    BY <1>3, <2>1
  <2>2. CASE EraseDue
    BY <1>4, <2>2
  <2>3. CASE CopyDue
    BY <1>5, <2>3
  <2>. QED  BY <1>6, <2>1, <2>2, <2>3
<1>. QED  BY <1>1, <1>7 DEF q

(* The handler of FINISH runs on. *)
LEMMA SetStep ==
  ASSUME UpdateInv, pc = "set", pc' \in {"set", "assert"},
         UNCHANGED <<image, running, server, client>>,
         PageSound(page'), todo' \in Todos, SlotInv',
         IsSet(page', erase_req_info) => AddressIn(page') = Base,
         todo' # <<>> => /\ NoneValid(page', copy_info_info)
                         /\ Head(todo').info = boot_addr_info => ~IsSet(page', erase_req_info)
                         /\ Head(todo').info # boot_addr_info => AddressIn(page') = Base
  PROVE  UpdateInv'
<1>1. BothWhole'
  BY DEF UpdateInv, FinishInv, BothWhole, Whole, VersionOf
<1>2. FinishInv'
  BY <1>1, AddressOf DEF FinishInv, CopyPending
<1>3. EraseInv'
  BY AddressOf DEF EraseInv
<1>4. ClientInv'
  BY DEF UpdateInv, ClientInv, Sending, Whole, VersionOf
<1>. QED  BY <1>2, <1>3, <1>4 DEF UpdateInv, PcInv, AppInv, LoaderInv

LEMMA SetWriteUpdate ==
  ASSUME UpdateInv, SetWrite
  PROVE  UpdateInv'
<1> DEFINE words == inversion_data(Head(todo).data)
<1>1. /\ pc = "set" /\ slot # NoSlot /\ pc' = "set"
      /\ page' = Programmed(page, slot, words)
      /\ slot' = NoSlot /\ todo' = Tail(todo)
      /\ UNCHANGED <<image, running, server, client>>
  BY DEF SetWrite, airVars
<1>2. PartOf(words, words)
  BY DEF PartOf
<1> HIDE DEF words
<1>3. /\ todo # <<>> /\ PageSound(page')
      /\ IsSet(page', erase_req_info) => AddressIn(page') = Base
      /\ \A a \in Area : BootDue(a) =>
           /\ AddressIn(page') \in {a, Base}
           /\ ~IsSet(page', erase_req_info) /\ NoneValid(page', copy_info_info)
      /\ EraseDue => AddressIn(page') = Base /\ NoneValid(page', copy_info_info)
  BY <1>1, <1>2, WriteOutcome DEF words
<1>4. todo \in Todos
  BY DEF UpdateInv, FinishInv
<1>5. SlotInv'
  BY <1>1 DEF SlotInv
<1>6. todo' = <<>> \/ todo' = <<EraseItem>> \/ todo' = <<CopyItem>>
  BY <1>1, <1>3, <1>4, Due DEF BootDue, EraseDue, CopyDue
<1>7. todo' \in Todos
  BY <1>6, Zenon DEF Todos
<1>8. todo' # <<>> => /\ NoneValid(page', copy_info_info)
                      /\ AddressIn(page') = Base
                      /\ Head(todo').info # boot_addr_info
  <2> SUFFICES ASSUME todo' # <<>>
               PROVE  /\ NoneValid(page', copy_info_info)
                      /\ AddressIn(page') = Base
                      /\ Head(todo').info # boot_addr_info
    OBVIOUS
  <2>1. NoneValid(page', copy_info_info) /\ AddressIn(page') = Base
    <3>1. CASE EraseDue
      BY <1>3, <3>1
    <3>2. ASSUME NEW a \in Area, BootDue(a)
          PROVE  NoneValid(page', copy_info_info) /\ AddressIn(page') = Base
      BY <1>1, <1>3, <3>2 DEF BootDue
    <3>. QED  BY <1>1, <1>3, <1>4, <3>1, <3>2, Due DEF CopyDue
  <2>2. Head(todo') = EraseItem \/ Head(todo') = CopyItem
    <3>1. CASE todo' = <<EraseItem>>
      BY <3>1
    <3>2. CASE todo' = <<CopyItem>>
      BY <3>2
    <3>. QED  BY <1>6, <3>1, <3>2
  <2>. QED  BY <2>1, <2>2, ItemFields, InfoFields
<1>. QED  BY <1>1, <1>3, <1>5, <1>7, <1>8, SetStep

(* The search of settings_set, when it ends at a slot without a value.     *)
LEMMA SearchedFree ==
  ASSUME NEW p, NEW info \in {erase_req_info, boot_addr_info, copy_info_info},
         SettingSound(p, info), ~IsSet(p, info),
         settings_find(p, info).at # NoSlot
  PROVE  LET at == settings_find(p, info).at
         IN  /\ at \in Slots(info) /\ Free(p, info, at)
             /\ \A b \in Slots(info) : b < at => ~Stop(p, info, b)
             /\ NoneValid(p, info)
<1> DEFINE at == settings_find(p, info).at
<1>1. /\ at \in Slots(info) /\ Stop(p, info, at) /\ ~Valid(p, info, at)
      /\ \A b \in Slots(info) : Stop(p, info, b) => at <= b
  BY FindResult DEF IsSet
<1>2. \A b \in Slots(info) : b < at => ~Stop(p, info, b)
  <2>1. Slots(info) \subseteq Nat
    BY SlotSets DEF BootSlots, CopySlots
  <2> HIDE DEF at
  <2>. QED  BY <1>1, <2>1
<1>3. NoneValid(p, info)
  BY FindValid DEF NoneValid
<1>. QED  BY <1>1, <1>2, <1>3 DEF Stop

LEMMA FoundValid ==
  ASSUME NEW p, NEW info \in {erase_req_info, boot_addr_info, copy_info_info},
         IsSet(p, info)
  PROVE  LET at == settings_find(p, info).at
         IN  /\ at \in Slots(info) /\ Valid(p, info, at) /\ at # NoSlot
             /\ MadeInvalid(p, info) = Programmed(p, FlagAt(info, at), << InvalidFlag >>)
<1>1. LET at == settings_find(p, info).at IN at \in Slots(info) /\ Valid(p, info, at)
  BY FindResult DEF IsSet
<1>2. NoSlot \notin Slots(info)
  BY SlotSets DEF BootSlots, CopySlots, NoSlot
<1>. QED  BY <1>1, <1>2 DEF MadeInvalid

LEMMA FlagBurnt ==
  ASSUME NEW p, NEW at \in 0 .. 63
  PROVE  Burnt(p, Programmed(p, at, <<InvalidFlag>>), at, <<InvalidFlag>>)
<1>1. Len(<<InvalidFlag>>) = 1 /\ \A k \in 1 .. 1 : <<InvalidFlag>>[k] # Erased
  BY WordForms
<1>2. at \in Nat /\ at + 1 <= 64
  OBVIOUS
<1>. QED  BY <1>1, <1>2, ProgrammedBurnt

LEMMA SetFindUpdate ==
  ASSUME UpdateInv, SetFind
  PROVE  UpdateInv'
<1> DEFINE info == Head(todo).info
           at == settings_find(page, info).at
<1>1. /\ pc = "set" /\ slot = NoSlot /\ todo # <<>>
      /\ pc' = IF at = NoSlot THEN "assert" ELSE pc
      /\ page' = MadeInvalid(page, info)
      /\ slot' = IF IsSet(page, info) THEN FlagAt(info, at) + 1 ELSE at
      /\ UNCHANGED <<image, running, todo, server, client>>
  BY DEF SetFind, airVars, IsSet
<1>2. /\ PageSound(page) /\ todo \in Todos /\ ~CopyPending
      /\ info = boot_addr_info => ~IsSet(page, erase_req_info)
      /\ info # boot_addr_info => AddressIn(page) = Base
  BY <1>1, AddressOf DEF UpdateInv, FinishInv
<1>3. NoneValid(page, copy_info_info)
  BY <1>2 DEF CopyPending
<1>4. info \in {erase_req_info, boot_addr_info, copy_info_info}
  BY <1>1, <1>2, Due, ItemFields DEF BootDue, EraseDue, CopyDue
<1>5. Head(todo').info = info
  BY <1>1
<1>6. at = NoSlot => ~IsSet(page, info)
  BY <1>4, FoundValid
<1> SUFFICES /\ PageSound(page') /\ NoneValid(page', copy_info_info)
             /\ info = boot_addr_info =>
                  ~IsSet(page', erase_req_info) /\ (at # NoSlot => BootSlotInv')
             /\ info # boot_addr_info => AddressIn(page') = Base
             /\ info = erase_req_info => (at # NoSlot => slot' \in {0, 3, 6})
             /\ info = copy_info_info => (at # NoSlot => CopySlotInv')
  <2>1. slot' # NoSlot => at # NoSlot /\ pc' = "set"
    BY <1>1, <1>6
  <2>2. SlotInv'
    BY <1>1, <1>5, <2>1 DEF SlotInv
  <2>. QED  BY <1>1, <1>2, <1>5, <2>2, SetStep
<1> HIDE DEF info
<1>7. CASE info = boot_addr_info /\ IsSet(page, info)
  <2>1. /\ at \in BootSlots /\ Valid(page, boot_addr_info, at)
        /\ page' = Programmed(page, at + 2, <<InvalidFlag>>) /\ slot' = at + 3
    <3>1. at \in BootSlots /\ Valid(page, boot_addr_info, at)
      BY <1>7, FoundValid, SlotSets
    <3>2. at \in Nat
      BY <3>1 DEF BootSlots
    <3>3. FlagAt(info, at) = at + 2
      BY <1>7, <3>2, FlagPlaces
    <3>. QED  BY <1>1, <1>4, <1>7, <3>1, <3>2, <3>3, FoundValid
  <2>2. Burnt(page, page', at + 2, <<InvalidFlag>>)
    <3>1. at + 2 \in 0 .. 63
      BY <2>1 DEF BootSlots
    <3>. QED  BY <2>1, <3>1, FlagBurnt
  <2> HIDE DEF at
  <2>3. /\ PageSound(page') /\ NoneValid(page', copy_info_info)
        /\ IsSet(page', erase_req_info) <=> IsSet(page, erase_req_info)
        /\ NoneValid(page', boot_addr_info)
        /\ \A b \in BootSlots : b < at + 3 => ~Stop(page', boot_addr_info, b)
        /\ at = 31 => page'[32] # Erased /\ page'[32][1] # "word"
    BY <1>2, <1>3, <2>1, <2>2, BootInvalid
  <2>4. BootSlotInv'
    <3>1. at + 3 \in BootSlots \cup {34} /\ (at + 3 = 34 => at = 31)
      BY <2>1 DEF BootSlots
    <3>. QED  BY <2>1, <2>3, <3>1 DEF BootSlotInv
  <2>. QED  BY <1>2, <1>7, <2>3, <2>4, InfoFields
<1>8. CASE info = erase_req_info /\ IsSet(page, info)
  <2>1. /\ at \in {0, 3}
        /\ page' = Programmed(page, at + 2, <<InvalidFlag>>) /\ slot' = at + 3
    <3>1. at \in {0, 3}
      BY <1>8, FoundValid, SlotSets
    <3>2. at \in Nat
      BY <3>1
    <3>3. FlagAt(info, at) = at + 2
      BY <1>8, <3>2, FlagPlaces
    <3>. QED  BY <1>1, <1>4, <1>8, <3>1, <3>2, <3>3, FoundValid
  <2>2. Burnt(page, page', at + 2, <<InvalidFlag>>)
    <3>1. at + 2 \in 0 .. 63
      BY <2>1
    <3>. QED  BY <2>1, <3>1, FlagBurnt
  <2> HIDE DEF at
  <2>3. /\ PageSound(page') /\ AddressIn(page') = AddressIn(page)
        /\ NoneValid(page', copy_info_info) <=> NoneValid(page, copy_info_info)
    <3>1. at + 2 \in 0 .. 8 /\ Len(<<InvalidFlag>>) \in 0 .. 2
      BY <2>1
    <3>. QED  BY <1>2, <2>2, <3>1, EraseBurnt
  <2>4. slot' \in {0, 3, 6}
    BY <2>1
  <2>. QED  BY <1>2, <1>3, <1>8, <2>3, <2>4, InfoFields
<1>9. CASE ~IsSet(page, info)
  <2>1. page' = page /\ slot' = at
    BY <1>1, <1>9 DEF MadeInvalid
  <2>2. ASSUME info = boot_addr_info, at # NoSlot PROVE BootSlotInv'
    <3>1. /\ at \in BootSlots /\ NoneValid(page, boot_addr_info)
          /\ \A b \in BootSlots : b < at => ~Stop(page, boot_addr_info, b)
      BY <1>2, <1>9, <2>2, SearchedFree, SlotSets DEF PageSound
    <3>2. at # 34
      BY <3>1 DEF BootSlots
    <3> HIDE DEF at
    <3>. QED  BY <2>1, <3>1, <3>2 DEF BootSlotInv
  <2>3. ASSUME info = erase_req_info, at # NoSlot PROVE slot' \in {0, 3, 6}
    <3>1. at \in {0, 3}
      <4>1. at \in Slots(erase_req_info)
        BY <1>9, <2>3, FindResult
      <4>. QED  BY <4>1, SlotSets
    <3>. QED  BY <2>1, <3>1
  <2>4. ASSUME info = copy_info_info, at # NoSlot PROVE CopySlotInv'
    <3>1. /\ at \in CopySlots /\ Free(page, copy_info_info, at)
          /\ \A b \in CopySlots : b < at => ~Stop(page, copy_info_info, b)
      BY <1>2, <1>9, <2>4, SearchedFree, SlotSets DEF PageSound
    <3> HIDE DEF at
    <3>2. at # 60
      BY <3>1, CopySlot
    <3>. QED  BY <2>1, <3>1, <3>2 DEF CopySlotInv
  <2>. QED  BY <1>2, <1>3, <2>1, <2>2, <2>3, <2>4
<1>10. CASE info = copy_info_info /\ IsSet(page, info)
  BY <1>3, <1>10, FindNone
<1>. QED  BY <1>4, <1>7, <1>8, <1>9, <1>10

-----------------------------------------------------------------------------
(* Restarts and the boot loader.                                           *)

LEMMA Restartable ==
  ASSUME UpdateInv
  PROVE  /\ ~CopyPending => Whole(BootAddress)
         /\ CopyPending => Whole(Spare)
<1>1. BootAddress \in Area
  BY AddressOf, AddressMeaning DEF UpdateInv
<1>2. CASE pc \in {"set", "assert"}
  BY <1>1, <1>2 DEF UpdateInv, FinishInv, BothWhole, Area
<1>3. CASE pc \in {"app", "clean"}
  BY <1>3 DEF UpdateInv, AppInv
<1>4. CASE pc \in {"boot", "erase", "copy", "done", "start"}
  BY <1>4 DEF UpdateInv, LoaderInv
<1>. QED  BY <1>2, <1>3, <1>4 DEF UpdateInv, PcInv

LEMMA RebootStep ==
  ASSUME UpdateInv, Reboot, PageSound(page'), EraseInv',
         (~CopyPending => Whole(BootAddress))',
         (CopyPending => Whole(Spare))'
  PROVE  UpdateInv'
<1>1. pc' = "boot" /\ todo' = <<>> /\ slot' = NoSlot /\ client'.phase = "idle"
  BY DEF Reboot, ClientIdle
<1>2. SlotInv' /\ FinishInv'
  BY <1>1 DEF SlotInv, FinishInv, Todos
<1>3. AppInv' /\ ClientInv'
  BY <1>1 DEF AppInv, ClientInv, Sending
<1>4. LoaderInv'
  BY <1>1 DEF LoaderInv
<1>. QED  BY <1>1, <1>2, <1>3, <1>4 DEF UpdateInv, PcInv

LEMMA RebootUpdate ==
  ASSUME UpdateInv, Reset \/ PowerLoss \/ PowerLossInSet \/ PowerLossInCopy
  PROVE  UpdateInv'
<1>1. Reboot
  BY DEF Reset, PowerLoss, PowerLossInSet, PowerLossInCopy, PowerFails
<1>2. PageSound(page) /\ EraseInv
  BY DEF UpdateInv
<1>3. CASE UNCHANGED <<image, page>>
  <2>1. /\ PageSound(page') /\ EraseInv'
        /\ CopyPending' <=> CopyPending
        /\ BootAddress' = BootAddress
    BY <1>2, <1>3, AddressOf DEF EraseInv, CopyPending
  <2>2. \A a \in Area : Whole(a)' <=> Whole(a)
    BY <1>3 DEF Whole, VersionOf
  <2>3. BootAddress \in Area /\ Spare \in Area
    BY AddressOf, <1>2, AddressMeaning DEF Area
  <2>4. /\ (~CopyPending => Whole(BootAddress))'
        /\ (CopyPending => Whole(Spare))'
    <3>1. Whole(BootAddress)' <=> Whole(BootAddress)
      BY <1>3, <2>1 DEF Whole, VersionOf
    <3>. QED  BY <2>1, <2>2, <2>3, <3>1, Restartable
  <2>. QED  BY <1>1, <2>1, <2>4, RebootStep
<1>4. CASE PowerLossInSet
  <2> DEFINE whole == inversion_data(Head(todo).data)
  <2>1. pc = "set" /\ slot # NoSlot /\ UNCHANGED image
    BY <1>4 DEF PowerLossInSet
  <2>2. PICK k \in 1 .. Len(whole) - 1 :
               page' = Programmed(page, slot, SubSeq(whole, 1, k))
    BY <1>4 DEF PowerLossInSet
  <2>3. PartOf(SubSeq(whole, 1, k), whole)
    BY <2>2 DEF PartOf
  <2>4. PageSound(page') /\ (IsSet(page', erase_req_info) => AddressIn(page') = Base)
    BY <2>1, <2>2, <2>3, WriteOutcome
  <2>5. \A a \in Area : Whole(a)'
    BY <2>1 DEF UpdateInv, FinishInv, BothWhole, Whole, VersionOf
  <2>6. BootAddress' \in Area
    BY <2>4, AddressOf, AddressMeaning
  <2>7. Whole(Base)' /\ Whole(Spare)'
    BY <2>5 DEF Area
  <2>8. Whole(BootAddress)'
    BY <2>6, <2>7 DEF Area, Whole, VersionOf
  <2>9. EraseInv'
    BY <2>4, AddressOf DEF EraseInv
  <2>. QED  BY <1>1, <2>4, <2>7, <2>8, <2>9, RebootStep
<1>5. CASE PowerLossInCopy
  <2>1. CopyPending /\ Whole(Spare) /\ copy.dst = Base
    BY <1>5 DEF UpdateInv, LoaderInv, PowerLossInCopy
  <2>2. image'[Spare] = image[Spare] /\ UNCHANGED page
    BY <1>5, <2>1, LayoutAssumption DEF PowerLossInCopy
  <2>3. Whole(Spare)' /\ CopyPending'
    BY <2>1, <2>2 DEF Whole, VersionOf, CopyPending
  <2>4. PageSound(page') /\ EraseInv'
    BY <1>2, <2>2, AddressOf DEF EraseInv
  <2>. QED  BY <1>1, <2>3, <2>4, RebootStep
<1>. QED  BY <1>3, <1>4, <1>5 DEF Reset, PowerLoss

(* What the stages of the boot loader leave alone. *)
LEMMA LoaderStep ==
  ASSUME UpdateInv, TransferInv, pc \in {"boot", "erase", "copy", "done", "start"},
         pc' \in {"boot", "erase", "copy", "done", "start"},
         UNCHANGED <<todo, slot, client>>, PageSound(page'), EraseInv', LoaderInv'
  PROVE  UpdateInv'
<1>1. slot = NoSlot /\ todo = <<>> /\ client.phase \notin {"send", "segments", "verified"}
  BY DEF UpdateInv, SlotInv, FinishInv, ClientInv, TransferInv, SendingInv, Sending
<1>2. SlotInv' /\ FinishInv'
  BY <1>1 DEF SlotInv, FinishInv, Todos
<1>3. AppInv' /\ ClientInv'
  BY <1>1 DEF AppInv, ClientInv, Sending
<1>. QED  BY <1>2, <1>3 DEF UpdateInv, PcInv

(* The request as fw_copy gets it. *)
LEMMA RequestRead ==
  ASSUME NEW p, PageSound(p), IsSet(p, copy_info_info)
  PROVE  /\ ~NoneValid(p, copy_info_info)
         /\ settings_get(p, copy_info_info)[1] = Spare
         /\ settings_get(p, copy_info_info)[2] = Base
         /\ settings_get(p, copy_info_info)[3] = ImagePages
<1> DEFINE at == settings_find(p, copy_info_info).at
<1>1. at \in CopySlots /\ Valid(p, copy_info_info, at)
  BY FoundValid, SlotSets
<1>2. at # 60
  BY <1>1, CopySlot
<1>3. \A w \in 0 .. 2 : p[at + w] = Word(CopyData[w + 1])
  BY <1>1 DEF PageSound
<1>4. \A w \in 1 .. 3 : settings_get(p, copy_info_info)[w] = ReadWord(p, at + w - 1)[2]
  BY InfoFields DEF settings_get
<1> HIDE DEF at
<1>5. \A w \in 0 .. 2 : ReadWord(p, at + w) = Word(CopyData[w + 1])
  BY <1>1, <1>2, <1>3, LayoutAssumption DEF ReadWord, CopySlots
<1>6. at + 1 - 1 = at + 0 /\ at + 2 - 1 = at + 1 /\ at + 3 - 1 = at + 2
  BY <1>1 DEF CopySlots
<1>7. /\ settings_get(p, copy_info_info)[1] = Word(CopyData[0 + 1])[2]
      /\ settings_get(p, copy_info_info)[2] = Word(CopyData[1 + 1])[2]
      /\ settings_get(p, copy_info_info)[3] = Word(CopyData[2 + 1])[2]
  BY <1>4, <1>5, <1>6
<1>8. CopyData[0 + 1] = Spare /\ CopyData[1 + 1] = Base /\ CopyData[2 + 1] = ImagePages
  BY DEF CopyData
<1>. QED  BY <1>1, <1>7, <1>8, WordForms, SlotSets DEF NoneValid

(* The pages of an image, counted through. *)
LEMMA PageAt ==
  ASSUME NEW s \in Sector, NEW p \in PageOf
  PROVE  /\ s * NPage + p \in 0 .. ImagePages - 1
         /\ (s * NPage + p) \div NPage = s
         /\ (s * NPage + p) % NPage = p
<1>1. s \in Nat /\ p \in Nat /\ p < NPage /\ s + 1 <= NSector /\ NPage \in Nat /\ NPage > 0
      /\ NSector \in Nat
  BY LayoutAssumption DEF Sector, PageOf
<1>2. s * NPage \in Nat /\ s * NPage >= 0
  BY <1>1
<1>3. (s + 1) * NPage <= NSector * NPage
  BY <1>1
<1>4. (s + 1) * NPage = s * NPage + NPage
  BY <1>1
<1>5. s * NPage + p \in 0 .. ImagePages - 1
  BY <1>1, <1>2, <1>3, <1>4 DEF ImagePages
<1>6. (s * NPage + p) \div NPage = s /\ (s * NPage + p) % NPage = p
  BY <1>1, <1>2, SMTT(30)
<1>. QED  BY <1>5, <1>6

LEMMA BootCopyUpdate ==
  ASSUME UpdateInv, TransferInv, BootCopy
  PROVE  UpdateInv'
<1>1. /\ pc = "boot" /\ i' = 0
      /\ UNCHANGED <<image, page, todo, slot, client>>
      /\ PageSound(page) /\ EraseInv
  BY DEF BootCopy, UpdateInv, airVars
<1>2. PageSound(page') /\ EraseInv'
  BY <1>1, AddressOf DEF EraseInv
<1>3. CASE IsSet(page, copy_info_info)
  <2>1. copy' = [src |-> Spare, dst |-> Base, size |-> ImagePages] /\ pc' = "erase"
    BY <1>1, <1>3, RequestRead DEF BootCopy, CopyRequest
  <2>2. CopyPending /\ CopyPending'
    BY <1>1, <1>3, RequestRead DEF CopyPending
  <2>3. Whole(Spare)'
    BY <1>1, <2>2, Restartable DEF Whole, VersionOf
  <2>4. i' \in 0 .. ImagePages - 1 /\ Copied'
    <3>1. 0 \in Sector /\ 0 \in PageOf
      BY LayoutAssumption DEF Sector, PageOf
    <3>2. ImagePages - 1 \in Nat
      BY <3>1, PageAt, LayoutAssumption DEF ImagePages
    <3>3. \A s \in Sector, p \in PageOf : ~(s * NPage + p < 0)
      BY PageAt
    <3>. QED  BY <1>1, <3>2, <3>3 DEF Copied
  <2>5. LoaderInv'
    BY <2>1, <2>2, <2>3, <2>4 DEF LoaderInv
  <2>. QED  BY <1>1, <1>2, <2>1, <2>5, LoaderStep
<1>4. CASE ~IsSet(page, copy_info_info)
  <2>1. pc' = "start"
    BY <1>4 DEF BootCopy
  <2>2. ~CopyPending /\ ~CopyPending'
    BY <1>1, <1>4, FindValid DEF CopyPending, NoneValid, PageSound
  <2>3. Whole(BootAddress)'
    BY <1>1, <2>2, AddressOf, Restartable DEF Whole, VersionOf
  <2>4. LoaderInv'
    BY <2>1, <2>2, <2>3 DEF LoaderInv
  <2>. QED  BY <1>1, <1>2, <2>1, <2>4, LoaderStep
<1>. QED  BY <1>3, <1>4

LEMMA CopyEraseUpdate ==
  ASSUME UpdateInv, TransferInv, CopyErase
  PROVE  UpdateInv'
<1>1. /\ pc = "erase" /\ pc' = "copy"
      /\ UNCHANGED <<page, todo, slot, client, copy, i>>
      /\ PageSound(page) /\ EraseInv /\ CopyPending /\ Whole(Spare)
      /\ copy = [src |-> Spare, dst |-> Base, size |-> ImagePages]
      /\ i \in 0 .. ImagePages - 1 /\ Copied
  BY DEF CopyErase, UpdateInv, LoaderInv, airVars, bootVars
<1>2. Arrays
  BY DEF TransferInv
<1>3. image' = IF i % NPage = 0 THEN [image EXCEPT ![Base][i \div NPage] = BlankSector]
                                ELSE image
  BY <1>1 DEF CopyErase
<1>4. image'[Spare] = image[Spare]
  BY <1>3, LayoutAssumption
<1>5. Whole(Spare)'
  BY <1>1, <1>4 DEF Whole, VersionOf
<1>6. Copied'
  <2> SUFFICES ASSUME NEW s \in Sector, NEW p \in PageOf, s * NPage + p < i
               PROVE  image'[Base][s][p] = image'[Spare][s][p]
    BY <1>1 DEF Copied
  <2>1. image'[Base][s] = image[Base][s]
    <3>1. CASE i % NPage = 0 /\ s = i \div NPage
      <4>1. i = s * NPage
        BY <1>1, <3>1, LayoutAssumption DEF Sector
      <4>2. s * NPage \in Int /\ p \in Nat
        BY LayoutAssumption DEF Sector, PageOf
      <4>. QED  BY <4>1, <4>2
    <3>2. CASE ~(i % NPage = 0 /\ s = i \div NPage)
      BY <1>2, <1>3, <3>2 DEF Arrays, Area
    <3>. QED  BY <3>1, <3>2
  <2>. QED  BY <1>1, <1>4, <2>1 DEF Copied
<1>7. PageSound(page') /\ EraseInv' /\ CopyPending'
  BY <1>1, AddressOf DEF EraseInv, CopyPending
<1>8. LoaderInv'
  BY <1>1, <1>5, <1>6, <1>7 DEF LoaderInv
<1>. QED  BY <1>1, <1>7, <1>8, LoaderStep

LEMMA CopyPageUpdate ==
  ASSUME UpdateInv, TransferInv, CopyPage
  PROVE  UpdateInv'
<1>1. /\ pc = "copy" /\ i' = i + 1
      /\ pc' = IF i + 1 = ImagePages THEN "done" ELSE "erase"
      /\ UNCHANGED <<page, todo, slot, client, copy>>
      /\ PageSound(page) /\ EraseInv /\ CopyPending /\ Whole(Spare)
      /\ copy = [src |-> Spare, dst |-> Base, size |-> ImagePages]
      /\ i \in 0 .. ImagePages - 1 /\ Copied
  BY DEF CopyPage, UpdateInv, LoaderInv, airVars
<1>2. Arrays
  BY DEF TransferInv
<1>3. image' = [image EXCEPT ![Base][i \div NPage][i % NPage] =
                  image[Spare][i \div NPage][i % NPage]]
  BY <1>1 DEF CopyPage
<1>4. image'[Spare] = image[Spare]
  BY <1>3, LayoutAssumption
<1>5. Whole(Spare)'
  BY <1>1, <1>4 DEF Whole, VersionOf
<1>6. ASSUME NEW s \in Sector, NEW p \in PageOf, s * NPage + p < i + 1
      PROVE  image'[Base][s][p] = image'[Spare][s][p]
  <2>1. CASE s = i \div NPage /\ p = i % NPage
    BY <1>2, <1>3, <1>4, <2>1 DEF Arrays, Area
  <2>2. CASE ~(s = i \div NPage /\ p = i % NPage)
    <3>1. s * NPage + p # i /\ s * NPage + p \in Int
      BY <2>2, PageAt
    <3>2. s * NPage + p < i
      BY <1>1, <1>6, <3>1
    <3>3. image[Base][s][p] = image[Spare][s][p]
      BY <1>1, <3>2 DEF Copied
    <3>4. image'[Base][s][p] = image[Base][s][p]
      BY <1>2, <1>3, <2>2 DEF Arrays, Area
    <3>. QED  BY <1>4, <3>3, <3>4
  <2>. QED  BY <2>1, <2>2
<1>7. PageSound(page') /\ EraseInv' /\ CopyPending'
  BY <1>1, AddressOf DEF EraseInv, CopyPending
<1>8. CASE i + 1 = ImagePages
  <2>1. pc' = "done"
    BY <1>1, <1>8
  <2>2. \A s \in Sector, p \in PageOf : image'[Base][s][p] = image'[Spare][s][p]
    <3>1. \A s \in Sector, p \in PageOf : s * NPage + p < i + 1
      BY <1>1, <1>8, PageAt
    <3>. QED  BY <1>6, <3>1
  <2>3. 0 \in Sector /\ 0 \in PageOf
    BY LayoutAssumption DEF Sector, PageOf
  <2>4. Whole(Base)'
    BY <1>5, <2>2, <2>3 DEF Whole, VersionOf
  <2>5. LoaderInv'
    BY <1>1, <1>5, <1>7, <2>1, <2>4 DEF LoaderInv
  <2>. QED  BY <1>1, <1>7, <2>1, <2>5, LoaderStep
<1>9. CASE i + 1 # ImagePages
  <2>1. pc' = "erase" /\ i' \in 0 .. ImagePages - 1
    <3>1. ImagePages \in Int
      BY LayoutAssumption DEF ImagePages
    <3>. QED  BY <1>1, <1>9, <3>1
  <2>2. Copied'
    BY <1>1, <1>6 DEF Copied
  <2>3. LoaderInv'
    BY <1>1, <1>5, <1>7, <2>1, <2>2 DEF LoaderInv
  <2>. QED  BY <1>1, <1>7, <2>1, <2>3, LoaderStep
<1>. QED  BY <1>8, <1>9

LEMMA CopyDoneUpdate ==
  ASSUME UpdateInv, TransferInv, CopyDone
  PROVE  UpdateInv'
<1>1. /\ pc = "done" /\ pc' = "start"
      /\ UNCHANGED <<image, todo, slot, client>>
      /\ page' = MadeInvalid(page, copy_info_info)
      /\ PageSound(page) /\ EraseInv /\ CopyPending /\ Whole(Spare) /\ Whole(Base)
  BY DEF CopyDone, UpdateInv, LoaderInv, airVars
<1> DEFINE at == settings_find(page, copy_info_info).at
<1>2. IsSet(page, copy_info_info)
  BY <1>1, FindValid DEF CopyPending, NoneValid, PageSound
<1>3. /\ at \in CopySlots /\ Valid(page, copy_info_info, at)
      /\ page' = Programmed(page, FlagAt(copy_info_info, at), <<InvalidFlag>>)
  BY <1>1, <1>2, FoundValid, SlotSets
<1> HIDE DEF at
<1>4. at # 60
  BY <1>3, CopySlot
<1>5. at \in Nat /\ at + 6 \in 0 .. 63
  BY <1>3, <1>4 DEF CopySlots
<1>6. Burnt(page, page', at + 6, <<InvalidFlag>>)
  BY <1>3, <1>5, FlagPlaces, FlagBurnt
<1>7. /\ PageSound(page') /\ NoneValid(page', copy_info_info)
      /\ AddressIn(page') = AddressIn(page)
      /\ IsSet(page', erase_req_info) <=> IsSet(page, erase_req_info)
  BY <1>1, <1>3, <1>6, CopyInvalid
<1>8. EraseInv' /\ ~CopyPending' /\ BootAddress' \in Area
  BY <1>1, <1>7, AddressOf, AddressMeaning DEF EraseInv, CopyPending
<1>9. Whole(BootAddress)'
  BY <1>1, <1>8 DEF Whole, VersionOf, Area
<1>10. LoaderInv'
  BY <1>1, <1>8, <1>9 DEF LoaderInv
<1>. QED  BY <1>1, <1>7, <1>8, <1>10, LoaderStep

(* boot_app *)
LEMMA BootAppUpdate ==
  ASSUME UpdateInv, TransferInv, BootApp
  PROVE  UpdateInv'
<1>1. /\ pc = "start" /\ pc' = "app" /\ running' = BootAddress
      /\ page' = IF IsSet(page, erase_req_info) THEN ErasedPage ELSE page
      /\ UNCHANGED <<image, todo, slot, client>>
      /\ PageSound(page) /\ EraseInv /\ ~CopyPending /\ Whole(BootAddress)
  BY DEF BootApp, UpdateInv, LoaderInv, airVars, bootVars
<1>2. BootAddress \in Area
  BY <1>1, AddressOf, AddressMeaning
<1>3. /\ slot = NoSlot /\ todo = <<>>
      /\ client.phase \notin {"send", "segments", "verified"}
  BY <1>1 DEF UpdateInv, SlotInv, FinishInv, ClientInv, TransferInv, SendingInv, Sending
<1>4. /\ PageSound(page') /\ NoneValid(page', copy_info_info)
      /\ ~IsSet(page', erase_req_info) /\ BootAddress' = BootAddress
  <2>1. CASE IsSet(page, erase_req_info)
    BY <1>1, <2>1, ErasedPageSound, AddressOf DEF EraseInv
  <2>2. CASE ~IsSet(page, erase_req_info)
    BY <1>1, <2>2, AddressOf DEF CopyPending
  <2>. QED  BY <2>1, <2>2
<1>5. Whole(running)'
  BY <1>1, <1>2 DEF Whole, VersionOf
<1>6. AppInv'
  BY <1>1, <1>2, <1>4, <1>5 DEF AppInv, CopyPending
<1>7. SlotInv' /\ FinishInv' /\ ClientInv' /\ EraseInv'
  BY <1>1, <1>3, <1>4 DEF SlotInv, FinishInv, Todos, ClientInv, Sending, EraseInv
<1>8. LoaderInv'
  BY <1>1 DEF LoaderInv
<1>. QED  BY <1>1, <1>4, <1>6, <1>7, <1>8 DEF UpdateInv, PcInv

-----------------------------------------------------------------------------
LEMMA NextUpdateInv == UpdateInv /\ TransferInv /\ [Next]_vars => UpdateInv'
<1> SUFFICES ASSUME UpdateInv, TransferInv, [Next]_vars PROVE UpdateInv'
  OBVIOUS
<1>1. CASE Transfer
  BY <1>1, RequestUpdate, WriteUpdate, FinishUpdate DEF Transfer
<1>2. CASE Firmware
  BY <1>2, WriteUpdate, SetFindUpdate, SetWriteUpdate, RebootUpdate, BootCopyUpdate,
     CopyEraseUpdate, CopyPageUpdate, CopyDoneUpdate, BootAppUpdate DEF Firmware
<1>3. CASE PowerLoss \/ PowerLossInSet \/ PowerLossInCopy
  BY <1>3, RebootUpdate
<1>4. CASE UNCHANGED vars
  <2>1. UNCHANGED <<image, page, pc, running, todo, slot, copy, i, server, client>>
    BY <1>4 DEF vars, bootVars, airVars
  <2>2. PcInv' /\ PageSound(page') /\ EraseInv'
    BY <2>1, AddressOf DEF UpdateInv, PcInv, EraseInv
  <2>3. SlotInv'
    BY <2>1 DEF UpdateInv, SlotInv, BootSlotInv, CopySlotInv
  <2>4. FinishInv'
    BY <2>1 DEF UpdateInv, FinishInv, BothWhole, Whole, VersionOf, CopyPending, BootAddress
  <2>5. AppInv'
    BY <2>1 DEF UpdateInv, AppInv, Whole, VersionOf, CopyPending, BootAddress
  <2>6. ClientInv'
    BY <2>1 DEF UpdateInv, ClientInv, Sending, Whole, VersionOf
  <2>7. LoaderInv'
    BY <2>1 DEF UpdateInv, LoaderInv, Copied, Whole, VersionOf, CopyPending, BootAddress
  <2>. QED  BY <2>2, <2>3, <2>4, <2>5, <2>6, <2>7 DEF UpdateInv
<1>. QED  BY <1>1, <1>2, <1>3, <1>4 DEF Next

(* The area that boot_app jumps to is of one version, wherever the power   *)
(* fails and whatever of a setting was written by then                     *)
(* (inflash_settings.c:99-110, boot_ram_le501x.c:273-327).                 *)
THEOREM OtaBootsWhole == Spec => []BootsWhole
<1>1. Init => UpdateInv /\ TransferInv
  BY InitUpdateInv, InitTransferInv
<1>2. UpdateInv /\ TransferInv /\ [Next]_vars => (UpdateInv /\ TransferInv)'
  BY NextUpdateInv, NextTransferInv
<1>3. UpdateInv => BootsWhole
  BY DEF UpdateInv, AppInv, BootsWhole
<1>. QED  BY <1>1, <1>2, <1>3, PTL DEF Spec

-----------------------------------------------------------------------------
(* What the pages of the areas can hold, and where i can be. *)
Content(v) == {Torn, Blank} \cup FirstVersion .. v

Images(v) == [Area -> [Sector -> [PageOf -> Content(v)]]]

ContentInv == version \in Nat \ {0} /\ image \in Images(version)

CountInv == i \in 0 .. ImagePages

LEMMA ImagePagesMost ==
  /\ ImagePages \in Nat /\ ImagePages >= 1
  /\ \A n \in 0 .. NSector : n \in 0 .. ImagePages
<1>1. NSector \in Nat /\ NPage \in Nat /\ NSector >= 1 /\ NPage >= 1
  BY LayoutAssumption
<1>2. NSector * NPage \in Nat
  BY <1>1
<1>3. NSector * NPage >= NSector
  <2>1. NSector * (NPage - 1) >= 0
    BY <1>1
  <2>2. NSector * (NPage - 1) = NSector * NPage - NSector
    BY <1>1
  <2>. QED  BY <1>1, <1>2, <2>1, <2>2
<1>. QED  BY <1>1, <1>2, <1>3 DEF ImagePages

LEMMA ImagesPut ==
  ASSUME NEW v, NEW f \in Images(v), NEW a \in Area, NEW d, NEW m, NEW x,
         m \in PageOf /\ d \in Sector => x \in Content(v)
  PROVE  [f EXCEPT ![a][d][m] = x] \in Images(v)
<1>1. ASSUME NEW g \in [PageOf -> Content(v)], d \in Sector
      PROVE  [g EXCEPT ![m] = x] \in [PageOf -> Content(v)]
  BY <1>1
<1>2. ASSUME NEW h \in [Sector -> [PageOf -> Content(v)]]
      PROVE  [h EXCEPT ![d][m] = x] \in [Sector -> [PageOf -> Content(v)]]
  BY <1>1
<1>. QED  BY <1>2 DEF Images

LEMMA ImagesErased ==
  ASSUME NEW v, NEW f \in Images(v), NEW a \in Area, NEW d
  PROVE  [f EXCEPT ![a][d] = BlankSector] \in Images(v)
<1>1. BlankSector \in [PageOf -> Content(v)]
  BY DEF BlankSector, Content
<1>2. ASSUME NEW h \in [Sector -> [PageOf -> Content(v)]]
      PROVE  [h EXCEPT ![d] = BlankSector] \in [Sector -> [PageOf -> Content(v)]]
  BY <1>1
<1>. QED  BY <1>2 DEF Images

LEMMA NextContentInv ==
  ContentInv /\ TransferInv /\ UpdateInv /\ [Next]_vars => ContentInv'
<1> SUFFICES ASSUME ContentInv, TransferInv, UpdateInv, [Next]_vars PROVE ContentInv'
  OBVIOUS
<1>1. version \in Nat \ {0} /\ image \in Images(version)
  BY DEF ContentInv
<1>2. version' \in {version, version + 1}
  BY <1>1 DEF Next, Transfer, Firmware, StartReq, StartRejected, NewSector, Segment,
     SectorAcked, IntegrityCheck, Abandon, Disconnect, Finish, CleanSector, SetFind,
     SetWrite, Reset, Reboot, BootCopy, CopyErase, CopyPage, CopyDone, BootApp,
     PowerLoss, PowerLossInSet, PowerLossInCopy, PowerFails, vars, airVars, bootVars
<1>3. version' \in Nat \ {0} /\ Images(version) \subseteq Images(version')
  <2>1. version' \in Nat \ {0} /\ Content(version) \subseteq Content(version')
    BY <1>1, <1>2 DEF Content, FirstVersion
  <2>. QED  BY <2>1 DEF Images
<1>4. Torn \in Content(version) /\ Blank \in Content(version)
      /\ version \in Content(version)
  BY <1>1 DEF Content, FirstVersion
<1> SUFFICES image' \in Images(version)
  BY <1>3 DEF ContentInv
<1>5. CASE UNCHANGED image
  BY <1>1, <1>5
<1>6. CASE CleanSector
  <2>1. server.base \in Area
    BY <1>6 DEF CleanSector, TransferInv, SendingInv, Sending
  <2>. QED  BY <1>1, <1>6, <2>1, ImagesErased DEF CleanSector
<1>7. CASE \E x \in PageOf : Segment(x)
  <2>1. PICK x \in PageOf : Segment(x)
    BY <1>7
  <2>2. server.base \in Area
    BY <2>1 DEF Segment, TransferInv, SendingInv, Sending
  <2>3. PICK v \in {version, Torn} :
           image' = [image EXCEPT ![server.base][server.sector][x] = v]
    BY <2>1 DEF Segment
  <2>. QED  BY <1>1, <1>4, <2>2, <2>3, ImagesPut
<1>8. CASE CopyErase \/ CopyPage \/ PowerLossInCopy
  <2>1. copy = [src |-> Spare, dst |-> Base, size |-> ImagePages]
    BY <1>8 DEF CopyErase, CopyPage, PowerLossInCopy, UpdateInv, LoaderInv
  <2>2. copy.src = Spare /\ copy.dst = Base /\ Spare \in Area /\ Base \in Area
    BY <2>1 DEF Area
  <2>3. CASE CopyErase
    BY <1>1, <2>2, <2>3, ImagesErased DEF CopyErase
  <2>4. CASE CopyPage
    <3> DEFINE d == i \div NPage
               m == i % NPage
    <3>1. image' = [image EXCEPT ![Base][d][m] = image[Spare][d][m]]
      BY <2>2, <2>4 DEF CopyPage
    <3> HIDE DEF d, m
    <3>2. d \in Sector /\ m \in PageOf => image[Spare][d][m] \in Content(version)
      BY <1>1, <2>2 DEF Images
    <3>. QED  BY <1>1, <2>2, <3>1, <3>2, ImagesPut
  <2>5. CASE PowerLossInCopy
    BY <1>1, <1>4, <2>2, <2>5, ImagesPut DEF PowerLossInCopy
  <2>. QED  BY <1>8, <2>3, <2>4, <2>5
<1>. QED  BY <1>5, <1>6, <1>7, <1>8
          DEF Next, Transfer, Firmware, StartReq, StartRejected, NewSector, SectorAcked,
              IntegrityCheck, Abandon, Disconnect, Finish, SetFind, SetWrite, Reset,
              BootCopy, CopyDone, BootApp, PowerLoss, PowerLossInSet, vars

LEMMA NextCountInv ==
  CountInv /\ TransferInv /\ UpdateInv /\ [Next]_vars => CountInv'
<1> SUFFICES ASSUME CountInv, TransferInv, UpdateInv, [Next]_vars PROVE CountInv'
  OBVIOUS
<1>1. 0 \in 0 .. ImagePages
  BY ImagePagesMost
<1>2. CASE i' = i \/ i' = 0
  BY <1>1, <1>2 DEF CountInv
<1>3. CASE CleanSector
  <2>1. pc = "clean" /\ i' \in {0, i + 1}
    BY <1>3 DEF CleanSector
  <2>2. i \in Sector
    BY <2>1 DEF TransferInv, CleanInv
  <2>. QED  BY <1>1, <2>1, <2>2, ImagePagesMost, LayoutAssumption DEF CountInv, Sector
<1>4. CASE CopyPage
  <2>1. i' = i + 1 /\ i \in 0 .. ImagePages - 1
    BY <1>4 DEF CopyPage, UpdateInv, LoaderInv
  <2>. QED  BY <2>1, ImagePagesMost DEF CountInv
<1>. QED  BY <1>2, <1>3, <1>4
          DEF Next, Transfer, Firmware, StartReq, StartRejected, NewSector, Segment,
              SectorAcked, IntegrityCheck, Abandon, Disconnect, Finish, SetFind, SetWrite,
              Reset, Reboot, BootCopy, CopyErase, CopyDone, BootApp, PowerLoss,
              PowerLossInSet, PowerLossInCopy, PowerFails, vars, bootVars

(* What is in the flash was sent, and the copy is never past its image     *)
(* (fota_svc_server.c:405-472, boot_ram_le501x.c:273-286).                 *)
THEOREM OtaTypeOK == Spec => []TypeOK
<1> DEFINE Inv == UpdateInv /\ TransferInv /\ ContentInv /\ CountInv
<1>1. Init => Inv
  <2> SUFFICES ASSUME Init PROVE ContentInv /\ CountInv
    BY InitUpdateInv, InitTransferInv
  <2>1. version = 1 /\ i = 0
    BY DEF Init, FirstVersion
  <2>2. FirstVersion \in Content(1) /\ Blank \in Content(1)
    BY DEF Content, FirstVersion
  <2>3. image \in Images(1)
    BY <2>2 DEF Init, Images
  <2>. QED  BY <2>1, <2>3, ImagePagesMost DEF ContentInv, CountInv
<1>2. Inv /\ [Next]_vars => Inv'
  BY NextUpdateInv, NextTransferInv, NextContentInv, NextCountInv
<1>3. Inv => TypeOK
  <2> SUFFICES ASSUME Inv PROVE TypeOK
    OBVIOUS
  <2>1. image \in [Area -> [Sector -> [PageOf -> Content(version)]]]
    BY DEF ContentInv, Images
  <2>2. pc \in {"erase", "copy"} => i < copy.size /\ copy.size = NSector * NPage
    <3> SUFFICES ASSUME pc \in {"erase", "copy"}
                 PROVE  i < copy.size /\ copy.size = NSector * NPage
      OBVIOUS
    <3>1. copy.size = ImagePages /\ i \in 0 .. ImagePages - 1
      BY DEF UpdateInv, LoaderInv
    <3>. QED  BY <3>1, ImagePagesMost DEF ImagePages
  <2>3. PcInv /\ server.ack \subseteq PageOf
    BY DEF UpdateInv, TransferInv, ServerOK
  <2>4. i \in 0 .. NSector * NPage
    BY DEF CountInv, ImagePages
  <2>. QED  BY <2>1, <2>2, <2>3, <2>4 DEF TypeOK, PcInv, Content
<1>. QED  BY <1>1, <1>2, <1>3, PTL DEF Spec
=============================================================================
