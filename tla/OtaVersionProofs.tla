-------------------------- MODULE OtaVersionProofs --------------------------
(***************************************************************************)
(* The boot loader starts the version it may start.  That holds as long as *)
(* no more updates are begun than the boot address has slots: one more,    *)
(* and settings_set finds no slot or writes one that is not free.          *)
(*                                                                         *)
(* The slots are used one after the other and each once, whatever the      *)
(* power losses leave of a write (Frontier), and an update that is under   *)
(* way has not used its slot yet (Used).  So the slot of a write is free   *)
(* (SlotFree), what is written is what the next start reads (BootStored),  *)
(* and when FINISH has made its settings they name the area of the new     *)
(* version (PromiseInv).                                                   *)
(***************************************************************************)
EXTENDS OtaProofs

(* An update is under way that FINISH has still to make a setting for,     *)
(* other than the request to erase them.                                   *)
SettingDue == pc \in {"set", "assert"} => todo \notin {<<>>, <<EraseItem>>}
Pending == client.phase \in {"send", "segments", "verified"} /\ SettingDue

(* The updates that had their chance to use a slot since the erase.        *)
Used == version - FirstVersion - IF Pending THEN 1 ELSE 0

(* The slots before s are used, what is from s on of the range is erased,  *)
(* only the last one used can hold the address, and n updates account for  *)
(* it.  The last slot, 31, ends in the words that a request to copy may    *)
(* have taken; whoever took them has not used a slot.                      *)
Frontier(p, s, n) ==
  /\ s \in BootSlots \cup {34}
  /\ \A w \in s .. 31 : p[w] = Erased
  /\ \A b \in BootSlots : b < s => /\ ~Free(p, boot_addr_info, b)
                                   /\ Valid(p, boot_addr_info, b) => b = s - 3
  /\ s <= 16 + 3 * n
  /\ s <= 31 /\ ~(p[32] = Erased /\ p[33] = Erased) => s <= 13 + 3 * n

FrontInv ==
  \E s \in BootSlots \cup {34} :
     /\ Frontier(page, s, Used)
     /\ slot # NoSlot /\ Head(todo).info = boot_addr_info => slot = s

LimitInv == version \in FirstVersion .. FirstVersion + UpdateLimit

(* What FINISH has still to set for an update in area a.                   *)
TodoFor(a) ==
  \/ todo = <<BootItem(a)>>
  \/ a = Base /\ (todo = <<BootItem(Base), EraseItem>> \/ todo = <<EraseItem>>)
  \/ a = Spare /\ (todo = <<EraseItem, CopyItem>> \/ todo = <<CopyItem>>)

(* Once nothing is left to set, the settings say that the area of the      *)
(* update starts, or is copied and started.                                *)
PromiseInv ==
  pc = "set" =>
    /\ client.phase = "verified"
    /\ \/ todo # <<>> /\ TodoFor(server.base)
       \/ todo = <<>> /\ IF CopyPending THEN server.base = Spare
                                        ELSE server.base = BootAddress

(* Where the next start could lead is of a version it may find.            *)
AllowedInv ==
  /\ client.phase = "verified" => VersionOf(server.base) = version
  /\ pc \in {"app", "clean"} => VersionOf(running) \in allowed
  /\ pc \in {"set", "assert"} => \A a \in Area : VersionOf(a) \in allowed
  /\ pc \in {"boot", "start"} /\ ~CopyPending => VersionOf(BootAddress) \in allowed
  /\ pc \in {"boot", "erase", "copy", "done"} /\ CopyPending => VersionOf(Spare) \in allowed
  /\ pc = "done" => VersionOf(Base) = VersionOf(Spare)

(* A boot address goes where nothing was written before.                   *)
SlotFree == slot # NoSlot /\ Head(todo).info = boot_addr_info =>
              slot \in BootSlots /\ Free(page, boot_addr_info, slot)

(* The application runs, and the client sends.                             *)
LEMMA AppVersion ==
  ASSUME UpdateInv, TransferInv, AllowedInv,
         \/ \E a \in Area : StartReq(a) \/ StartRejected(a)
         \/ NewSector \/ SectorAcked \/ IntegrityCheck \/ Abandon \/ Disconnect
         \/ CleanSector \/ \E p \in PageOf : Segment(p)
  PROVE  PromiseInv' /\ AllowedInv'
<1>1. /\ pc \in {"app", "clean"} /\ pc' \in {"app", "clean"}
      /\ UNCHANGED <<running, allowed>>
  BY DEF TransferInv, SendingInv, StartReq, StartRejected, NewSector, SectorAcked,
         IntegrityCheck, Abandon, Disconnect, CleanSector, Segment, bootVars
<1>2. PromiseInv'
  BY <1>1 DEF PromiseInv
<1>3. running \in Area
  BY <1>1 DEF UpdateInv, AppInv
<1>4. image'[running] = image[running]
  <2>1. CASE UNCHANGED image
    BY <2>1
  <2>2. CASE CleanSector \/ \E p \in PageOf : Segment(p)
    <3>1. Sending
      BY <2>2 DEF TransferInv, SendingInv, CleanSector, Segment, Sending
    <3>2. server.base \in Area /\ server.base # running
      BY <3>1 DEF UpdateInv, ClientInv
    <3>. QED  BY <1>3, <2>2, <3>2 DEF TransferInv, Arrays, CleanSector, Segment
  <2>. QED  BY <2>1, <2>2 DEF StartReq, StartRejected, NewSector, SectorAcked,
                              IntegrityCheck, Abandon, Disconnect
<1>5. VersionOf(running') = VersionOf(running) /\ VersionOf(running)' \in allowed'
  BY <1>1, <1>4 DEF AllowedInv, VersionOf
<1>6. ASSUME client'.phase = "verified"
      PROVE  VersionOf(server.base)' = version'
  <2>1. CASE IntegrityCheck
    <3>1. UNCHANGED <<image, server, version>>
      BY <2>1 DEF IntegrityCheck
    <3>2. client \in [phase : Phase, sector : Nat]
      BY DEF TransferInv, ServerOK
    <3>3. VersionOf(server.base) = version
      BY <2>1, CheckedWhole
    <3>. QED  BY <3>1, <3>3 DEF VersionOf
  <2>2. CASE CleanSector \/ \E p \in PageOf : Segment(p)
    BY <1>6, <2>2 DEF TransferInv, SendingInv, CleanSector, Segment, airVars, Sending
  <2>3. ASSUME NEW a \in Area PROVE ~StartReq(a) /\ ~StartRejected(a)
    <3>1. StartReq(a) => client' = [phase |-> "send", sector |-> 0]
      BY Zenon DEF StartReq
    <3>2. StartRejected(a) => client' = [phase |-> "rejected", sector |-> 0]
      BY Zenon DEF StartRejected
    <3>. QED  BY <1>6, <3>1, <3>2
  <2>4. ~Abandon /\ ~Disconnect
    BY <1>6 DEF Abandon, Disconnect, ClientIdle
  <2>5. ~NewSector /\ ~SectorAcked
    BY <1>6 DEF NewSector, SectorAcked, TransferInv, ServerOK
  <2>. QED  BY <2>1, <2>2, <2>3, <2>4, <2>5
<1>. QED  BY <1>1, <1>2, <1>5, <1>6 DEF AllowedInv

LEMMA FinishVersion ==
  ASSUME UpdateInv, AllowedInv, NEW kind \in Kind, Finish(kind)
  PROVE  PromiseInv' /\ AllowedInv'
<1>1. /\ pc = "app" /\ client.phase = "verified" /\ pc' = "set"
      /\ kind \in {"copy", "copy_erase"} => server.base = Spare
      /\ kind = "boot_erase" => server.base = Base
      /\ todo' = FinishSettings(kind, server.base)
      /\ allowed' = allowed \cup {version}
      /\ UNCHANGED <<image, page, running, slot, server, client, version>>
  BY DEF Finish, airVars
<1>2. /\ server.base \in Area /\ server.base # running /\ running \in Area
  BY <1>1 DEF UpdateInv, ClientInv, AppInv
<1>3. VersionOf(server.base) = version /\ VersionOf(running) \in allowed
  BY <1>1 DEF AllowedInv
<1>4. \A a \in Area : VersionOf(a)' \in allowed'
  BY <1>1, <1>2, <1>3 DEF Area, VersionOf
<1>5. AllowedInv'
  BY <1>1, <1>3, <1>4 DEF AllowedInv, VersionOf
<1>6. todo' # <<>> /\ TodoFor(server.base)'
  <2>1. CASE kind = "boot"
    <3>1. todo' = <<BootItem(server.base)>>
      BY <1>1, <2>1 DEF FinishSettings, BootItem
    <3>. QED  BY <1>1, <3>1 DEF TodoFor
  <2>2. CASE kind = "boot_erase"
    <3>1. todo' = <<BootItem(Base)>> \o <<EraseItem>> \o <<>>
      BY <1>1, <2>2 DEF FinishSettings, BootItem, EraseItem
    <3>2. todo' = <<BootItem(Base), EraseItem>> /\ server'.base = Base
      BY <1>1, <2>2, <3>1, Joined
    <3>. QED  BY <3>2 DEF TodoFor
  <2>3. CASE kind = "copy"
    <3>1. todo' = <<CopyItem>> /\ server'.base = Spare
      BY <1>1, <2>3 DEF FinishSettings, CopyItem, CopyData, ImagePages
    <3>. QED  BY <3>1 DEF TodoFor
  <2>4. CASE kind = "copy_erase"
    <3>1. todo' = <<>> \o <<EraseItem>> \o <<CopyItem>>
      BY <1>1, <2>4 DEF FinishSettings, CopyItem, EraseItem, CopyData, ImagePages
    <3>2. todo' = <<EraseItem, CopyItem>> /\ server'.base = Spare
      BY <1>1, <2>4, <3>1, Joined
    <3>. QED  BY <3>2 DEF TodoFor
  <2>. QED  BY <2>1, <2>2, <2>3, <2>4, KindAssumption
<1>7. PromiseInv'
  BY <1>1, <1>6 DEF PromiseInv
<1>. QED  BY <1>5, <1>7

LEMMA SetFindVersion ==
  ASSUME PromiseInv, AllowedInv, SetFind
  PROVE  PromiseInv' /\ AllowedInv'
<1>1. /\ pc = "set" /\ todo # <<>> /\ pc' \in {"set", "assert"}
      /\ UNCHANGED <<image, running, todo, server, client, version, allowed>>
  BY DEF SetFind, airVars
<1>2. PromiseInv'
  BY <1>1 DEF PromiseInv, TodoFor
<1>3. AllowedInv'
  BY <1>1 DEF AllowedInv, VersionOf
<1>. QED  BY <1>2, <1>3

(* A boot address that goes into a free slot is the one that is found.     *)
LEMMA BootStored ==
  ASSUME NEW p, NEW a \in Area, NEW s \in BootSlots, Free(p, boot_addr_info, s),
         NEW q, q = Programmed(p, s, inversion_data(<<a>>)), PageSound(q)
  PROVE  AddressIn(q) = a
<1>1. s \in 0 .. 61 /\ s \in Nat /\ s + 2 <= 64
  BY DEF BootSlots
<1>2. p[s] = Erased /\ p[s + 1] = Erased /\ p[s + 2] = Erased
  BY <1>1, SmallSlot
<1> DEFINE words == <<Word(a), Complement(a)>>
<1>3. Len(words) = 2 /\ words[1] = Word(a) /\ words[2] = Complement(a)
      /\ \A k \in 1 .. Len(words) : words[k] # Erased
  BY WordForms
<1>4. q = Programmed(p, s, words)
  BY InversionOfOne
<1> HIDE DEF words
<1>5. Burnt(p, q, s, words)
  <2>1. Len(words) \in Nat /\ s + Len(words) <= 64
    BY <1>1, <1>3
  <2>. QED  BY <1>1, <1>3, <1>4, <2>1, ProgrammedBurnt
<1>6. q[s] = Word(a) /\ q[s + 1] = Complement(a) /\ q[s + 2] = Erased
  BY <1>1, <1>2, <1>3, <1>5 DEF Burnt
<1>7. Valid(q, boot_addr_info, s)
  <2>1. q[s][1] = "word" /\ q[s + 1] = Complement(q[s][2])
    BY <1>6, WordForms
  <2>. QED  BY <1>1, <1>6, <2>1, SmallSlot
<1>. QED  BY <1>6, <1>7, AddressMeaning, WordForms

(* A request to copy is one that the boot loader finds.                    *)
LEMMA CopyStored ==
  ASSUME NEW p, NEW s \in CopySlots, Free(p, copy_info_info, s),
         NEW q, q = Programmed(p, s, inversion_data(CopyData))
  PROVE  ~NoneValid(q, copy_info_info)
<1>1. inversion_data(CopyData) = CopyWords
  BY InversionOfThree DEF CopyData, CopyWords
<1>2. Len(CopyWords) = 6 /\ \A k \in 1 .. 6 : CopyWords[k] # Erased
  BY WordForms DEF CopyWords
<1>3. s # 60 /\ s \in Nat /\ s + 6 <= 63 /\ Unwritten(p, s)
  BY CopySlot DEF CopySlots
<1>4. Burnt(p, q, s, CopyWords)
  <2>1. Len(CopyWords) \in Nat /\ s + Len(CopyWords) <= 64
        /\ \A k \in 1 .. Len(CopyWords) : CopyWords[k] # Erased
    BY <1>2, <1>3
  <2>. QED  BY <1>1, <1>3, <2>1, ProgrammedBurnt
<1>5. CopyWritten(p, q, s, 6)
  BY <1>2, <1>4, CopyBurnt
<1>6. \A k \in 0 .. 5 : q[s + k] = CopyWords[k + 1]
  BY <1>5 DEF CopyWritten
<1>7. q[s + 6] = Erased
  <2>1. q[s + 6] = p[s + 6]
    BY <1>3, <1>5 DEF CopyWritten
  <2>. QED  BY <1>3, <2>1 DEF Unwritten
<1>8. Checked(q, s)
  <2>1. \A k \in 0 .. 2 : CopyWords[k + 1][1] = "word"
                          /\ CopyWords[k + 3 + 1] = Complement(CopyWords[k + 1][2])
    BY WordForms DEF CopyWords
  <2>2. \A k \in 0 .. 2 : s + k + 3 = s + (k + 3) /\ k \in 0 .. 5 /\ k + 3 \in 0 .. 5
    BY <1>3
  <2>. QED  BY <1>6, <2>1, <2>2 DEF Checked
<1>9. Valid(q, copy_info_info, s)
  BY <1>3, <1>7, <1>8, CopySlot
<1>. QED  BY <1>9, SlotSets DEF NoneValid

LEMMA SetWriteVersion ==
  ASSUME UpdateInv, PromiseInv, AllowedInv, SlotFree, SetWrite
  PROVE  PromiseInv' /\ AllowedInv'
<1> DEFINE words == inversion_data(Head(todo).data)
<1>1. /\ pc = "set" /\ slot # NoSlot /\ pc' = "set"
      /\ page' = Programmed(page, slot, words) /\ todo' = Tail(todo)
      /\ UNCHANGED <<image, running, server, client, version, allowed>>
  BY DEF SetWrite, airVars
<1>2. AllowedInv'
  BY <1>1 DEF AllowedInv, VersionOf
<1>3. PartOf(words, words)
  BY DEF PartOf
<1>4. /\ todo # <<>> /\ PageSound(page')
      /\ \A a \in Area : BootDue(a) =>
           AddressIn(page') \in {a, Base} /\ NoneValid(page', copy_info_info)
      /\ EraseDue => AddressIn(page') = Base /\ NoneValid(page', copy_info_info)
  BY <1>1, <1>3, WriteOutcome
<1>5. client.phase = "verified" /\ TodoFor(server.base)
  BY <1>1, <1>4 DEF PromiseInv
<1>6. server.base \in Area
  BY <1>5 DEF UpdateInv, ClientInv
<1>7. CASE todo = <<BootItem(server.base)>>
  <2>1. Head(todo) = BootItem(server.base) /\ todo' = <<>> /\ BootDue(server.base)
    BY <1>1, <1>7 DEF BootDue
  <2>2. Head(todo).info = boot_addr_info /\ Head(todo).data = <<server.base>>
    BY <2>1, ItemFields
  <2>3. slot \in BootSlots /\ Free(page, boot_addr_info, slot)
    BY <1>1, <2>2 DEF SlotFree
  <2>4. AddressIn(page') = server.base
    BY <1>1, <1>4, <1>6, <2>2, <2>3, BootStored
  <2>5. ~CopyPending' /\ BootAddress' = server.base
    BY <1>4, <1>6, <2>1, <2>4, AddressOf DEF CopyPending
  <2>. QED  BY <1>1, <1>2, <1>5, <2>1, <2>5 DEF PromiseInv
<1>8. CASE server.base = Base /\ todo = <<BootItem(Base), EraseItem>>
  <2>1. todo' = <<EraseItem>>
    BY <1>1, <1>8
  <2>2. todo' # <<>> /\ TodoFor(server.base)'
    BY <1>1, <1>8, <2>1 DEF TodoFor
  <2>. QED  BY <1>1, <1>2, <1>5, <2>2 DEF PromiseInv
<1>9. CASE server.base = Base /\ todo = <<EraseItem>>
  <2>1. todo' = <<>> /\ EraseDue
    BY <1>1, <1>9 DEF EraseDue
  <2>2. ~CopyPending' /\ BootAddress' = Base
    BY <1>4, <2>1, AddressOf DEF CopyPending
  <2>. QED  BY <1>1, <1>2, <1>5, <1>9, <2>1, <2>2 DEF PromiseInv
<1>10. CASE server.base = Spare /\ todo = <<EraseItem, CopyItem>>
  <2>1. todo' = <<CopyItem>>
    BY <1>1, <1>10
  <2>2. todo' # <<>> /\ TodoFor(server.base)'
    BY <1>1, <1>10, <2>1 DEF TodoFor
  <2>. QED  BY <1>1, <1>2, <1>5, <2>2 DEF PromiseInv
<1>11. CASE server.base = Spare /\ todo = <<CopyItem>>
  <2>1. todo' = <<>> /\ Head(todo) = CopyItem
    BY <1>1, <1>11
  <2>2. Head(todo).info = copy_info_info /\ Head(todo).data = CopyData
    BY <2>1, ItemFields
  <2>3. slot \in CopySlots /\ Free(page, copy_info_info, slot)
    BY <1>1, <2>2 DEF UpdateInv, SlotInv, CopySlotInv
  <2>4. CopyPending'
    BY <1>1, <2>2, <2>3, CopyStored DEF CopyPending
  <2>. QED  BY <1>1, <1>2, <1>5, <1>11, <2>1, <2>4 DEF PromiseInv
<1>. QED  BY <1>5, <1>7, <1>8, <1>9, <1>10, <1>11 DEF TodoFor

LEMMA ResetVersion ==
  ASSUME UpdateInv, PromiseInv, AllowedInv, Reset
  PROVE  PromiseInv' /\ AllowedInv'
<1>1. /\ pc = "set" /\ todo = <<>> /\ pc' = "boot" /\ allowed' = {version}
      /\ client'.phase = "idle" /\ UNCHANGED <<image, page, version>>
  BY DEF Reset, Reboot, ClientIdle
<1>2. /\ VersionOf(server.base) = version
      /\ IF CopyPending THEN server.base = Spare ELSE server.base = BootAddress
  BY <1>1 DEF PromiseInv, AllowedInv
<1>3. /\ CopyPending' <=> CopyPending
      /\ BootAddress' = BootAddress
  BY <1>1, AddressOf DEF CopyPending
<1>4. /\ CopyPending => VersionOf(Spare) = version
      /\ ~CopyPending => VersionOf(BootAddress) = version
  BY <1>2
<1>5. VersionOf(Spare)' = VersionOf(Spare)
      /\ VersionOf(BootAddress)' = VersionOf(BootAddress)
  BY <1>1, <1>3 DEF VersionOf
<1>. QED  BY <1>1, <1>3, <1>4, <1>5 DEF PromiseInv, AllowedInv

(* Whatever was written by then, a restart finds a version that it may.    *)
LEMMA RestartVersion ==
  ASSUME UpdateInv, AllowedInv
  PROVE  /\ ~CopyPending => VersionOf(BootAddress) \in allowed
         /\ CopyPending => VersionOf(Spare) \in allowed
<1>1. BootAddress \in Area
  BY AddressOf, AddressMeaning DEF UpdateInv
<1>2. CASE pc \in {"set", "assert"}
  BY <1>1, <1>2 DEF AllowedInv, Area
<1>3. CASE pc \in {"app", "clean"}
  BY <1>3 DEF UpdateInv, AppInv, AllowedInv
<1>4. CASE pc \in {"boot", "erase", "copy", "done", "start"}
  BY <1>4 DEF UpdateInv, LoaderInv, AllowedInv
<1>. QED  BY <1>2, <1>3, <1>4 DEF UpdateInv, PcInv

LEMMA LossVersion ==
  ASSUME UpdateInv, AllowedInv, PowerLoss \/ PowerLossInSet \/ PowerLossInCopy
  PROVE  PromiseInv' /\ AllowedInv'
<1>1. pc' = "boot" /\ client'.phase = "idle" /\ UNCHANGED allowed
  BY DEF PowerLoss, PowerLossInSet, PowerLossInCopy, PowerFails, Reboot, ClientIdle
<1>2. UpdateInv'
  BY RebootUpdate
<1>3. BootAddress' \in Area
  BY <1>2, AddressOf, AddressMeaning DEF UpdateInv
<1> SUFFICES /\ ~CopyPending' => VersionOf(BootAddress)' \in allowed
             /\ CopyPending' => VersionOf(Spare)' \in allowed
  BY <1>1 DEF PromiseInv, AllowedInv
<1>4. CASE PowerLoss
  <2>1. /\ CopyPending' <=> CopyPending
        /\ BootAddress' = BootAddress /\ UNCHANGED image
    BY <1>4, AddressOf DEF PowerLoss, CopyPending
  <2>. QED  BY <2>1, RestartVersion DEF VersionOf
<1>5. CASE PowerLossInSet
  <2>1. pc = "set" /\ UNCHANGED image
    BY <1>5 DEF PowerLossInSet
  <2>. QED  BY <1>3, <2>1 DEF AllowedInv, VersionOf, Area
<1>6. CASE PowerLossInCopy
  <2>1. CopyPending /\ copy.dst = Base /\ pc = "copy"
    BY <1>6 DEF UpdateInv, LoaderInv, PowerLossInCopy
  <2>2. image'[Spare] = image[Spare] /\ UNCHANGED page
    BY <1>6, <2>1, LayoutAssumption DEF PowerLossInCopy
  <2>3. CopyPending' /\ VersionOf(Spare)' \in allowed
    BY <2>1, <2>2 DEF CopyPending, VersionOf, AllowedInv
  <2>. QED  BY <2>3
<1>. QED  BY <1>4, <1>5, <1>6

(* The copy gives Base the version of Spare.                               *)
LEMMA LoaderVersion ==
  ASSUME UpdateInv, TransferInv, AllowedInv,
         BootCopy \/ CopyErase \/ CopyPage \/ CopyDone \/ BootApp
  PROVE  PromiseInv' /\ AllowedInv'
<1>1. /\ pc \in {"boot", "erase", "copy", "done", "start"} /\ UNCHANGED client
      /\ pc' \notin {"set", "assert", "clean"}
  BY DEF BootCopy, CopyErase, CopyPage, CopyDone, BootApp, airVars
<1>2. client'.phase # "verified"
  BY <1>1 DEF UpdateInv, ClientInv
<1>3. UpdateInv'
  BY BootCopyUpdate, CopyEraseUpdate, CopyPageUpdate, CopyDoneUpdate, BootAppUpdate
<1>4. BootAddress \in Area /\ BootAddress' \in Area
  BY <1>3, AddressOf, AddressMeaning DEF UpdateInv
<1>5. PromiseInv'
  BY <1>1 DEF PromiseInv
<1>6. CASE BootCopy
  <2>1. pc' \in {"erase", "start"} /\ UNCHANGED <<image, page, allowed>>
    BY <1>6 DEF BootCopy
  <2>2. /\ CopyPending' <=> CopyPending
        /\ BootAddress' = BootAddress
    BY <2>1, AddressOf DEF CopyPending
  <2>. QED  BY <1>2, <1>5, <2>1, <2>2, RestartVersion DEF AllowedInv, VersionOf
<1>7. CASE CopyErase \/ CopyPage
  <2>1. /\ pc \in {"erase", "copy"} /\ pc' \in {"copy", "erase", "done"}
        /\ copy = [src |-> Spare, dst |-> Base, size |-> ImagePages]
        /\ CopyPending /\ UNCHANGED <<page, allowed>>
    BY <1>7 DEF CopyErase, CopyPage, UpdateInv, LoaderInv
  <2>2. image'[Spare] = image[Spare]
    <3>1. copy.dst = Base /\ Spare # Base
      BY <2>1, LayoutAssumption
    <3>2. CopyErase => image'[Spare] = image[Spare]
      BY <3>1 DEF CopyErase
    <3>3. CopyPage => image'[Spare] = image[Spare]
      BY <3>1 DEF CopyPage
    <3>. QED  BY <1>7, <3>2, <3>3
  <2>3. CopyPending' /\ VersionOf(Spare)' \in allowed'
    BY <2>1, <2>2 DEF CopyPending, AllowedInv, VersionOf
  <2>4. pc' = "done" => VersionOf(Base)' = VersionOf(Spare)'
    <3>1. SUFFICES ASSUME pc' = "done" PROVE VersionOf(Base)' = VersionOf(Spare)'
      OBVIOUS
    <3>2. CopyPage /\ i + 1 = ImagePages
      BY <1>7, <2>1, <3>1 DEF CopyErase, CopyPage
    <3>3. 0 \in Sector /\ 0 \in PageOf /\ i \in 0 .. ImagePages - 1 /\ Copied /\ Arrays
      BY <2>1, LayoutAssumption DEF Sector, PageOf, UpdateInv, LoaderInv, TransferInv
    <3>4. /\ image' = [image EXCEPT ![Base][i \div NPage][i % NPage] =
                         image[Spare][i \div NPage][i % NPage]]
      BY <2>1, <3>2 DEF CopyPage
    <3>5. CASE i \div NPage = 0 /\ i % NPage = 0
      BY <2>2, <3>3, <3>4, <3>5 DEF VersionOf, Arrays, Area
    <3>6. CASE ~(i \div NPage = 0 /\ i % NPage = 0)
      <4>1. 0 * NPage + 0 # i
        BY <3>3, <3>6, PageAt
      <4>2. 0 * NPage + 0 < i
        BY <3>3, <4>1, LayoutAssumption
      <4>3. image[Base][0][0] = image[Spare][0][0]
        BY <3>3, <4>2 DEF Copied
      <4>4. image'[Base][0][0] = image[Base][0][0]
        BY <3>3, <3>4, <3>6 DEF Arrays, Area
      <4>. QED  BY <2>2, <4>3, <4>4 DEF VersionOf
    <3>. QED  BY <3>5, <3>6
  <2>. QED  BY <1>2, <1>5, <2>1, <2>3, <2>4 DEF AllowedInv
<1>8. CASE CopyDone
  <2>1. pc = "done" /\ pc' = "start" /\ UNCHANGED <<image, allowed>> /\ CopyPending
    BY <1>8 DEF CopyDone, UpdateInv, LoaderInv
  <2>2. VersionOf(Base) \in allowed /\ VersionOf(Spare) \in allowed
    BY <2>1 DEF AllowedInv
  <2>3. VersionOf(BootAddress)' \in allowed'
    BY <1>4, <2>1, <2>2 DEF Area, VersionOf
  <2>. QED  BY <1>2, <1>5, <2>1, <2>3 DEF AllowedInv
<1>9. CASE BootApp
  <2>1. /\ pc' = "app" /\ running' = BootAddress
        /\ allowed' = {VersionOf(BootAddress)} /\ UNCHANGED image
    BY <1>9 DEF BootApp
  <2>. QED  BY <1>2, <1>5, <2>1 DEF AllowedInv, VersionOf
<1>. QED  BY <1>6, <1>7, <1>8, <1>9

LEMMA NextVersionInv ==
  ASSUME UpdateInv, TransferInv, PromiseInv, AllowedInv, SlotFree, [Next]_vars
  PROVE  PromiseInv' /\ AllowedInv'
<1>1. CASE Transfer
  BY <1>1, AppVersion, FinishVersion DEF Transfer
<1>2. CASE Firmware
  BY <1>2, AppVersion, SetFindVersion, SetWriteVersion, ResetVersion, LoaderVersion
     DEF Firmware
<1>3. CASE PowerLoss \/ PowerLossInSet \/ PowerLossInCopy
  BY <1>3, LossVersion
<1>4. CASE UNCHANGED vars
  BY <1>4 DEF vars, bootVars, airVars, PromiseInv, TodoFor, AllowedInv, VersionOf,
              CopyPending, BootAddress
<1>. QED  BY <1>1, <1>2, <1>3, <1>4 DEF Next

-----------------------------------------------------------------------------
(* The slots of the boot address are used one after the other.             *)

(* A slot is what its words are. *)
LEMMA SameSlot ==
  ASSUME NEW p, NEW q, NEW b \in BootSlots,
         q[b] = p[b], q[b + 1] = p[b + 1], q[b + 2] = p[b + 2]
  PROVE  /\ Free(q, boot_addr_info, b) <=> Free(p, boot_addr_info, b)
         /\ Valid(q, boot_addr_info, b) <=> Valid(p, boot_addr_info, b)
<1>1. b \in 0 .. 61
  BY DEF BootSlots
<1>2. Free(p, boot_addr_info, b) <=> p[b + 2] = Erased /\ p[b] = Erased /\ p[b + 1] = Erased
  BY <1>1, SmallSlot
<1>3. Free(q, boot_addr_info, b) <=> q[b + 2] = Erased /\ q[b] = Erased /\ q[b + 1] = Erased
  BY <1>1, SmallSlot
<1>4. Valid(p, boot_addr_info, b) <=>
        p[b + 2] = Erased /\ p[b][1] = "word" /\ p[b + 1] = Complement(p[b][2])
  BY <1>1, SmallSlot
<1>5. Valid(q, boot_addr_info, b) <=>
        q[b + 2] = Erased /\ q[b][1] = "word" /\ q[b + 1] = Complement(q[b][2])
  BY <1>1, SmallSlot
<1>. QED  BY <1>2, <1>3, <1>4, <1>5

LEMMA FrontierKept ==
  ASSUME NEW p, NEW q, NEW s \in BootSlots \cup {34}, NEW n \in Int, NEW m \in Int, m >= n,
         Frontier(p, s, n), \A w \in 16 .. 33 : q[w] = p[w]
  PROVE  Frontier(q, s, m)
<1>1. s \in 16 .. 34
  BY DEF BootSlots
<1>2. \A w \in s .. 31 : q[w] = Erased
  BY <1>1 DEF Frontier
<1>3. \A b \in BootSlots : b < s => /\ ~Free(q, boot_addr_info, b)
                                    /\ Valid(q, boot_addr_info, b) => b = s - 3
  <2> SUFFICES ASSUME NEW b \in BootSlots, b < s
               PROVE  /\ ~Free(q, boot_addr_info, b)
                      /\ Valid(q, boot_addr_info, b) => b = s - 3
    OBVIOUS
  <2>1. q[b] = p[b] /\ q[b + 1] = p[b + 1] /\ q[b + 2] = p[b + 2]
    BY DEF BootSlots
  <2>2. ~Free(p, boot_addr_info, b) /\ (Valid(p, boot_addr_info, b) => b = s - 3)
    BY DEF Frontier
  <2>. QED  BY <2>1, <2>2, SameSlot
<1>4. s <= 16 + 3 * m
  BY <1>1 DEF Frontier
<1>5. s <= 31 /\ ~(q[32] = Erased /\ q[33] = Erased) => s <= 13 + 3 * m
  <2>1. q[32] = p[32] /\ q[33] = p[33]
    OBVIOUS
  <2>. QED  BY <1>1, <2>1 DEF Frontier
<1>. QED  BY <1>2, <1>3, <1>4, <1>5 DEF Frontier

LEMMA FlagOnly ==
  ASSUME NEW p, NEW q, NEW at \in BootSlots, Burnt(p, q, at + 2, <<InvalidFlag>>)
  PROVE  /\ q[at + 2] # Erased
         /\ \A w \in 0 .. 63 : w # at + 2 => q[w] = p[w]
<1>1. at + 2 \in 0 .. 63
  BY DEF BootSlots
<1>2. q[at + 2] \in {InvalidFlag, Garbage}
  BY <1>1, BurntOne
<1>3. \A w \in 0 .. 63 : w # at + 2 => q[w] = p[w]
  BY <1>1, BurntOneElse
<1>. QED  BY <1>2, <1>3, WordForms

(* A value that is made invalid is the last that was written.              *)
LEMMA FrontierInvalid ==
  ASSUME NEW p, NEW q, NEW s \in BootSlots \cup {34}, NEW n \in Int, Frontier(p, s, n),
         NEW v \in BootSlots, Valid(p, boot_addr_info, v),
         Burnt(p, q, v + 2, <<InvalidFlag>>)
  PROVE  Frontier(q, s, n) /\ s = v + 3
<1>1. s \in 16 .. 34 /\ v \in 16 .. 31
  BY DEF BootSlots
<1>2. v < s
  <2>1. p[v] # Erased
    BY <1>1, SmallSlot, WordForms
  <2>. QED  BY <1>1, <2>1 DEF Frontier
<1>3. s = v + 3
  BY <1>1, <1>2 DEF Frontier
<1>4. \A w \in 0 .. 63 : w # v + 2 => q[w] = p[w]
  BY FlagOnly
<1>5. q[v + 2] # Erased
  BY FlagOnly
<1>6. \A w \in s .. 31 : q[w] = Erased
  BY <1>1, <1>3, <1>4 DEF Frontier
<1>7. \A b \in BootSlots : b < s => /\ ~Free(q, boot_addr_info, b)
                                    /\ Valid(q, boot_addr_info, b) => b = s - 3
  <2> SUFFICES ASSUME NEW b \in BootSlots, b < s
               PROVE  /\ ~Free(q, boot_addr_info, b)
                      /\ Valid(q, boot_addr_info, b) => b = s - 3
    OBVIOUS
  <2>1. CASE b = v
    BY <1>1, <1>5, <2>1, SmallSlot
  <2>2. CASE b # v
    <3>1. b \in 0 .. 63 /\ b + 1 \in 0 .. 63 /\ b + 2 \in 0 .. 63
          /\ b # v + 2 /\ b + 1 # v + 2 /\ b + 2 # v + 2
      BY <2>2 DEF BootSlots
    <3>2. q[b] = p[b] /\ q[b + 1] = p[b + 1] /\ q[b + 2] = p[b + 2]
      BY <1>4, <3>1
    <3>3. ~Free(p, boot_addr_info, b) /\ (Valid(p, boot_addr_info, b) => b = s - 3)
      BY DEF Frontier
    <3>. QED  BY <3>2, <3>3, SameSlot
  <2>. QED  BY <2>1, <2>2
<1>8. s <= 31 => q[32] = p[32] /\ q[33] = p[33]
  BY <1>3, <1>4
<1>. QED  BY <1>3, <1>6, <1>7, <1>8 DEF Frontier

LEMMA FrontierWritten ==
  ASSUME NEW p, NEW q, NEW s \in BootSlots, NEW n \in Int, NEW m \in Int, m >= n + 1,
         Frontier(p, s, n), NEW a, OneWritten(p, q, s, a), NoneValid(p, boot_addr_info)
  PROVE  Frontier(q, s + 3, m)
<1>1. s \in 16 .. 31 /\ s + 3 \in BootSlots \cup {34}
  BY DEF BootSlots
<1>2. \A w \in 0 .. 63 : w # s /\ w # s + 1 => q[w] = p[w]
  BY DEF OneWritten
<1>3. q[s] # Erased
  BY WordForms DEF OneWritten
<1>4. \A w \in s + 3 .. 31 : q[w] = Erased
  BY <1>1, <1>2 DEF Frontier
<1>5. \A b \in BootSlots : b < s + 3 => /\ ~Free(q, boot_addr_info, b)
                                        /\ Valid(q, boot_addr_info, b) => b = (s + 3) - 3
  <2> SUFFICES ASSUME NEW b \in BootSlots, b < s + 3
               PROVE  /\ ~Free(q, boot_addr_info, b)
                      /\ Valid(q, boot_addr_info, b) => b = (s + 3) - 3
    OBVIOUS
  <2>1. CASE b = s
    BY <1>1, <1>3, <2>1, SmallSlot
  <2>2. CASE b # s
    <3>1. b \in 0 .. 63 /\ b + 1 \in 0 .. 63 /\ b + 2 \in 0 .. 63 /\ b < s
          /\ b # s + 1 /\ b + 1 # s /\ b + 1 # s + 1 /\ b + 2 # s /\ b + 2 # s + 1
      BY <2>2 DEF BootSlots
    <3>2. q[b] = p[b] /\ q[b + 1] = p[b + 1] /\ q[b + 2] = p[b + 2]
      BY <1>2, <2>2, <3>1
    <3>3. ~Free(p, boot_addr_info, b) /\ ~Valid(p, boot_addr_info, b)
      BY <3>1, SlotSets DEF Frontier, NoneValid
    <3>. QED  BY <3>2, <3>3, SameSlot
  <2>. QED  BY <2>1, <2>2
<1>6. s + 3 <= 16 + 3 * m
  BY <1>1 DEF Frontier
<1>7. s + 3 <= 31 /\ ~(q[32] = Erased /\ q[33] = Erased) => s + 3 <= 13 + 3 * m
  <2>1. s + 3 <= 31 => q[32] = p[32] /\ q[33] = p[33]
    BY <1>1, <1>2
  <2>. QED  BY <1>1, <2>1 DEF Frontier
<1>. QED  BY <1>1, <1>4, <1>5, <1>6, <1>7 DEF Frontier

(* A request to copy may take the words the last slot runs into.           *)
LEMMA FrontierCopied ==
  ASSUME NEW p, NEW q, NEW s \in BootSlots \cup {34}, NEW n \in Int, NEW m \in Int,
         m >= n + 1, Frontier(p, s, n), \A w \in 16 .. 33 : p[w] # Erased => q[w] = p[w],
         \A w \in 16 .. 31 : q[w] = p[w]
  PROVE  Frontier(q, s, m)
<1>1. s \in 16 .. 34
  BY DEF BootSlots
<1>2. \A w \in s .. 31 : q[w] = Erased
  BY <1>1 DEF Frontier
<1>3. \A b \in BootSlots : b < s => /\ ~Free(q, boot_addr_info, b)
                                    /\ Valid(q, boot_addr_info, b) => b = s - 3
  <2> SUFFICES ASSUME NEW b \in BootSlots, b < s
               PROVE  /\ ~Free(q, boot_addr_info, b)
                      /\ Valid(q, boot_addr_info, b) => b = s - 3
    OBVIOUS
  <2>1. ~Free(p, boot_addr_info, b) /\ (Valid(p, boot_addr_info, b) => b = s - 3)
    BY DEF Frontier
  <2>2. CASE b = 31
    <3>1. s = 34
      BY <2>2 DEF BootSlots
    <3>2. ~(p[31] = Erased /\ p[32] = Erased /\ p[33] = Erased)
      BY <2>1, <2>2, SmallSlot
    <3>3. ~(q[31] = Erased /\ q[32] = Erased /\ q[33] = Erased)
      BY <3>2
    <3>. QED  BY <2>2, <3>1, <3>3, SmallSlot
  <2>3. CASE b # 31
    <3>1. q[b] = p[b] /\ q[b + 1] = p[b + 1] /\ q[b + 2] = p[b + 2]
      BY <2>3 DEF BootSlots
    <3>. QED  BY <2>1, <3>1, SameSlot
  <2>. QED  BY <2>2, <2>3
<1>. QED  BY <1>1, <1>2, <1>3 DEF Frontier

LEMMA FrontierFree ==
  ASSUME NEW p, NEW s \in BootSlots \cup {34}, NEW n \in Int, n <= 5, Frontier(p, s, n)
  PROVE  s \in BootSlots /\ Free(p, boot_addr_info, s)
<1>1. s # 34
  BY DEF Frontier
<1>2. CASE s = 31
  <2>1. p[31] = Erased /\ p[32] = Erased /\ p[33] = Erased
    BY <1>2 DEF Frontier
  <2>. QED  BY <1>2, <2>1, SmallSlot DEF BootSlots
<1>3. CASE s # 31
  <2>1. s \in BootSlots /\ s \in 16 .. 28
    BY <1>1, <1>3 DEF BootSlots
  <2>2. p[s] = Erased /\ p[s + 1] = Erased /\ p[s + 2] = Erased
    BY <2>1 DEF Frontier
  <2>. QED  BY <2>1, <2>2, SmallSlot
<1>. QED  BY <1>2, <1>3

LEMMA FrontierSearched ==
  ASSUME NEW p, PageSound(p), NEW s \in BootSlots \cup {34}, NEW n \in Int,
         Frontier(p, s, n), ~IsSet(p, boot_addr_info),
         settings_find(p, boot_addr_info).at # NoSlot
  PROVE  settings_find(p, boot_addr_info).at = s
<1> DEFINE at == settings_find(p, boot_addr_info).at
<1>1. /\ at \in BootSlots /\ Free(p, boot_addr_info, at)
      /\ \A b \in BootSlots : b < at => ~Stop(p, boot_addr_info, b)
  BY SearchedFree, SlotSets DEF PageSound
<1> HIDE DEF at
<1>2. ~(at < s)
  BY <1>1 DEF Frontier
<1>3. ~(s < at)
  <2>1. SUFFICES ASSUME s < at PROVE FALSE
    OBVIOUS
  <2>2. s \in BootSlots /\ s \in 16 .. 28
    BY <1>1, <2>1 DEF BootSlots
  <2>3. p[s] = Erased /\ p[s + 1] = Erased /\ p[s + 2] = Erased
    BY <2>2 DEF Frontier
  <2>4. Free(p, boot_addr_info, s)
    BY <2>2, <2>3, SmallSlot
  <2>. QED  BY <1>1, <2>1, <2>2, <2>4 DEF Stop
<1>4. at = s
  BY <1>1, <1>2, <1>3 DEF BootSlots
<1>. QED  BY <1>4 DEF at

-----------------------------------------------------------------------------
(* The steps.                                                              *)

LEMMA UsedInt ==
  ASSUME LimitInv, UpdateLimit \in Nat
  PROVE  /\ Used \in Int
         /\ Used >= -1 /\ Used <= UpdateLimit
         /\ Pending => Used <= UpdateLimit - 1
         /\ ~Pending => Used >= 0
<1>1. version \in Int /\ version >= 1 /\ version <= 1 + UpdateLimit
  BY DEF LimitInv, FirstVersion
<1>2. CASE Pending
  <2>1. Used = version - 1 - 1
    BY <1>2 DEF Used, FirstVersion
  <2>. QED  BY <1>1, <1>2, <2>1
<1>3. CASE ~Pending
  <2>1. Used = version - 1 - 0
    BY <1>3 DEF Used, FirstVersion
  <2>. QED  BY <1>1, <1>3, <2>1
<1>. QED  BY <1>2, <1>3

LEMMA UsedNext ==
  ASSUME LimitInv'
  PROVE  Used' \in Int
<1>1. version' \in Int
  BY DEF LimitInv, FirstVersion
<1>2. Used' = IF Pending' THEN version' - 1 - 1 ELSE version' - 1 - 0
  BY DEF Used, FirstVersion
<1>. QED  BY <1>1, <1>2

LEMMA UsedSame ==
  ASSUME LimitInv, UNCHANGED version
  PROVE  /\ (Pending' => Pending) => Used' >= Used
         /\ Pending /\ ~Pending' => Used' >= Used + 1
<1>1. version \in Int
  BY DEF LimitInv, FirstVersion
<1>2. Used = IF Pending THEN version - 1 - 1 ELSE version - 1 - 0
  BY DEF Used, FirstVersion
<1>3. Used' = IF Pending' THEN version - 1 - 1 ELSE version - 1 - 0
  BY DEF Used, FirstVersion
<1>. QED  BY <1>1, <1>2, <1>3

(* Steps that write nothing where boot address and copy request meet.      *)
LEMMA FrontLeft ==
  ASSUME FrontInv, LimitInv, LimitInv', UpdateLimit \in Nat, Used' >= Used,
         \A w \in 16 .. 33 : page'[w] = page[w],
         slot' # NoSlot /\ Head(todo').info = boot_addr_info =>
           slot # NoSlot /\ Head(todo).info = boot_addr_info /\ slot' = slot
  PROVE  FrontInv'
<1>1. PICK s \in BootSlots \cup {34} :
        /\ Frontier(page, s, Used)
        /\ slot # NoSlot /\ Head(todo).info = boot_addr_info => slot = s
  BY DEF FrontInv
<1>2. Used \in Int /\ Used' \in Int
  BY UsedInt, UsedNext
<1> DEFINE n == Used
           m == Used'
<1>3. Frontier(page', s, m)
  <2>1. n \in Int /\ m \in Int /\ m >= n /\ Frontier(page, s, n)
    BY <1>1, <1>2
  <2> HIDE DEF n, m
  <2>. QED  BY <2>1, FrontierKept
<1>. QED  BY <1>1, <1>3 DEF FrontInv

Programs(p, q, s, words) == q = Programmed(p, s, words)

LEMMA EraseLeaves ==
  ASSUME NEW p, NEW s \in {0, 3, 6}, NEW words, PartOf(words, inversion_data(<<"ERAS">>)),
         NEW q, Programs(p, q, s, words)
  PROVE  \A w \in 16 .. 33 : q[w] = p[w]
<1> SUFFICES ASSUME NEW w \in 16 .. 33 PROVE Programmed(p, s, words)[w] = p[w]
  BY DEF Programs
<1>1. words = <<Word("ERAS"), Complement("ERAS")>> \/ words = <<Word("ERAS")>>
  BY InversionOfOne, PartOfTwo
<1>2. Len(words) \in {1, 2}
  <2>1. Len(<<Word("ERAS"), Complement("ERAS")>>) = 2 /\ Len(<<Word("ERAS")>>) = 1
    OBVIOUS
  <2>. QED  BY <1>1, <2>1
<1>3. Len(words) \in Nat /\ s + Len(words) <= 64 /\ s \in Nat /\ w \in 0 .. 63
      /\ ~(w >= s /\ w < s + Len(words))
  <2> DEFINE l == Len(words)
  <2> HIDE DEF l
  <2>1. l \in {1, 2}
    BY <1>2 DEF l
  <2>2. l \in Nat /\ s + l <= 64 /\ s \in Nat /\ w \in 0 .. 63 /\ ~(w >= s /\ w < s + l)
    BY <2>1
  <2>. QED  BY <2>2 DEF l
<1>. QED  BY <1>3, ProgrammedWord

(* A setting is written, whole or in part.                                 *)
LEMMA FrontPut ==
  ASSUME UpdateInv, PromiseInv, FrontInv, LimitInv, LimitInv', UpdateLimit \in 0 .. 6,
         pc = "set", slot # NoSlot, NEW words,
         PartOf(words, inversion_data(Head(todo).data)),
         page' = Programmed(page, slot, words), slot' = NoSlot, UNCHANGED version,
         Pending' => Pending /\ EraseDue
  PROVE  FrontInv'
<1>1. /\ todo # <<>> /\ todo \in Todos /\ client.phase = "verified"
      /\ Head(todo).info = boot_addr_info => BootSlotInv
      /\ Head(todo).info = erase_req_info => slot \in {0, 3, 6}
      /\ Head(todo).info = copy_info_info => CopySlotInv
  BY DEF UpdateInv, FinishInv, SlotInv, PromiseInv
<1>2. PICK s \in BootSlots \cup {34} :
        /\ Frontier(page, s, Used)
        /\ Head(todo).info = boot_addr_info => slot = s
  BY DEF FrontInv
<1>3. Used \in Int /\ Used' \in Int
  BY UsedInt, UsedNext
<1>4. Head(todo) # EraseItem => Pending
  <2>1. todo = <<EraseItem>> => Head(todo) = EraseItem
    OBVIOUS
  <2>. QED  BY <1>1, <2>1 DEF Pending, SettingDue
<1>5. Head(todo) # EraseItem => Used' >= Used + 1 /\ Used <= 5
  <2>1. SUFFICES ASSUME Head(todo) # EraseItem PROVE Used' >= Used + 1 /\ Used <= 5
    OBVIOUS
  <2>2. Pending /\ ~Pending'
    BY <1>4, <2>1 DEF EraseDue
  <2>3. Used <= UpdateLimit - 1
    BY <2>2, UsedInt
  <2>. QED  BY <1>3, <2>2, <2>3, UsedSame
<1> DEFINE n == Used
           m == Used'
<1>6. ASSUME NEW a \in Area, BootDue(a)
      PROVE  FrontInv'
  <2>1. Head(todo).info = boot_addr_info /\ Head(todo).data = <<a>> /\ Head(todo) # EraseItem
    BY <1>6, ItemFields, InfoFields DEF BootDue
  <2>2. /\ slot = s /\ NoneValid(page, boot_addr_info)
    BY <1>1, <1>2, <2>1 DEF BootSlotInv
  <2>3. OneWritten(page, page', s, a)
    BY <2>1, <2>2, BootPut
  <2>4. n \in Int /\ m \in Int /\ m >= n + 1 /\ n <= 5 /\ Frontier(page, s, n)
    BY <1>2, <1>3, <1>5, <2>1
  <2> HIDE DEF n, m
  <2>5. s \in BootSlots
    BY <2>4, FrontierFree
  <2>6. Frontier(page', s + 3, m)
    BY <2>2, <2>3, <2>4, <2>5, FrontierWritten
  <2>7. s + 3 \in BootSlots \cup {34}
    BY <2>5 DEF BootSlots
  <2>. QED  BY <2>6, <2>7 DEF FrontInv, m
<1>7. CASE EraseDue
  <2>1. Head(todo).info = erase_req_info /\ Head(todo).data = <<"ERAS">>
    BY <1>7, ItemFields DEF EraseDue
  <2>2. slot \in {0, 3, 6}
    BY <1>1, <2>1
  <2>3. \A w \in 16 .. 33 : page'[w] = page[w]
    <3>1. PartOf(words, inversion_data(<<"ERAS">>)) /\ Programs(page, page', slot, words)
      BY <2>1 DEF Programs
    <3>. QED  BY <2>2, <3>1, EraseLeaves
  <2>4. Used' >= Used
    BY UsedSame
  <2>5. UpdateLimit \in Nat
    OBVIOUS
  <2>. QED  BY <2>3, <2>4, <2>5, FrontLeft
<1>8. CASE CopyDue
  <2>1. Head(todo).info = copy_info_info /\ Head(todo).data = CopyData
        /\ Head(todo) # EraseItem
    BY <1>8, ItemFields, InfoFields DEF CopyDue
  <2>2. slot \in CopySlots /\ Free(page, copy_info_info, slot)
    BY <1>1, <2>1 DEF CopySlotInv
  <2>3. PICK k \in 1 .. 6 : CopyWritten(page, page', slot, k)
    BY <2>1, <2>2, CopyPut
  <2>4. slot # 60 /\ Unwritten(page, slot) /\ slot \in 32 .. 53
    BY <2>2, CopySlot DEF CopySlots
  <2>5. \A w \in 16 .. 31 : page'[w] = page[w]
    BY <2>3, <2>4 DEF CopyWritten
  <2>6. ASSUME NEW w \in 32 .. 33, page[w] # Erased
        PROVE  page'[w] = page[w]
    <3>1. CASE slot = 32
      <4>1. w - slot \in 0 .. 6 /\ slot + (w - slot) = w
        BY <3>1
      <4>. QED  BY <2>4, <2>6, <4>1 DEF Unwritten
    <3>2. CASE slot # 32
      <4>1. w < slot /\ w \in 0 .. 63
        BY <2>2, <3>2 DEF CopySlots
      <4>. QED  BY <2>3, <4>1 DEF CopyWritten
    <3>. QED  BY <3>1, <3>2
  <2>7. n \in Int /\ m \in Int /\ m >= n + 1 /\ Frontier(page, s, n)
    BY <1>2, <1>3, <1>5, <2>1
  <2>8. \A w \in 16 .. 33 : page[w] # Erased => page'[w] = page[w]
    BY <2>5, <2>6
  <2> HIDE DEF n, m
  <2>9. Frontier(page', s, m)
    BY <2>5, <2>7, <2>8, FrontierCopied
  <2>. QED  BY <2>9 DEF FrontInv, m
<1>. QED  BY <1>1, <1>6, <1>7, <1>8, Due

LEMMA LimitKept ==
  ASSUME LimitInv, UpdateLimit \in Nat, [Next]_vars
  PROVE  LimitInv'
<1>1. ASSUME NEW a \in Area, StartReq(a)
      PROVE  LimitInv'
  BY <1>1 DEF StartReq, LimitInv, FirstVersion
<1>2. CASE UNCHANGED version
  BY <1>2 DEF LimitInv
<1>3. (\E a \in Area : StartReq(a)) \/ UNCHANGED version
  BY DEF Next, Transfer, Firmware, StartReq, StartRejected, NewSector, Segment, SectorAcked,
         IntegrityCheck, Abandon, Disconnect, Finish, CleanSector, SetFind, SetWrite, Reset,
         Reboot, BootCopy, CopyErase, CopyPage, CopyDone, BootApp, PowerLoss,
         PowerLossInSet, PowerLossInCopy, PowerFails, airVars, vars
<1>. QED  BY <1>1, <1>2, <1>3

(* Steps that leave the settings alone.                                    *)
LEMMA FrontQuiet ==
  ASSUME FrontInv, LimitInv, UpdateLimit \in Nat, UNCHANGED <<page, version>>,
         slot' = NoSlot \/ UNCHANGED <<slot, todo>>, Pending' => Pending
  PROVE  FrontInv'
<1>1. LimitInv'
  BY DEF LimitInv
<1>2. Used' >= Used
  BY UsedSame
<1>. QED  BY <1>1, <1>2, FrontLeft

LEMMA FrontStart ==
  ASSUME FrontInv, LimitInv, LimitInv', UpdateLimit \in Nat, NEW a \in Area, StartReq(a)
  PROVE  FrontInv'
<1>1. /\ pc = "app" /\ client.phase = "idle" /\ version' = version + 1
      /\ UNCHANGED <<page, slot, todo>>
  BY DEF StartReq
<1>2. ~Pending
  BY <1>1 DEF Pending
<1>3. version \in Int
  BY DEF LimitInv, FirstVersion
<1>4. Used = version - 1 - 0
  BY <1>2 DEF Used, FirstVersion
<1>5. Used' = IF Pending' THEN version' - 1 - 1 ELSE version' - 1 - 0
  BY DEF Used, FirstVersion
<1>6. Used' >= Used
  BY <1>1, <1>3, <1>4, <1>5
<1>. QED  BY <1>1, <1>6, FrontLeft

LEMMA FrontApp ==
  ASSUME UpdateInv, FrontInv, LimitInv, UpdateLimit \in Nat,
         \/ \E a \in Area : StartRejected(a)
         \/ NewSector \/ SectorAcked \/ IntegrityCheck \/ Abandon \/ Disconnect
         \/ CleanSector \/ (\E p \in PageOf : Segment(p)) \/ \E k \in Kind : Finish(k)
  PROVE  FrontInv'
<1>1. /\ pc \in {"app", "clean"} /\ UNCHANGED <<page, slot, version>>
  BY DEF StartRejected, NewSector, SectorAcked, IntegrityCheck, Abandon, Disconnect,
         CleanSector, Segment, Finish, airVars, bootVars
<1>2. slot' = NoSlot
  BY <1>1 DEF UpdateInv, SlotInv
<1>3. client'.phase \in {"send", "segments", "verified"} =>
        client.phase \in {"send", "segments", "verified"}
  <2>1. CASE \E a \in Area : StartRejected(a)
    <3>1. client' = [phase |-> "rejected", sector |-> 0]
      BY <2>1, Zenon DEF StartRejected
    <3>. QED  BY <3>1
  <2>2. CASE Abandon \/ Disconnect
    BY <2>2 DEF Abandon, Disconnect, ClientIdle
  <2>3. CASE NewSector \/ SectorAcked \/ IntegrityCheck
    BY <2>3 DEF NewSector, SectorAcked, IntegrityCheck
  <2>4. CASE UNCHANGED client
    BY <2>4
  <2>. QED  BY <2>1, <2>2, <2>3, <2>4 DEF CleanSector, Segment, Finish, airVars
<1>4. Pending' => Pending
  BY <1>1, <1>3 DEF Pending, SettingDue
<1>. QED  BY <1>1, <1>2, <1>4, FrontQuiet

LEMMA EraseFlagOnly ==
  ASSUME NEW p, NEW q, NEW at \in {0, 3}, Burnt(p, q, at + 2, <<InvalidFlag>>)
  PROVE  \A w \in 16 .. 33 : q[w] = p[w]
<1>1. at + 2 \in 0 .. 63
  OBVIOUS
<1>2. \A w \in 0 .. 63 : w # at + 2 => q[w] = p[w]
  BY <1>1, BurntOneElse
<1>3. \A w \in 16 .. 33 : w \in 0 .. 63 /\ w # at + 2
  OBVIOUS
<1>. QED  BY <1>2, <1>3, Zenon

LEMMA FrontFind ==
  ASSUME UpdateInv, FrontInv, LimitInv, LimitInv', UpdateLimit \in Nat, SetFind
  PROVE  FrontInv'
<1> DEFINE info == Head(todo).info
           at == settings_find(page, info).at
           n == Used
           m == Used'
<1>1. /\ pc = "set" /\ slot = NoSlot /\ todo # <<>> /\ pc' \in {"set", "assert"}
      /\ page' = MadeInvalid(page, info)
      /\ slot' = IF IsSet(page, info) THEN FlagAt(info, at) + 1 ELSE at
      /\ UNCHANGED <<todo, client, version>>
  BY DEF SetFind, airVars, IsSet
<1>2. PageSound(page) /\ todo \in Todos /\ NoneValid(page, copy_info_info)
  BY <1>1 DEF UpdateInv, FinishInv, CopyPending
<1>3. info \in {erase_req_info, boot_addr_info, copy_info_info}
  BY <1>1, <1>2, Due, ItemFields DEF BootDue, EraseDue, CopyDue
<1>4. Pending' => Pending
  BY <1>1 DEF Pending, SettingDue
<1>5. n \in Int /\ m \in Int /\ m >= n
  BY <1>1, <1>4, UsedInt, UsedNext, UsedSame
<1>6. PICK s \in BootSlots \cup {34} : Frontier(page, s, n)
  BY DEF FrontInv
<1>7. info = boot_addr_info /\ slot' # NoSlot => slot' = s /\ Frontier(page', s, n)
  <2> SUFFICES ASSUME info = boot_addr_info, slot' # NoSlot
               PROVE  slot' = s /\ Frontier(page', s, n)
    OBVIOUS
  <2>1. CASE IsSet(page, info)
    <3>1. /\ at \in BootSlots /\ Valid(page, boot_addr_info, at)
          /\ page' = Programmed(page, FlagAt(info, at), <<InvalidFlag>>)
      BY <1>1, <1>3, <2>1, FoundValid, SlotSets
    <3>2. at \in Nat /\ at + 2 \in 0 .. 63
      BY <3>1 DEF BootSlots
    <3>3. FlagAt(info, at) = at + 2
      BY <3>2, FlagPlaces
    <3>4. Burnt(page, page', at + 2, <<InvalidFlag>>)
      BY <3>1, <3>2, <3>3, FlagBurnt
    <3>5. slot' = at + 3
      BY <1>1, <2>1, <3>2, <3>3
    <3> HIDE DEF at, n, m
    <3>. QED  BY <1>5, <1>6, <3>1, <3>4, <3>5, FrontierInvalid
  <2>2. CASE ~IsSet(page, info)
    <3>1. page' = page /\ slot' = at
      BY <1>1, <2>2 DEF MadeInvalid
    <3> HIDE DEF n, m
    <3>2. at = s
      BY <1>2, <1>5, <1>6, <2>2, <3>1, FrontierSearched
    <3>. QED  BY <1>6, <3>1, <3>2
  <2>. QED  BY <2>1, <2>2
<1>8. info # boot_addr_info \/ slot' = NoSlot => \A w \in 16 .. 33 : page'[w] = page[w]
  <2> SUFFICES ASSUME info # boot_addr_info \/ slot' = NoSlot, NEW w \in 16 .. 33
               PROVE  page'[w] = page[w]
    OBVIOUS
  <2>1. CASE ~IsSet(page, info)
    BY <1>1, <2>1 DEF MadeInvalid
  <2>2. CASE IsSet(page, info)
    <3>1. /\ at \in Slots(info) /\ at # NoSlot
          /\ page' = Programmed(page, FlagAt(info, at), <<InvalidFlag>>)
      BY <1>1, <1>3, <2>2, FoundValid
    <3>2. info # copy_info_info
      BY <1>2, <2>2, FindNone
    <3>3. info # boot_addr_info
      <4>1. SUFFICES ASSUME info = boot_addr_info PROVE FALSE
        OBVIOUS
      <4>2. at \in BootSlots /\ at \in Nat
        BY <3>1, <4>1, SlotSets DEF BootSlots
      <4>3. slot' = at + 2 + 1
        BY <1>1, <2>2, <4>1, <4>2, FlagPlaces
      <4>. QED  BY <4>1, <4>2, <4>3 DEF NoSlot
    <3>4. at \in {0, 3} /\ at \in Nat /\ info = erase_req_info
      BY <1>3, <3>1, <3>2, <3>3, SlotSets
    <3>5. FlagAt(info, at) = at + 2 /\ at + 2 \in 0 .. 63
      BY <3>4, FlagPlaces
    <3>6. Burnt(page, page', at + 2, <<InvalidFlag>>)
      BY <3>1, <3>5, FlagBurnt
    <3> HIDE DEF at, info
    <3>. QED  BY <3>4, <3>6, EraseFlagOnly
  <2>. QED  BY <2>1, <2>2
<1>9. CASE info = boot_addr_info /\ slot' # NoSlot
  <2> HIDE DEF info
  <2>1. Frontier(page', s, n) /\ slot' = s
    BY <1>7, <1>9
  <2>2. Frontier(page', s, m)
    <3>1. \A w \in 16 .. 33 : page'[w] = page'[w]
      OBVIOUS
    <3> HIDE DEF n, m
    <3>. QED  BY <1>5, <2>1, <3>1, FrontierKept
  <2>. QED  BY <2>1, <2>2 DEF FrontInv
<1>10. CASE ~(info = boot_addr_info /\ slot' # NoSlot)
  <2>1. \A w \in 16 .. 33 : page'[w] = page[w]
    BY <1>8, <1>10
  <2>2. Used' >= Used
    BY <1>5
  <2>. QED  BY <1>1, <1>10, <2>1, <2>2, FrontLeft
<1>. QED  BY <1>9, <1>10

LEMMA FrontWrite ==
  ASSUME UpdateInv, PromiseInv, FrontInv, LimitInv, LimitInv', UpdateLimit \in 0 .. 6, SetWrite
  PROVE  FrontInv'
<1>1. /\ pc = "set" /\ slot # NoSlot /\ slot' = NoSlot /\ pc' = "set"
      /\ page' = Programmed(page, slot, inversion_data(Head(todo).data))
      /\ todo' = Tail(todo) /\ UNCHANGED <<client, version>>
  BY DEF SetWrite, airVars
<1>2. /\ todo # <<>> /\ todo \in Todos
  BY <1>1 DEF UpdateInv, FinishInv, SlotInv
<1>3. Pending' => Pending /\ EraseDue
  <2>1. SUFFICES ASSUME Pending' PROVE Pending /\ EraseDue
    OBVIOUS
  <2>2. Tail(todo) # <<>> /\ Tail(todo) # <<EraseItem>>
    BY <1>1, <2>1 DEF Pending, SettingDue
  <2>3. EraseDue
    BY <1>2, <2>2, Due DEF BootDue, EraseDue, CopyDue
  <2>4. todo # <<EraseItem>>
    <3>1. todo = <<EraseItem>> => Tail(todo) = <<>>
      OBVIOUS
    <3>. QED  BY <2>2, <3>1
  <2>. QED  BY <1>1, <1>2, <2>1, <2>3, <2>4 DEF Pending, SettingDue
<1>4. PartOf(inversion_data(Head(todo).data), inversion_data(Head(todo).data))
  BY DEF PartOf
<1>. QED  BY <1>1, <1>3, <1>4, FrontPut

LEMMA FrontLoss ==
  ASSUME UpdateInv, PromiseInv, FrontInv, LimitInv, LimitInv', UpdateLimit \in 0 .. 6,
         Reset \/ PowerLoss \/ PowerLossInSet \/ PowerLossInCopy
  PROVE  FrontInv'
<1>1. slot' = NoSlot /\ client'.phase = "idle" /\ UNCHANGED version
  BY DEF Reset, PowerLoss, PowerLossInSet, PowerLossInCopy, PowerFails, Reboot, ClientIdle
<1>2. ~Pending'
  BY <1>1 DEF Pending
<1>3. CASE UNCHANGED page
  BY <1>1, <1>2, <1>3, FrontQuiet
<1>4. CASE PowerLossInSet
  <2> DEFINE words == inversion_data(Head(todo).data)
  <2>1. /\ pc = "set" /\ slot # NoSlot
        /\ \E k \in 1 .. Len(words) - 1 : page' = Programmed(page, slot, SubSeq(words, 1, k))
    BY <1>4 DEF PowerLossInSet
  <2> HIDE DEF words
  <2>2. PICK k \in 1 .. Len(words) - 1 : page' = Programmed(page, slot, SubSeq(words, 1, k))
    BY <2>1
  <2>3. PartOf(SubSeq(words, 1, k), words)
    BY DEF PartOf
  <2>. QED  BY <1>1, <1>2, <2>1, <2>2, <2>3, FrontPut DEF words
<1>. QED  BY <1>3, <1>4 DEF Reset, PowerLoss, PowerLossInCopy

LEMMA ErasedFrontier ==
  ASSUME NEW n \in Int, n >= 0
  PROVE  16 \in BootSlots \cup {34} /\ Frontier(ErasedPage, 16, n)
<1>1. \A w \in 0 .. 63 : ErasedPage[w] = Erased
  BY LayoutAssumption DEF ErasedPage
<1>2. \A w \in 16 .. 31 : ErasedPage[w] = Erased
  BY <1>1
<1>3. \A b \in BootSlots : ~(b < 16)
  BY DEF BootSlots
<1>4. ErasedPage[32] = Erased /\ ErasedPage[33] = Erased
  BY <1>1
<1>. QED  BY <1>2, <1>3, <1>4 DEF Frontier, BootSlots

LEMMA FrontErased ==
  ASSUME page' = ErasedPage, slot' = NoSlot, LimitInv, UNCHANGED version, ~Pending'
  PROVE  FrontInv'
<1> DEFINE m == Used'
<1>1. m \in Int /\ m >= 0
  <2>1. version' \in Int /\ version' >= 1
    BY DEF LimitInv, FirstVersion
  <2>2. Used' = version' - 1 - 0
    BY DEF Used, FirstVersion
  <2>. QED  BY <2>1, <2>2
<1> HIDE DEF m
<1>2. Frontier(page', 16, m) /\ 16 \in BootSlots \cup {34}
  BY <1>1, ErasedFrontier
<1>. QED  BY <1>2 DEF FrontInv, m

LEMMA FrontLoader ==
  ASSUME UpdateInv, TransferInv, FrontInv, LimitInv, LimitInv', UpdateLimit \in Nat,
         BootCopy \/ CopyErase \/ CopyPage \/ CopyDone \/ BootApp
  PROVE  FrontInv'
<1>1. /\ pc \in {"boot", "erase", "copy", "done", "start"}
      /\ UNCHANGED <<slot, client, version>>
  BY DEF BootCopy, CopyErase, CopyPage, CopyDone, BootApp, airVars, bootVars
<1>2. slot' = NoSlot /\ client'.phase \notin {"send", "segments", "verified"}
  BY <1>1 DEF UpdateInv, SlotInv, ClientInv, TransferInv, SendingInv, Sending
<1>3. ~Pending'
  BY <1>2 DEF Pending
<1>4. CASE UNCHANGED page
  BY <1>1, <1>2, <1>3, <1>4, FrontQuiet
<1>5. CASE page' = ErasedPage
  BY <1>1, <1>2, <1>3, <1>5, FrontErased
<1>6. CASE CopyDone
  <2> DEFINE at == settings_find(page, copy_info_info).at
  <2>1. /\ page' = MadeInvalid(page, copy_info_info) /\ PageSound(page) /\ CopyPending
    BY <1>6 DEF CopyDone, UpdateInv, LoaderInv
  <2>2. IsSet(page, copy_info_info)
    BY <2>1, FindValid DEF CopyPending, NoneValid, PageSound
  <2>3. /\ at \in CopySlots /\ Valid(page, copy_info_info, at)
        /\ page' = Programmed(page, FlagAt(copy_info_info, at), <<InvalidFlag>>)
    BY <2>1, <2>2, FoundValid, SlotSets
  <2> HIDE DEF at
  <2>4. at # 60
    BY <2>3, CopySlot
  <2>5. at \in Nat /\ at + 6 \in 34 .. 63 /\ at + 6 \in 0 .. 63
    BY <2>3, <2>4 DEF CopySlots
  <2>6. Burnt(page, page', at + 6, <<InvalidFlag>>)
    BY <2>3, <2>5, FlagPlaces, FlagBurnt
  <2>7. ASSUME NEW w \in 16 .. 33 PROVE page'[w] = page[w]
    <3>1. w \in 0 .. 63 /\ w # at + 6
      BY <2>5
    <3>. QED  BY <2>5, <2>6, <3>1, BurntOneElse
  <2>8. Used' >= Used
    BY <1>1, <1>3, UsedSame
  <2>. QED  BY <1>2, <2>7, <2>8, FrontLeft
<1>. QED  BY <1>4, <1>5, <1>6 DEF BootCopy, CopyErase, CopyPage, BootApp

LEMMA NextFrontInv ==
  ASSUME UpdateInv, TransferInv, PromiseInv, FrontInv, LimitInv, UpdateLimit \in 0 .. 6,
         [Next]_vars
  PROVE  FrontInv' /\ LimitInv'
<1>0. UpdateLimit \in Nat
  OBVIOUS
<1>1. LimitInv'
  BY <1>0, LimitKept
<1>2. CASE Transfer
  BY <1>0, <1>1, <1>2, FrontStart, FrontApp DEF Transfer
<1>3. CASE Firmware
  BY <1>0, <1>1, <1>3, FrontApp, FrontFind, FrontWrite, FrontLoss, FrontLoader DEF Firmware
<1>4. CASE PowerLoss \/ PowerLossInSet \/ PowerLossInCopy
  BY <1>1, <1>4, FrontLoss
<1>5. CASE UNCHANGED vars
  <2>1. UNCHANGED <<page, version, slot, todo, client, pc>>
    BY <1>5 DEF vars, bootVars, airVars
  <2>2. Pending' => Pending
    BY <2>1 DEF Pending, SettingDue
  <2>3. UNCHANGED <<page, version>> /\ UNCHANGED <<slot, todo>>
    BY <2>1
  <2>. QED  BY <1>0, <1>1, <2>2, <2>3, FrontQuiet
<1>. QED  BY <1>1, <1>2, <1>3, <1>4, <1>5 DEF Next

(* Six writes fit, and a write is always one of the first six.             *)
LEMMA RoomForAddress ==
  ASSUME UpdateInv, PromiseInv, FrontInv, LimitInv, UpdateLimit \in 0 .. 6
  PROVE  SlotFree
<1> SUFFICES ASSUME slot # NoSlot, Head(todo).info = boot_addr_info
             PROVE  slot \in BootSlots /\ Free(page, boot_addr_info, slot)
  BY DEF SlotFree
<1>1. pc = "set" /\ todo # <<>> /\ client.phase = "verified"
  BY DEF UpdateInv, SlotInv, PromiseInv
<1>2. todo # <<EraseItem>>
  <2>1. todo = <<EraseItem>> => Head(todo) = EraseItem
    OBVIOUS
  <2>. QED  BY <2>1, ItemFields, InfoFields
<1>3. Pending
  BY <1>1, <1>2 DEF Pending, SettingDue
<1> DEFINE n == Used
<1>4. n \in Int /\ n <= 5
  BY <1>3, UsedInt
<1>5. Frontier(page, slot, n) /\ slot \in BootSlots \cup {34}
  BY DEF FrontInv
<1> HIDE DEF n
<1>. QED  BY <1>4, <1>5, FrontierFree

LEMMA InitVersionInv ==
  ASSUME Init, UpdateLimit \in Nat
  PROVE  PromiseInv /\ AllowedInv /\ FrontInv /\ LimitInv
<1>1. /\ pc = "boot" /\ client.phase = "idle" /\ page = ErasedPage /\ slot = NoSlot
      /\ version = 1 /\ allowed = {1}
  BY DEF Init, ClientIdle, FirstVersion
<1>2. VersionOf(Base) = 1
  <2>1. image[Base] = [s \in Sector |-> [p \in PageOf |-> FirstVersion]]
    BY DEF Init, Area
  <2>2. 0 \in Sector /\ 0 \in PageOf
    BY LayoutAssumption DEF Sector, PageOf
  <2>. QED  BY <2>1, <2>2 DEF VersionOf, FirstVersion
<1>3. ~CopyPending /\ BootAddress = Base
  BY <1>1, ErasedPageSound, AddressOf DEF CopyPending
<1>4. PromiseInv /\ AllowedInv
  BY <1>1, <1>2, <1>3 DEF PromiseInv, AllowedInv
<1>5. LimitInv
  BY <1>1 DEF LimitInv, FirstVersion
<1>6. Used = 0
  <2>1. ~Pending
    BY <1>1 DEF Pending
  <2>2. Used = version - 1 - 0
    BY <2>1 DEF Used, FirstVersion
  <2>. QED  BY <1>1, <2>2
<1>7. FrontInv
  <2>1. Frontier(page, 16, 0) /\ 16 \in BootSlots \cup {34}
    BY <1>1, ErasedFrontier
  <2>. QED  BY <1>1, <1>6, <2>1 DEF FrontInv
<1>. QED  BY <1>4, <1>5, <1>7

VersionInv == /\ UpdateInv /\ TransferInv
              /\ PromiseInv /\ AllowedInv /\ FrontInv /\ LimitInv

(* boot_app starts a version it may start: the one that ran before or,     *)
(* from FINISH on, the new one, and after the reset only that one, as long *)
(* as no more updates are begun than there are slots for the boot address  *)
(* (ota_settings.c:9-13, boot_ram_le501x.c:273-327).                       *)
THEOREM OtaBootsAllowed ==
  ASSUME UpdateLimit \in 0 .. 6
  PROVE  Spec => BootsAllowed
<1>0. UpdateLimit \in Nat
  OBVIOUS
<1>1. Init => VersionInv
  BY <1>0, InitVersionInv, InitUpdateInv, InitTransferInv DEF VersionInv
<1>2. VersionInv /\ [Next]_vars => VersionInv'
  BY NextUpdateInv, NextTransferInv, RoomForAddress, NextVersionInv, NextFrontInv
     DEF VersionInv
<1>3. VersionInv /\ [Next]_vars =>
        [pc = "start" /\ pc' = "app" => VersionOf(running') \in allowed]_vars
  <2> SUFFICES ASSUME VersionInv, Next, pc = "start", pc' = "app"
               PROVE  VersionOf(running') \in allowed
    OBVIOUS
  <2>1. BootApp
    BY DEF Next, Transfer, Firmware, StartReq, StartRejected, NewSector, Segment, SectorAcked,
           IntegrityCheck, Abandon, Disconnect, Finish, CleanSector, SetFind, SetWrite, Reset,
           Reboot, BootCopy, CopyErase, CopyPage, CopyDone, PowerLoss, PowerLossInSet,
           PowerLossInCopy, PowerFails
  <2>2. running' = BootAddress /\ ~CopyPending
    BY <2>1 DEF BootApp, VersionInv, UpdateInv, LoaderInv
  <2>. QED  BY <2>2 DEF VersionInv, AllowedInv
<1>. QED  BY <1>1, <1>2, <1>3, PTL DEF Spec, BootsAllowed

=============================================================================
